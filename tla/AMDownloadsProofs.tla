-------------------------- MODULE AMDownloadsProofs --------------------------
(***************************************************************************)
(* Proofs about AMDownloads for every finite set of clients, every set of  *)
(* components and every bound, whether or not clients remove components    *)
(* whose download is in the store: the invariants its run checks, and that *)
(* it implements AMLifecycle.                                              *)
(***************************************************************************)
EXTENDS AMDownloads, FiniteSetTheorems, SequenceTheorems, TLAPS

(* The inductive invariant                                                 *)

\* A process that does not run has no session and no download.
DeadIsEmpty ==
  ~up => open = {} /\ store = << >> /\ ~active /\ ~Handling

\* HandledIsInStore alone is not inductive: RunL must find that the wrapper
\* of a completed request is still there, so that the store is not empty.
IInv ==
  /\ TypeOK
  /\ DeadIsEmpty
  /\ IdleStoreIsEmpty
  /\ RunningIsInStore
  /\ HandledIsInStore
  /\ ArmedOnlyWhenIdle
  /\ CountsSessions

-----------------------------------------------------------------------------
(* Lemmas about the operators of the model                                 *)

\* TypeOK in two halves: no prover here does both well.
FlagTypes == up \in BOOLEAN /\ armed \in BOOLEAN
             /\ active \in BOOLEAN /\ done \in BOOLEAN
DataTypes ==
  /\ open \subseteq Clients
  /\ iSessionCount \in Nat
  /\ comps \in [Components -> States]
  /\ store \in Seq(Wrapper) /\ Len(store) <= MaxStore
  /\ pos \in 0..MaxStore
  /\ mgr \in Manager

LEMMA TypeHalves == (TypeOK <=> FlagTypes /\ DataTypes)
                    /\ (TypeOK' <=> FlagTypes' /\ DataTypes')
  BY DEF TypeOK, FlagTypes, DataTypes

LEMMA NoManagerType == NoManager \in Manager
  BY BoundsAssumption DEF NoManager, Manager, Phases

\* Starting the last wrapper of a store that is not empty leaves a store of
\* the same length whose last wrapper runs.
LEMMA StartLastStarts ==
  ASSUME NEW s \in Seq(Wrapper), s # << >>,
         Len(s) <= MaxStore, StartLast(s)
  PROVE  /\ store' \in Seq(Wrapper) /\ Len(store') = Len(s)
         /\ store' # << >>
         /\ active' = TRUE /\ done' = FALSE
         /\ pos' \in 0..MaxStore /\ pos' \in DOMAIN store'
         /\ store'[pos'].appdwnld
         /\ mgr' \in Manager
<1>1. Len(s) \in Nat \ {0} /\ Len(s) \in DOMAIN s /\ s[Len(s)] \in Wrapper
  OBVIOUS
<1>2. [s[Len(s)] EXCEPT !.appdwnld = TRUE] \in Wrapper
  BY <1>1 DEF Wrapper
<1>3. store' = [s EXCEPT ![Len(s)] = [s[Len(s)] EXCEPT !.appdwnld = TRUE]]
  BY DEF StartLast
<1>4. store' \in Seq(Wrapper) /\ Len(store') = Len(s) /\ DOMAIN store' = DOMAIN s
  BY <1>1, <1>2, <1>3
<1>5. store'[Len(s)].appdwnld
  BY <1>1, <1>3 DEF Wrapper
<1>6. mgr' \in Manager
  <2>1. PICK dl \in {"none", "loading"} : mgr' = [NoManager EXCEPT !.dl = dl]
    BY DEF StartLast
  <2> QED
    BY <2>1, NoManagerType DEF Manager, Phases
<1>7. active' = TRUE /\ done' = FALSE /\ pos' = Len(s)
  BY DEF StartLast
<1>8. store' # << >>
  BY <1>1, <1>4
<1> QED
  BY <1>1, <1>4, <1>5, <1>6, <1>7, <1>8, BoundsAssumption

\* RunL leaves a store that is one wrapper shorter.
LEMMA FrontType ==
  ASSUME NEW s \in Seq(Wrapper), s # << >>
  PROVE  /\ SubSeq(s, 1, Len(s) - 1) \in Seq(Wrapper)
         /\ Len(SubSeq(s, 1, Len(s) - 1)) = Len(s) - 1
<1> DEFINE n == Len(s) - 1
<1>1. n \in Nat /\ 1 \in Int /\ n \in Int
  OBVIOUS
<1>2. \A i \in 1..n : s[i] \in Wrapper
  OBVIOUS
<1> HIDE DEF n
<1>3. /\ SubSeq(s, 1, n) \in Seq(Wrapper)
      /\ Len(SubSeq(s, 1, n)) = IF 1 <= n THEN n - 1 + 1 ELSE 0
  BY <1>1, <1>2, SubSeqProperties
<1>4. Len(SubSeq(s, 1, n)) = n
  BY <1>1, <1>3
<1> QED
  BY <1>3, <1>4 DEF n

\* What closeProgress and cancel() return is a manager, with the same flags.
LEMMA ClosedType ==
  ASSUME NEW m \in Manager
  PROVE  Closed(m) \in Manager /\ Closed(m).dl = m.dl
  BY DEF Closed, Manager, Phases

LEMMA CancelType ==
  ASSUME NEW m \in Manager
  PROVE  /\ Cancel(m) \in Manager
         /\ Cancel(m).dl = IF m.dl = "loading" THEN "cancelling" ELSE m.dl
  BY DEF Cancel, Manager, Phases

\* The callback of a download finds the store not empty, so it changes neither
\* the count of the sessions nor the timer.
LEMMA CallbackKeepsLifetime ==
  ASSUME TypeOK, store # << >>, AfterDownload \/ DownloadFailed
  PROVE  UNCHANGED lifetime
<1>1. DownloadCount # 0
  BY DEF TypeOK, DownloadCount
<1> QED
  BY <1>1 DEF AfterDownload, DownloadFailed, lifetime

\* A step that leaves the sessions, the timer and the store alone keeps the
\* invariant, if the manager it leaves is one the store can have.
LEMMA ManagerSteps ==
  ASSUME IInv, UNCHANGED <<lifetime, store, active, pos>>,
         comps' \in [Components -> States], mgr' \in Manager,
         done' \in BOOLEAN,
         Handling' => active /\ ~done'
  PROVE  IInv'
<1> USE DEF IInv, lifetime
<1>1. TypeOK'
  BY DEF TypeOK
<1>2. IdleStoreIsEmpty' /\ RunningIsInStore' /\ CountsSessions'
  BY DEF IdleStoreIsEmpty, RunningIsInStore, CountsSessions
<1>3. HandledIsInStore'
  BY <1>2 DEF HandledIsInStore
<1>4. DeadIsEmpty'
  BY DEF DeadIsEmpty
<1>5. ArmedOnlyWhenIdle'
  BY DEF ArmedOnlyWhenIdle
<1> QED
  BY <1>1, <1>2, <1>3, <1>4, <1>5

-----------------------------------------------------------------------------
(* The invariant                                                           *)

LEMMA InitInvariant == Init => IInv
<1> SUFFICES ASSUME Init PROVE IInv
  OBVIOUS
<1>1. TypeOK
  <2>1. FlagTypes
    BY Zenon DEF Init, FlagTypes
  <2>2. << >> \in Seq(Wrapper) /\ Len(<< >>) = 0
    OBVIOUS
  <2>3. DataTypes
    BY <2>2, NoManagerType, BoundsAssumption DEF Init, DataTypes, States
  <2> QED
    BY <2>1, <2>3, TypeHalves
<1>2. CountsSessions
  BY FS_EmptySet DEF Init, CountsSessions
<1> QED
  BY <1>1, <1>2 DEF Init, IInv, DeadIsEmpty, IdleStoreIsEmpty, RunningIsInStore,
     HandledIsInStore, ArmedOnlyWhenIdle, Handling, NoManager

\* The sessions and the timer: Connect, Close, Expire, Start.
LEMMA ConnectInvariant ==
  ASSUME IInv, NEW k \in Clients, Connect(k)
  PROVE  IInv'
<1> USE DEF IInv, Connect, queue
<1>1. TypeOK'
  <2>1. FlagTypes'
    BY Zenon, TypeHalves DEF FlagTypes
  <2>2. DataTypes'
    BY TypeHalves DEF DataTypes
  <2> QED
    BY <2>1, <2>2, TypeHalves
<1>2. CountsSessions'
  <2>1. IsFiniteSet(open)
    BY ClientsAssumption, FS_Subset DEF TypeOK
  <2> QED
    BY <2>1, FS_AddElement DEF CountsSessions
<1>3. DeadIsEmpty' /\ IdleStoreIsEmpty' /\ RunningIsInStore' /\ HandledIsInStore'
  BY DEF DeadIsEmpty, IdleStoreIsEmpty, RunningIsInStore, HandledIsInStore, Handling
<1>4. ArmedOnlyWhenIdle'
  BY DEF ArmedOnlyWhenIdle
<1> QED
  BY <1>1, <1>2, <1>3, <1>4

LEMMA CloseInvariant ==
  ASSUME IInv, NEW k \in Clients, Close(k)
  PROVE  IInv'
<1> USE DEF IInv, Close, queue
<1>1. IsFiniteSet(open)
  BY ClientsAssumption, FS_Subset DEF TypeOK
<1>2. iSessionCount' = Cardinality(open') /\ iSessionCount' \in Nat
  <2>1. Cardinality(open \ {k}) = Cardinality(open) - 1
        /\ IsFiniteSet(open \ {k})
    BY <1>1, FS_RemoveElement
  <2>2. Cardinality(open \ {k}) \in Nat
    BY <2>1, FS_CardinalityType
  <2> QED
    BY <2>1, <2>2 DEF CountsSessions
<1>3. TypeOK'
  BY <1>2 DEF TypeOK
<1>4. DeadIsEmpty' /\ IdleStoreIsEmpty' /\ RunningIsInStore' /\ HandledIsInStore'
  BY DEF DeadIsEmpty, IdleStoreIsEmpty, RunningIsInStore, HandledIsInStore, Handling
\* The timer starts at the last session, if the store is empty: then nothing
\* is outstanding either.
<1>5. ArmedOnlyWhenIdle'
  <2>1. CASE armed
    BY <2>1 DEF ArmedOnlyWhenIdle
  <2>2. CASE ~armed
    <3> SUFFICES ASSUME armed' PROVE up' /\ open' = {} /\ store' = << >>
                                    /\ ~active' /\ ~Handling'
      BY DEF ArmedOnlyWhenIdle
    <3>1. iSessionCount' = 0 /\ Len(store) = 0
      BY <2>2 DEF DownloadCount
    <3>2. open' = {}
      BY <1>1, <1>2, <3>1, FS_RemoveElement, FS_EmptySet
    <3>3. store = << >>
      BY <3>1 DEF TypeOK
    <3>4. ~active
      BY <3>3 DEF RunningIsInStore
    <3> QED
      BY <3>2, <3>3, <3>4 DEF HandledIsInStore, Handling
  <2> QED
    BY <2>1, <2>2
<1> QED
  BY <1>2, <1>3, <1>4, <1>5 DEF CountsSessions

LEMMA ProcessInvariant ==
  ASSUME IInv, Expire \/ Start
  PROVE  IInv'
<1> USE DEF Expire, Start, Fresh
<1>1. TypeOK'
  <2>1. FlagTypes'
    BY Zenon DEF FlagTypes
  <2>2. << >> \in Seq(Wrapper) /\ Len(<< >>) = 0
    OBVIOUS
  <2>3. open' = {} /\ iSessionCount' = 0 /\ store' = << >> /\ pos' = 0
        /\ mgr' = NoManager /\ comps' = comps
    BY Zenon
  <2> HIDE DEF Expire, Start
  <2>4. DataTypes'
    BY <2>2, <2>3, NoManagerType, BoundsAssumption, TypeHalves DEF IInv, DataTypes
  <2> QED
    BY <2>1, <2>4, TypeHalves
<1>2. CountsSessions'
  BY FS_EmptySet DEF CountsSessions
<1> QED
  BY <1>1, <1>2 DEF IInv, DeadIsEmpty, IdleStoreIsEmpty, RunningIsInStore,
     HandledIsInStore, ArmedOnlyWhenIdle, Handling, NoManager

\* The requests and the completion of the store: only these change it.
LEMMA QueueSteps ==
  ASSUME IInv, UNCHANGED <<lifetime, comps>>, up, ~armed,
         NEW s \in Seq(Wrapper), s # << >>, Len(s) <= MaxStore, StartLast(s)
  PROVE  IInv'
<1> USE DEF lifetime
<1>1. TypeOK'
  BY StartLastStarts DEF IInv, TypeOK
<1>2. CountsSessions'
  BY DEF IInv, CountsSessions
<1>3. RunningIsInStore'
  BY StartLastStarts DEF RunningIsInStore
<1> QED
  BY <1>1, <1>2, <1>3, StartLastStarts DEF IInv, DeadIsEmpty, IdleStoreIsEmpty,
     HandledIsInStore, ArmedOnlyWhenIdle

LEMMA StartDownloadInvariant ==
  ASSUME IInv, NEW k \in Clients, NEW c \in Components, StartDownloadL(k, c)
  PROVE  IInv'
<1> DEFINE w == [iComponent |-> c, appdwnld |-> FALSE]
           s == Append(store, w)
<1>1. w \in Wrapper
  BY DEF Wrapper
<1>2. s \in Seq(Wrapper) /\ s # << >> /\ Len(s) <= MaxStore
      /\ Len(s) = Len(store) + 1 /\ \A i \in DOMAIN store : s[i] = store[i]
  BY <1>1, BoundsAssumption DEF IInv, TypeOK, StartDownloadL
<1>3. up /\ ~armed /\ UNCHANGED <<lifetime, comps>>
  BY DEF IInv, ArmedOnlyWhenIdle, StartDownloadL
<1>4. CASE active
  <2>1. store' = s /\ UNCHANGED <<active, done, pos, mgr>>
    BY <1>4 DEF StartDownloadL
  <2>2. TypeOK'
    BY <1>2, <1>3, <2>1 DEF IInv, TypeOK, lifetime
  <2>3. RunningIsInStore'
    BY <1>2, <1>4, <2>1 DEF IInv, RunningIsInStore, TypeOK
  <2> QED
    BY <1>3, <1>4, <2>1, <2>2, <2>3 DEF IInv, lifetime, DeadIsEmpty,
       IdleStoreIsEmpty, HandledIsInStore, ArmedOnlyWhenIdle, CountsSessions,
       Handling
<1>5. CASE ~active
  <2>1. StartLast(s)
    BY <1>5 DEF StartDownloadL
  <2> HIDE DEF s, w
  <2> QED
    BY <1>2, <1>3, <2>1, QueueSteps
<1> QED
  BY <1>4, <1>5

LEMMA RunLInvariant ==
  ASSUME IInv, RunL
  PROVE  IInv'
<1> DEFINE s == SubSeq(store, 1, Len(store) - 1)
<1>1. store # << >> /\ ~armed /\ up /\ UNCHANGED <<lifetime, comps>>
  BY DEF IInv, RunL, RunningIsInStore, ArmedOnlyWhenIdle
<1>2. s \in Seq(Wrapper) /\ Len(s) <= MaxStore
  BY <1>1, FrontType, BoundsAssumption DEF IInv, TypeOK
<1>3. CASE s # << >>
  <2>1. StartLast(s)
    BY <1>3 DEF RunL
  <2> HIDE DEF s
  <2> QED
    BY <1>1, <1>2, <1>3, <2>1, QueueSteps
<1>4. CASE s = << >>
  <2>1. store' = << >> /\ active' = FALSE /\ done' = FALSE /\ pos' = 0
        /\ mgr' = NoManager
    BY <1>4 DEF RunL
  <2>2. TypeOK'
    <3>1. FlagTypes'
      BY <1>1, <2>1, TypeHalves, Zenon DEF IInv, FlagTypes, lifetime
    <3>2. << >> \in Seq(Wrapper) /\ Len(<< >>) = 0
      OBVIOUS
    <3>3. DataTypes'
      BY <1>1, <2>1, <3>2, NoManagerType, BoundsAssumption, TypeHalves
         DEF IInv, DataTypes, lifetime
    <3> QED
      BY <3>1, <3>3, TypeHalves
  <2> QED
    BY <1>1, <2>1, <2>2 DEF IInv, lifetime, DeadIsEmpty, IdleStoreIsEmpty,
       RunningIsInStore, HandledIsInStore, ArmedOnlyWhenIdle, CountsSessions,
       Handling, NoManager
<1> QED
  BY <1>3, <1>4

\* The events of the download.
LEMMA EventInvariant ==
  ASSUME IInv, \/ InProgress \/ Decline \/ Accept \/ CancelProgress
               \/ NetworkLoss \/ Ending \/ Handled
  PROVE  IInv'
<1> USE DEF Complete, queue
<1>1. mgr \in Manager /\ TypeOK /\ (Handling => active /\ ~done /\ store # << >>)
  BY DEF IInv, TypeOK, HandledIsInStore, RunningIsInStore
<1>2. CASE InProgress
  <2>1. mgr' \in Manager /\ mgr'.dl = mgr.dl
    BY <1>1, <1>2, BoundsAssumption DEF InProgress, Manager
  <2> QED
    BY <1>1, <1>2, <2>1, ManagerSteps DEF InProgress, TypeOK, Handling
<1>3. CASE Decline
  <2> DEFINE m == [mgr EXCEPT !.dialogs = @ - 1, !.endReported = TRUE]
  <2>1. m \in Manager /\ m.dl = mgr.dl
    <3>1. mgr.dialogs - 1 \in 0..MaxDialogs
      BY <1>1, <1>3, BoundsAssumption DEF Decline, Manager
    <3> QED
      BY <1>1, <3>1 DEF Manager
  <2>2. mgr' \in Manager /\ (Handling' => Handling)
    <3>1. mgr' = Cancel(m)
      BY <1>3 DEF Decline
    <3> HIDE DEF m
    <3> QED
      BY <2>1, <3>1, CancelType DEF Handling
  <2> QED
    BY <1>1, <1>3, <2>2, ManagerSteps DEF Decline, TypeOK
<1>4. CASE Accept
  <2>1. mgr' \in Manager /\ mgr'.dl = mgr.dl
    <3>1. mgr.dialogs - 1 \in 0..MaxDialogs
      BY <1>1, <1>4, BoundsAssumption DEF Accept, Manager
    <3> QED
      BY <1>1, <1>4, <3>1 DEF Accept, Manager
  <2> QED
    BY <1>1, <1>4, <2>1, ManagerSteps DEF Accept, TypeOK, Handling
<1>5. CASE CancelProgress
  <2>1. mgr' \in Manager /\ (Handling' => Handling)
    BY <1>1, <1>5, ClosedType, CancelType DEF CancelProgress, Handling
  <2> QED
    BY <1>1, <1>5, <2>1, ManagerSteps DEF CancelProgress, TypeOK
<1>6. CASE NetworkLoss
  <2> DEFINE m == [Closed(mgr) EXCEPT !.endReported = TRUE]
  <2>1. m \in Manager /\ m.dl = mgr.dl
    BY <1>1, ClosedType DEF Manager
  <2>2. mgr' = Closed(mgr) \/ mgr' = Cancel(m)
    BY <1>6 DEF NetworkLoss
  <2>3. mgr' \in Manager /\ (Handling' => Handling)
    <3> HIDE DEF m
    <3> QED
      BY <1>1, <2>1, <2>2, ClosedType, CancelType DEF Handling
  <2> QED
    BY <1>1, <1>6, <2>3, ManagerSteps DEF NetworkLoss, TypeOK
<1>7. CASE Completed
  <2>1. mgr' \in Manager
    BY <1>1, <1>7, ClosedType DEF Completed, Manager, Phases
  <2>2. Handling /\ comps' \in [Components -> States]
    BY <1>1, <1>7 DEF Completed, TypeOK, States, Handling
  <2> QED
    BY <1>1, <1>7, <2>1, <2>2, ManagerSteps DEF Completed, TypeOK
<1>8. CASE Failed
  <2>1. mgr' \in Manager /\ mgr'.dl = "failed"
    BY <1>1, <1>8, ClosedType DEF Failed, Manager, Phases
  <2> QED
    BY <1>1, <1>8, <2>1, ManagerSteps DEF Failed, TypeOK, Handling
<1>9. CASE Cancelled
  <2>1. mgr' \in Manager /\ mgr'.dl = "ended"
    BY <1>1, <1>9, ClosedType DEF Cancelled, Manager, Phases
  <2>2. UNCHANGED lifetime
    BY <1>1, <1>9, CallbackKeepsLifetime DEF Cancelled, Handling
  <2> QED
    BY <1>1, <1>9, <2>1, <2>2, ManagerSteps DEF Cancelled, TypeOK, Handling
<1>10. CASE Error
  <2>1. mgr' \in Manager /\ mgr'.dl = "ended"
    BY <1>1, <1>10, ClosedType DEF Error, Manager, Phases
  <2>2. UNCHANGED lifetime
    BY <1>1, <1>10, CallbackKeepsLifetime DEF Error, Handling, Alive
  <2> QED
    BY <1>1, <1>10, <2>1, <2>2, ManagerSteps DEF Error, TypeOK, Handling
<1>11. CASE Handled
  <2>1. mgr' \in Manager /\ mgr'.dl = "ended"
    BY <1>1, <1>11 DEF Handled, Manager, Phases
  <2>2. UNCHANGED lifetime /\ comps' \in [Components -> States]
    BY <1>1, <1>11, CallbackKeepsLifetime DEF Handled, Handling, TypeOK, States
  <2> QED
    BY <1>1, <1>11, <2>1, <2>2, ManagerSteps DEF Handled, TypeOK, Handling
<1> QED
  BY <1>2, <1>3, <1>4, <1>5, <1>6, <1>7, <1>8, <1>9, <1>10, <1>11 DEF Ending

LEMMA StepInvariant == IInv /\ [Next]_vars => IInv'
<1> SUFFICES ASSUME IInv, [Next]_vars PROVE IInv'
  OBVIOUS
<1>1. CASE UNCHANGED vars
  BY <1>1 DEF vars, IInv, TypeOK, DeadIsEmpty, IdleStoreIsEmpty,
     RunningIsInStore, HandledIsInStore, ArmedOnlyWhenIdle, CountsSessions, Handling
<1>2. ASSUME NEW k \in Clients, Request(k) PROVE IInv'
  <2>1. CASE Connect(k)
    BY <2>1, ConnectInvariant
  <2>2. CASE Close(k)
    BY <2>2, CloseInvariant
  <2>3. ASSUME NEW c \in Components, DownloadL(k, c) \/ RemoveL(k, c)
        PROVE  IInv'
    <3>1. UNCHANGED <<lifetime, queue, mgr>> /\ comps' \in [Components -> States]
      BY <2>3 DEF DownloadL, RemoveL, IInv, TypeOK, States
    <3> QED
      BY <3>1, ManagerSteps DEF queue, IInv, TypeOK, HandledIsInStore, Handling
  <2>4. ASSUME NEW c \in Components, StartDownloadL(k, c) PROVE IInv'
    BY <2>4, StartDownloadInvariant
  <2> QED
    BY <1>2, <2>1, <2>2, <2>3, <2>4 DEF Request
<1>3. CASE Expire \/ Start
  BY <1>3, ProcessInvariant
<1>4. CASE RunL
  BY <1>4, RunLInvariant
<1>5. CASE \/ InProgress \/ Decline \/ Accept \/ CancelProgress
           \/ NetworkLoss \/ Ending \/ Handled
  BY <1>5, EventInvariant
<1> QED
  BY <1>1, <1>2, <1>3, <1>4, <1>5 DEF Next

THEOREM Invariant == Spec => []IInv
  BY InitInvariant, StepInvariant, PTL DEF Spec

\* Every state of the server is well typed, for any bounds; the store's count
\* and the count of sessions never become negative.
THEOREM TypeCorrect == Spec => []TypeOK
<1>1. IInv => TypeOK
  BY DEF IInv
<1> QED
  BY <1>1, Invariant, PTL

\* No download waits in a store that waits for nothing.
THEOREM IdleStoreIsEmptyAlways == Spec => []IdleStoreIsEmpty
<1>1. IInv => IdleStoreIsEmpty
  BY DEF IInv
<1> QED
  BY <1>1, Invariant, PTL

\* In the DownloadComplete callback the store is never empty, so the lines of
\* DownloadCompleteL that end a session and start the timer never run.
THEOREM HandledIsInStoreAlways == Spec => []HandledIsInStore
<1>1. IInv => HandledIsInStore
  BY DEF IInv
<1> QED
  BY <1>1, Invariant, PTL

\* The shutdown timer never runs while somebody needs the server.
THEOREM ArmedOnlyWhenIdleAlways == Spec => []ArmedOnlyWhenIdle
<1>1. IInv => ArmedOnlyWhenIdle
  BY DEF IInv
<1> QED
  BY <1>1, Invariant, PTL

\* iSessionCount is always the number of sessions.
THEOREM CountsSessionsAlways == Spec => []CountsSessions
<1>1. IInv => CountsSessions
  BY DEF IInv
<1> QED
  BY <1>1, Invariant, PTL

-----------------------------------------------------------------------------
(* The server implements AMLifecycle                                       *)

LEMMA InitImplements == Init => Life!LifeInit
  BY DEF Init, Life!LifeInit

\* An event of the download is a stuttering step of the life cycle, and a
\* completed request is the end of the work or another stuttering step.
LEMMA StepImplements ==
  IInv /\ IInv' /\ [Next]_vars => [Life!LifeNext]_Life!lvars
<1> SUFFICES ASSUME IInv, IInv', [Next]_vars
             PROVE  [Life!LifeNext]_Life!lvars
  OBVIOUS
<1> USE DEF Life!lvars
<1>1. CASE UNCHANGED vars
  BY <1>1 DEF vars
<1>2. ASSUME NEW k \in Clients, Request(k) PROVE [Life!LifeNext]_Life!lvars
  <2>1. CASE Connect(k)
    BY <2>1 DEF Connect, queue, Life!LifeNext, Life!Connect
  <2>2. CASE Close(k)
    BY <2>2 DEF Close, queue, Life!LifeNext, Life!Close
  <2>3. ASSUME NEW c \in Components, DownloadL(k, c) \/ RemoveL(k, c)
        PROVE  UNCHANGED Life!lvars
    BY <2>3 DEF DownloadL, RemoveL, lifetime, queue
  <2>4. ASSUME NEW c \in Components, StartDownloadL(k, c)
        PROVE  Life!TakeWork(k)
    <3>1. active' /\ up /\ k \in open /\ UNCHANGED <<up, open>>
      BY <2>4 DEF StartDownloadL, StartLast, lifetime
    <3>2. store' # << >>
      BY <3>1 DEF IInv, RunningIsInStore
    <3> QED
      BY <3>1, <3>2 DEF Life!TakeWork
  <2> QED
    BY <1>2, <2>1, <2>2, <2>3, <2>4 DEF Request, Life!LifeNext
<1>3. CASE Expire
  BY <1>3 DEF Expire, Fresh, IInv, ArmedOnlyWhenIdle, Life!LifeNext, Life!Exit
<1>4. CASE Start
  BY <1>4 DEF Start, Fresh, Life!LifeNext, Life!Start
<1>5. CASE RunL
  <2>1. up /\ UNCHANGED <<up, open>> /\ store # << >>
    BY <1>5 DEF RunL, lifetime, IInv, RunningIsInStore
  <2>2. CASE store' = << >>
    BY <2>1, <2>2 DEF Life!LifeNext, Life!FinishWork
  <2> QED
    BY <2>1, <2>2
<1>6. CASE InProgress \/ Decline \/ Accept \/ CancelProgress \/ NetworkLoss
           \/ Completed \/ Failed
  BY <1>6 DEF InProgress, Decline, Accept, CancelProgress, NetworkLoss,
     Completed, Failed, lifetime, queue
<1>7. CASE Cancelled \/ Error \/ Handled
  BY <1>7 DEF Cancelled, Error, Handled, DownloadFailed, AfterDownload,
     Complete, lifetime
<1> QED
  BY <1>1, <1>2, <1>3, <1>4, <1>5, <1>6, <1>7 DEF Next, Ending

\* The process exits only when no client has a session and no download is in
\* the store, and only a client with a session makes the store busy.
THEOREM Implements == Spec => ImplementsLifecycle
<1>1. Spec => Life!LifeInit
  BY InitImplements DEF Spec
<1>2. Spec => [][Life!LifeNext]_Life!lvars
  BY Invariant, StepImplements, PTL DEF Spec
<1> QED
  BY <1>1, <1>2, PTL DEF ImplementsLifecycle, Life!LifeSpec
=============================================================================
