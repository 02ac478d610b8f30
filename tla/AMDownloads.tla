----------------------------- MODULE AMDownloads -----------------------------
(***************************************************************************)
(* The download store (CAMDownloadStore), the manager of the one download  *)
(* that runs (appmgmtdownloadmgr), the sessions of the server and the      *)
(* timer that ends its process (CShutdown).                                *)
(*                                                                         *)
(* The server is one thread, but a handler that shows a dialog or waits    *)
(* for the installer runs a nested scheduler loop (CDialogWait), in which  *)
(* clients connect, close and send requests and other events arrive.  An   *)
(* action is therefore the code between two such points.                   *)
(*                                                                         *)
(* The download service is external: while a download loads it reports     *)
(* progress and lost connections in any order, and then one end of it:     *)
(* Completed, Failed or Error, or, once cancel() was called, Cancelled or  *)
(* Error.  Abstracted: sizes, file names, notes, the reporting of results  *)
(* to the DM server, and what an installation does to the component        *)
(* (Active or Inactive are both "Deployed").                               *)
(***************************************************************************)
EXTENDS Integers, FiniteSets, Sequences

CONSTANTS
  Clients,        \* the clients that may open a session, one each
  Components,     \* the components of the storage
  MaxStore,       \* bound: the longest download store
  MaxDialogs,     \* bound: confirmation dialogs open at the same time
  RemoveInStore   \* do clients remove a component that is in the store?

ASSUME ClientsAssumption == IsFiniteSet(Clients)
ASSUME BoundsAssumption == MaxStore \in Nat \ {0} /\ MaxDialogs \in Nat
ASSUME RemoveInStoreAssumption == RemoveInStore \in BOOLEAN

VARIABLES
  up,             \* the server process runs
  open,           \* the clients that have a session
  iSessionCount,  \* the server's own count of them
  armed,          \* iShutdown is active
  comps,          \* the state of each component (persistent)
  store,          \* iDwnldStore: the wrappers, oldest first
  active,         \* the store's request is outstanding (IsActive)
  done,           \* its iStatus is no longer KRequestPending
  pos,            \* the place in the store of the wrapper that was started
  mgr             \* its appmgmtdownloadmgr and the download it manages

vars == <<up, open, iSessionCount, armed, comps, store, active, done, pos, mgr>>

-----------------------------------------------------------------------------
(* Types *)

States == {"absent", "Download", "Delivered", "Deployed"}

\* A wrapper (CAMDwnldQTWrap): its component, and whether StartDownload gave
\* it a manager.
Wrapper == [iComponent : Components, appdwnld : BOOLEAN]

\* What the download does: nothing when createDownload gave none; "handled"
\* is a completed download whose DownloadCompleted callback is still running.
Phases == {"none", "loading", "cancelling", "handled", "failed", "ended"}

Manager == [dl : Phases, dialogs : 0..MaxDialogs,
            accepted : BOOLEAN, progress : {"no", "shown", "closed"},
            endReported : BOOLEAN]

TypeOK ==
  /\ up \in BOOLEAN /\ armed \in BOOLEAN
  /\ open \subseteq Clients
  /\ iSessionCount \in Nat
  /\ comps \in [Components -> States]
  /\ store \in Seq(Wrapper) /\ Len(store) <= MaxStore
  /\ active \in BOOLEAN /\ done \in BOOLEAN
  /\ pos \in 0..MaxStore
  /\ mgr \in Manager

NoManager == [dl |-> "ended", dialogs |-> 0,
              accepted |-> FALSE, progress |-> "no",
              endReported |-> FALSE]

\* The memory of a new process; ConstructL ends with iShutdown.Start.
Fresh ==
  /\ open' = {} /\ iSessionCount' = 0
  /\ store' = << >> /\ active' = FALSE /\ done' = FALSE /\ pos' = 0
  /\ mgr' = NoManager

Init ==
  /\ up = TRUE /\ armed = TRUE /\ open = {} /\ iSessionCount = 0
  /\ comps = [c \in Components |-> "absent"]
  /\ store = << >> /\ active = FALSE /\ done = FALSE /\ pos = 0
  /\ mgr = NoManager

lifetime == <<up, open, iSessionCount, armed>>
queue == <<store, active, done, pos>>

-----------------------------------------------------------------------------
(* Helpers *)

\* The component of the wrapper whose download runs.
Running == store[pos].iComponent

\* StartDownload on the store s: its last wrapper gets a new manager, and its
\* request is outstanding.  createDownload may give no download.
StartLast(s) ==
  /\ store' = [s EXCEPT ![Len(s)].appdwnld = TRUE]
  /\ active' = TRUE /\ done' = FALSE /\ pos' = Len(s)
  /\ \E dl \in {"none", "loading"} : mgr' = [NoManager EXCEPT !.dl = dl]

\* closeProgress
Closed(m) == [m EXCEPT !.progress = IF @ = "shown" THEN "closed" ELSE @]

\* iDl->cancel(): a download that is over does not notice.
Cancel(m) == [m EXCEPT !.dl = IF @ = "loading" THEN "cancelling" ELSE @]

\* Mutant of DownloadCount: the download that is ending is not counted.
DownloadCountButOne == IF store = << >> THEN 0 ELSE Len(store) - 1

DownloadCount == Len(store)

\* The end of DownloadCompleteL: with no download left, a session less if
\* something failed, and the shutdown timer.  It may leave before.
AfterDownload ==
  \/ UNCHANGED lifetime
  \/ /\ \E failed \in BOOLEAN :
          LET n == IF failed /\ iSessionCount # 0
                     THEN iSessionCount - 1 ELSE iSessionCount
          IN IF DownloadCount = 0
               THEN iSessionCount' = n /\ armed' = (armed \/ n = 0)
               ELSE UNCHANGED <<iSessionCount, armed>>
     /\ UNCHANGED <<up, open>>

\* DownloadFailed: StatusUpdateL reports to the server only while the
\* component is in state Download.
DownloadFailed ==
  IF comps[Running] = "Download" THEN AfterDownload ELSE UNCHANGED lifetime

-----------------------------------------------------------------------------
(* Sessions *)

\* AddSession
Connect(k) ==
  /\ up /\ k \notin open
  /\ open' = open \cup {k} /\ iSessionCount' = iSessionCount + 1
  /\ armed' = FALSE
  /\ UNCHANGED <<up, comps, queue, mgr>>

\* Mutant of Close: the timer starts whatever the store holds.
CloseWhileDownloading(k) ==
  /\ up /\ k \in open
  /\ open' = open \ {k} /\ iSessionCount' = iSessionCount - 1
  /\ armed' = (armed \/ iSessionCount' = 0)
  /\ UNCHANGED <<up, comps, queue, mgr>>

\* DropSession
Close(k) ==
  /\ up /\ k \in open
  /\ open' = open \ {k} /\ iSessionCount' = iSessionCount - 1
  /\ armed' = (armed \/ (iSessionCount' = 0 /\ DownloadCount = 0))
  /\ UNCHANGED <<up, comps, queue, mgr>>

\* CShutdown::RunL: HbApplication::exit(0).
Expire ==
  /\ up /\ armed /\ up' = FALSE /\ armed' = FALSE
  /\ Fresh /\ UNCHANGED comps

\* A client's Connect starts the process again: ConstructL.
Start ==
  /\ ~up /\ up' = TRUE /\ armed' = TRUE
  /\ Fresh /\ UNCHANGED comps

-----------------------------------------------------------------------------
(* Requests *)

\* DownloadL: a component is created in state Download.
DownloadL(k, c) ==
  /\ up /\ k \in open /\ comps[c] = "absent"
  /\ comps' = [comps EXCEPT ![c] = "Download"]
  /\ UNCHANGED <<lifetime, queue, mgr>>

\* RemoveL: the storage deletes the component; the store keeps its wrapper and
\* the pointer in it, which nothing may follow any more.
RemoveL(k, c) ==
  /\ up /\ k \in open /\ comps[c] # "absent"
  /\ RemoveInStore \/ \A i \in DOMAIN store : store[i].iComponent # c
  /\ comps' = [comps EXCEPT ![c] = "absent"]
  /\ UNCHANGED <<lifetime, queue, mgr>>

\* StartDownloadL, AddDownloadL: any component the storage has, in any state.
StartDownloadL(k, c) ==
  /\ up /\ k \in open /\ comps[c] # "absent" /\ Len(store) < MaxStore
  /\ LET s == Append(store, [iComponent |-> c, appdwnld |-> FALSE])
     IN IF active
          THEN store' = s /\ UNCHANGED <<active, done, pos, mgr>>
          ELSE StartLast(s)
  /\ UNCHANGED <<lifetime, comps>>

\* Mutant of RunL: the downloads that wait are not started.
RunLWithoutNext ==
  /\ up /\ active /\ done
  /\ store' = SubSeq(store, 1, Len(store) - 1)
  /\ active' = FALSE /\ done' = FALSE /\ pos' = 0 /\ mgr' = NoManager
  /\ UNCHANGED <<lifetime, comps>>

\* CAMDownloadStore::RunL: the last wrapper leaves, whichever was started.
RunL ==
  /\ up /\ active /\ done
  /\ LET s == SubSeq(store, 1, Len(store) - 1)
     IN IF s # << >>
          THEN StartLast(s)
          ELSE /\ store' = s /\ active' = FALSE /\ done' = FALSE
               /\ pos' = 0 /\ mgr' = NoManager
  /\ UNCHANGED <<lifetime, comps>>

-----------------------------------------------------------------------------
(* Events of the download *)

Alive == mgr.dl \in {"loading", "cancelling"}

\* The manager sets the store's iStatus to KErrNone.
Complete == done' = TRUE /\ UNCHANGED <<store, active, pos>>

\* Progress asks the user until he agreed, then opens a progress dialog.  In a
\* silent session (iSilentSession, which any operation may set anew) it does
\* nothing.
InProgress ==
  /\ up /\ Alive
  /\ \/ /\ ~mgr.accepted /\ mgr.dialogs < MaxDialogs
        /\ mgr' = [mgr EXCEPT !.dialogs = @ + 1]
     \/ /\ mgr.accepted /\ mgr.progress = "no"
        /\ mgr' = [mgr EXCEPT !.progress = "shown"]
  /\ UNCHANGED <<lifetime, comps, queue>>

\* dialogSlot, of the Cancel button.
Decline ==
  /\ up /\ mgr.dialogs > 0
  /\ mgr' = Cancel([mgr EXCEPT !.dialogs = @ - 1, !.endReported = TRUE])
  /\ UNCHANGED <<lifetime, comps, queue>>

\* dialogSlot, of the Ok button or after 20 seconds.
Accept ==
  /\ up /\ mgr.dialogs > 0
  /\ mgr' = [mgr EXCEPT !.dialogs = @ - 1, !.accepted = TRUE]
  /\ UNCHANGED <<lifetime, comps, queue>>

\* AppMgmtProgDialog::cancelDialog: it has only a copy of mEndReported.
CancelProgress ==
  /\ up /\ mgr.progress = "shown"
  /\ mgr' = Cancel(Closed(mgr))
  /\ UNCHANGED <<lifetime, comps, queue>>

\* Mutant of Completed: iStatus is set before the callback runs.
CompletedBeforeCallback ==
  /\ up /\ mgr.dl = "loading"
  /\ mgr' = [Closed(mgr) EXCEPT !.dl = "handled"]
  /\ \/ comps' = [comps EXCEPT ![Running] = "Delivered"]
     \/ UNCHANGED comps
  /\ Complete /\ UNCHANGED lifetime

\* Completed, up to the first nested wait of the callback.  SuccessStatusUpdateL
\* refuses a type the device cannot install.
Completed ==
  /\ up /\ mgr.dl = "loading"
  /\ mgr' = [Closed(mgr) EXCEPT !.dl = "handled"]
  /\ \/ comps' = [comps EXCEPT ![Running] = "Delivered"]
     \/ UNCHANGED comps
  /\ UNCHANGED <<lifetime, queue>>

\* The rest of DownloadCompleteL (which may leave before its last lines) and
\* of the slot.
Handled ==
  /\ up /\ mgr.dl = "handled"
  /\ mgr' = [mgr EXCEPT !.dl = "ended"]
  /\ \/ /\ comps[Running] = "Delivered"
        /\ comps' = [comps EXCEPT ![Running] = "Deployed"]
     \/ UNCHANGED comps
  /\ AfterDownload /\ Complete

\* Failed: a note, no callback, no iStatus.
Failed ==
  /\ up /\ mgr.dl = "loading"
  /\ mgr' = [Closed(mgr) EXCEPT !.dl = "failed"]
  /\ UNCHANGED <<lifetime, comps, queue>>

\* Cancelled
Cancelled ==
  /\ up /\ mgr.dl = "cancelling"
  /\ mgr' = [Closed(mgr) EXCEPT !.dl = "ended"]
  /\ DownloadFailed /\ Complete
  /\ UNCHANGED comps

\* ConnectionNeeded, ConnectionDisconnected, NetworkLoss
NetworkLoss ==
  /\ up /\ Alive
  /\ mgr' = IF mgr.endReported THEN Closed(mgr)
            ELSE Cancel([Closed(mgr) EXCEPT !.endReported = TRUE])
  /\ UNCHANGED <<lifetime, comps, queue>>

\* Mutant of Error: iStatus is set only with the report.
ErrorCompletesIfReported ==
  /\ up /\ Alive
  /\ mgr' = [Closed(mgr) EXCEPT !.dl = "ended", !.endReported = TRUE]
  /\ IF mgr.endReported THEN UNCHANGED <<lifetime, queue>>
                        ELSE DownloadFailed /\ Complete
  /\ UNCHANGED comps

\* Error
Error ==
  /\ up /\ Alive
  /\ mgr' = [Closed(mgr) EXCEPT !.dl = "ended", !.endReported = TRUE]
  /\ IF mgr.endReported THEN UNCHANGED lifetime ELSE DownloadFailed
  /\ Complete
  /\ UNCHANGED comps

-----------------------------------------------------------------------------
Request(k) ==
  \/ Connect(k) \/ Close(k)
  \/ \E c \in Components : DownloadL(k, c) \/ RemoveL(k, c) \/ StartDownloadL(k, c)

\* What ends a download or leads to its end.
Ending ==
  Completed \/ Failed \/ Cancelled \/ Error

Next ==
  \/ \E k \in Clients : Request(k)
  \/ Expire \/ Start \/ RunL
  \/ InProgress \/ Decline \/ Accept \/ CancelProgress \/ NetworkLoss
  \/ Ending \/ Handled

Spec == Init /\ [][Next]_vars

\* A download ends, its callback returns (every dialog in it has a timeout),
\* and a ready active object runs.  Clients and the user need not do anything.
Fairness == WF_vars(Ending) /\ WF_vars(Handled) /\ WF_vars(RunL)

FairSpec == Spec /\ Fairness

-----------------------------------------------------------------------------
(* Properties *)

\* The store is never left waiting: with no outstanding request it is empty
\* (CAMDownloadStore::RunL, StartDownload).
IdleStoreIsEmpty == ~active => store = << >>

\* The download that runs, or whose completion is being handled, still has
\* its wrapper in the store; this keeps the store's DownloadCount positive in
\* the DownloadComplete callback, though RunL removes another wrapper.
RunningIsInStore ==
  active => pos \in DOMAIN store /\ store[pos].appdwnld
Handling == mgr.dl \in {"loading", "cancelling", "handled"}
HandledIsInStore == Handling => active /\ ~done /\ RunningIsInStore

\* The shutdown timer runs only while nobody needs the server: no session, no
\* download waiting, loading or being installed (AddSession, DropSession,
\* DownloadCompleteL).
ArmedOnlyWhenIdle ==
  armed => up /\ open = {} /\ store = << >> /\ ~active /\ ~Handling

\* iSessionCount is the number of open sessions, whatever happens to the
\* downloads they started (DownloadCompleteL also changes it).
CountsSessions == iSessionCount = Cardinality(open)

\* The server exits only as its abstract specification allows.
Life == INSTANCE AMLifecycle WITH sessions <- open, busy <- store # << >>
ImplementsLifecycle == Life!LifeSpec

\* The store drains once no client is connected, unless the download service
\* gave no download or reported Failed, for which nothing completes iStatus.
Stuck == active /\ mgr.dl \in {"none", "failed"}
StoreDrains == <>[](open = {}) => []<>(store = << >> \/ Stuck)

\* "StartDownloadL Starts download of deployment component"
\* (ApplicationManagementClient.h): a wrapper leaves the store only after its
\* download was started.
RemovedOnlyOnceStarted ==
  [][up /\ Len(store') < Len(store) => store[Len(store)].appdwnld \/ ~up']_vars

\* "Start the shutdown timer if it is the last session" (DropSession): a
\* server without sessions and downloads is going to exit.
IdleServerIsArmed == up /\ open = {} /\ ~active => armed

\* "The related object will be invalid after call" (inc/amstorage.h, RemoveL):
\* nothing in the store refers to a component that was removed.
StoreRefersToComponents ==
  \A i \in DOMAIN store : comps[store[i].iComponent] # "absent"
=============================================================================
