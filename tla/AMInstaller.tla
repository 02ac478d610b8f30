----------------------------- MODULE AMInstaller -----------------------------
(***************************************************************************)
(* Install, update and removal in the Application Management server:       *)
(* DownloadCompleteL, DoTheInstallL, SisInstallL, JavaInstallL,            *)
(* FullUpdateL, RemoveInternalL and CheckStatusNodesValuesL of             *)
(* ApplicationManagementServer.cpp, on top of CDialogWait                  *)
(* (appmgmtdownloadmgr.cpp).                                               *)
(*                                                                         *)
(* A handler that needs the user or the installer starts a nested loop of  *)
(* the active scheduler and the server goes on inside it: the callback of  *)
(* a download may begin while the handler of a client waits, and a client  *)
(* may be served while the callback waits.  `frames' is the stack of the   *)
(* handlers that wait; one of each kind fits, since the server object and  *)
(* the download store are not active while their own handler runs.         *)
(* RunL of a CDialogWait stops its loop only if it is the innermost one.   *)
(*                                                                         *)
(* A component changes in memory and in the repository at once (the writes *)
(* in between are the subject of AMStorage).  The process may die at any   *)
(* point; a loop that is signalled for a request nobody waits for panics   *)
(* (stray signal).  Left out: Activate and Deactivate requests (AMStorage),*)
(* progress dialogs, file contents, the wipe of a corporate certificate.   *)
(***************************************************************************)
EXTENDS Integers, Sequences, FiniteSets

CONSTANTS
  SisApps, JavaApps,  \* the applications a package may hold
  NoApp,              \* no application, a null uid, no component id
  MaxId,              \* bound: components ever created
  MaxRequests         \* bound: requests of clients, creations not counted

ASSUME AppsAssumption ==
  NoApp \notin SisApps \cup JavaApps /\ SisApps \cap JavaApps = {}
ASSUME BoundsAssumption == MaxId \in Nat \ {0} /\ MaxRequests \in Nat

VARIABLES
  ids,                \* iComponentIds, which grows by increasing ids
  nextId,             \* iNextId
  comp,               \* the components
  device,             \* the applications that are installed on the device
  iInstallInProgress,
  iComp,              \* the component DoTheInstallL or DownloadCompleteL set
  frames,             \* the handlers that wait, innermost last
  requests            \* how many requests were served (bound)

vars == <<ids, nextId, comp, device, iInstallInProgress, iComp, frames,
          requests>>

-----------------------------------------------------------------------------
(* Types *)

Apps == SisApps \cup JavaApps
Ids == 1..MaxId
States == {"Download", "Delivered", "Active", "Inactive", "Delete"}
Deployed == {"Active", "Inactive"}

\* TSCOMOStatusNodeStates; one number names several of them.
EIdle == 10
EFailed == 20          \* DownloadFailed, RemoveFailed
ERemoveProgress == 30
EInstallProgress == 40
EInstalledFailedWithData == 50
\* Mutant of EInstallFailedwithOutData: the value for a download.
EDownloadInstalledFailedWithOutData == 70
EInstallFailedwithOutData == 60
Statuses == {10, 20, 30, 40, 50, 60}

\* compId is the installer's id of the application, iComponentId.
Component == [state : States, status : Statuses, app : Apps \cup {NoApp},
              uid : Apps \cup {NoApp}, compId : Apps \cup {NoApp}]

\* The iStatus of a CDialogWait: KRequestPending; its result, once the request
\* is complete; "missed" if RunL found another loop inside its own; "never"
\* if there was no request to wait for.
Results == {"ok", "failed", "cancelled"}
Waits == {"pending", "missed", "never"} \cup Results

\* A handler: what it does to which component, which component an update
\* replaces, where it waits, and whether DeactivateL follows.
Frame == [who : {"client", "download"}, op : {"install", "remove", "update"},
          id : Ids, other : Ids, at : {"confirm", "working", "note"},
          wait : Waits, inactive : BOOLEAN]

TypeOK ==
  /\ ids \subseteq Ids
  /\ nextId \in 1..MaxId+1
  /\ comp \in [Ids -> Component]
  /\ device \subseteq Apps \cup {NoApp}
  /\ iInstallInProgress \in BOOLEAN
  /\ iComp \in Ids \cup {0}
  /\ frames \in Seq(Frame)
  /\ requests \in 0..MaxRequests

Blank == [state |-> "Download", status |-> EIdle, app |-> NoApp,
          uid |-> NoApp, compId |-> NoApp]

Init ==
  /\ ids = {} /\ nextId = 1 /\ comp = [i \in Ids |-> Blank] /\ device = {}
  /\ iInstallInProgress = FALSE /\ iComp = 0 /\ frames = << >>
  /\ requests = 0

-----------------------------------------------------------------------------
(* Helpers *)

Free(who) == \A i \in DOMAIN frames : frames[i].who # who
Top == frames[Len(frames)]
Below == SubSeq(frames, 1, Len(frames) - 1)

\* The innermost loop ended and its handler goes on.
Resumed(op, at) ==
  /\ frames # << >> /\ Top.op = op /\ Top.at = at /\ Top.wait \in Results
  /\ Top.id \in ids /\ Top.other \in ids

\* A request of a client is dispatched.
Requested ==
  Free("client") /\ requests < MaxRequests /\ requests' = requests + 1

WithStatus(m, i, v) == [m EXCEPT ![i].status = v]

Wait(who, op, i, at, w, inactive) ==
  [who |-> who, op |-> op, id |-> i, other |-> i, at |-> at, wait |-> w,
   inactive |-> inactive]

\* HasUidL goes through the whole list I and keeps the last match, which
\* DoDataUpdateCheckL returns: at most one component.
LastWithUid(I, m, i) ==
  LET C == {j \in I \ {i} : m[j].uid = m[i].uid /\ m[i].uid # NoApp}
  IN {j \in C : \A k \in C : k <= j}

\* InstalledL, and DeactivateL after it if the download asked for EInstall.
AsInstalled(m, i, inactive) ==
  [m EXCEPT ![i] = [@ EXCEPT !.state = IF inactive THEN "Inactive" ELSE "Active",
                             !.status = EIdle]]

\* CheckforDuplicateMidletsL with the empty names this build always has
\* (GetInstalledMidletParametersL does nothing, nobody calls SetMidletNameL):
\* it removes every deployed component, except that each removal shifts the
\* list under the index, which then skips the next one.
DeployedRun(i) ==
  {j \in ids : j <= i /\ \A k \in ids :
     j <= k /\ k <= i => comp[k].state \in Deployed}
DuplicateMidlets == {i \in ids : Cardinality(DeployedRun(i)) % 2 = 1}

\* The loop runs to the old length: if it removed any but the last component,
\* it reads behind the end of the array, which panics.
ReadsBehindTheEnd == \E i \in DuplicateMidlets : \E j \in ids : i < j

\* The memory of a new process; components, repository and device stay.
Restarted ==
  iInstallInProgress' = FALSE /\ iComp' = 0 /\ frames' = << >>

-----------------------------------------------------------------------------
(* Steps of the handlers, on the stack s below them *)

\* Mutant of AskInstaller: it does not look at iInstallInProgress.
AskAnyway(m, s, f, c) ==
  /\ comp' = m /\ iComp' = c
  /\ frames' = Append(s, f) /\ iInstallInProgress' = TRUE

\* InstallL or UninstallL makes its request, and StartWait waits for the
\* answer.  While another request is on, KErrInUse comes before StartWait
\* sets iStatus to KRequestPending: its signal is stray in the loop.  An
\* early answer of the installer is lost the same way (see Restart).
AskInstaller(m, s, f, c) ==
  /\ comp' = m
  /\ \/ /\ ~iInstallInProgress /\ iInstallInProgress' = TRUE
        /\ frames' = Append(s, f) /\ iComp' = c
     \/ iInstallInProgress /\ Restarted

\* SisInstallL and JavaInstallL up to their wait; c is iComp.
BeginInstall(m, s, f, c) ==
  \/ AskInstaller(WithStatus(m, f.id, EInstallProgress), s,
                  [f EXCEPT !.at = "working", !.wait = "pending"], c)
  \/ \* InstallL left, and InstallCompleteL followed
     /\ ~iInstallInProgress /\ UNCHANGED iInstallInProgress
     /\ comp' = WithStatus(m, f.id, EInstalledFailedWithData)
     /\ frames' = s /\ iComp' = c

\* DoTheInstallL: the user is asked unless he already was or the session is
\* silent.
DoTheInstallL(m, s, who, i, inactive) ==
  LET f == Wait(who, "install", i, "confirm", "pending", inactive)
  IN \/ /\ comp' = m /\ frames' = Append(s, f) /\ iComp' = i
        /\ UNCHANGED iInstallInProgress
     \/ BeginInstall(m, s, f, i)

\* RemoveInternalL of an installed component, once it is confirmed.  When
\* UninstallL leaves, there is nothing to wait for.
BeginUninstall(m, s, i) ==
  LET f == Wait("client", "remove", i, "working", "pending", FALSE)
  IN \/ AskInstaller(m, s, f, iComp)
     \/ /\ ~iInstallInProgress /\ UNCHANGED <<iInstallInProgress, iComp>>
        /\ comp' = m /\ frames' = Append(s, [f EXCEPT !.wait = "never"])

\* DoTheInstallL of component i behind the note, with the components I.
FinishInstall(I, m, s, i, inactive) ==
  LET old == {j \in LastWithUid(I, m, i) :
                m[i].state = "Delivered" /\ m[j].state \in Deployed}
  IN /\ iInstallInProgress' = FALSE /\ frames' = s
     /\ ids' = I \ old /\ comp' = AsInstalled(m, i, inactive)

\* Mutant of InstallComplete: iInstallInProgress is reset before the note.
InstallCompleteEarly(I, m, s, f) ==
  \/ /\ ids' = I /\ comp' = m /\ iInstallInProgress' = FALSE
     /\ frames' = Append(s, [f EXCEPT !.at = "note", !.wait = "pending"])
  \/ FinishInstall(I, m, s, f.id, f.inactive)

\* InstallCompleteL shows a note, unless the session is silent.
InstallComplete(I, m, s, f) ==
  \/ /\ ids' = I /\ comp' = m /\ UNCHANGED iInstallInProgress
     /\ frames' = Append(s, [f EXCEPT !.at = "note", !.wait = "pending"])
  \/ FinishInstall(I, m, s, f.id, f.inactive)

FinishUpdate(m, s, i, t, inactive) ==
  /\ iInstallInProgress' = FALSE /\ frames' = s
  /\ comp' = AsInstalled([m EXCEPT ![t].state = "Delete"], i, inactive)

\* FullUpdateL of component i over component t.  It waits for the installer
\* with User::WaitForRequest: nothing else runs.  It leaves when the states
\* are wrong, when InstallL leaves or another request is on, and when the
\* installer failed; only then iInstallInProgress stays set.  Before the note,
\* InstallCompleteL may fail to delete the files of a Java package.
FullUpdateL(m, s, who, i, t, inactive) ==
  LET f == [Wait(who, "update", i, "note", "pending", inactive)
              EXCEPT !.other = t]
      allowed == /\ m[i].state = "Delivered" /\ m[t].state \in Deployed
                 /\ ~iInstallInProgress
      installed == device \cup {m[i].app}
  IN \/ /\ comp' = m /\ frames' = s
        /\ UNCHANGED <<device, iInstallInProgress>>
     \/ /\ allowed /\ comp' = m /\ frames' = s /\ iInstallInProgress' = TRUE
        /\ device' \in {device} \cup {installed : a \in JavaApps \cap {m[i].app}}
     \/ /\ allowed /\ device' = installed
        /\ \/ /\ comp' = m /\ frames' = Append(s, f)
              /\ iInstallInProgress' = TRUE
           \/ FinishUpdate(m, s, i, t, inactive)

-----------------------------------------------------------------------------
(* Requests and callbacks *)

\* DeliverL and DownloadL create a component; a delivered package has a uid
\* if it is a SIS package.
Create(state, app) ==
  /\ Free("client") /\ nextId <= MaxId
  /\ nextId' = nextId + 1 /\ ids' = ids \cup {nextId}
  /\ comp' = [comp EXCEPT ![nextId] =
       [Blank EXCEPT !.state = state, !.app = app,
          !.uid = IF state = "Delivered" /\ app \in SisApps THEN app ELSE @]]
  /\ UNCHANGED <<device, iInstallInProgress, iComp, frames, requests>>

\* DownloadCompleteL of a download that failed, or whose package is of a type
\* that is not supported: then nobody sets the status.
DownloadFailed(i) ==
  /\ Free("download") /\ i \in ids /\ comp[i].state = "Download"
  /\ comp' \in {comp, WithStatus(comp, i, EFailed)} /\ iComp' = i
  /\ UNCHANGED <<ids, nextId, device, iInstallInProgress, frames, requests>>

\* SuccessStatusUpdateL, then DownloadCompleteL with its target.
DownloadComplete(i) ==
  LET uid == IF comp[i].app \in SisApps THEN comp[i].app ELSE NoApp
      m == [comp EXCEPT ![i] = [@ EXCEPT !.state = "Delivered",
                                         !.status = EIdle, !.uid = uid]]
      old == LastWithUid(ids, m, i)
  IN /\ Free("download") /\ i \in ids /\ comp[i].state = "Download"
     /\ UNCHANGED <<ids, nextId, requests>>
     /\ \/ \* EDeliver, or an update of nothing
           /\ comp' = m /\ iComp' = i
           /\ UNCHANGED <<device, iInstallInProgress, frames>>
        \/ \* EInstall, EInstallAndActivate
           /\ UNCHANGED device
           /\ \E inactive \in BOOLEAN :
                DoTheInstallL(m, frames, "download", i, inactive)
        \/ \* EUpdate, EUpdateAndActivate
           /\ iComp' = i
           /\ \E inactive \in BOOLEAN, t \in old :
                FullUpdateL(m, frames, "download", i, t, inactive)

\* CApplicationManagementSession::InstallL
Install(i) ==
  /\ Requested /\ i \in ids /\ comp[i].state = "Delivered"
  /\ DoTheInstallL(comp, frames, "client", i, FALSE)
  /\ UNCHANGED <<ids, nextId, device>>

\* CApplicationManagementSession::FullUpdateL
Update(i, t) ==
  /\ Requested /\ i \in ids /\ t \in ids
  /\ FullUpdateL(comp, frames, "client", i, t, FALSE)
  /\ UNCHANGED <<ids, nextId, iComp>>

\* RemoveInternalL of a component that is not installed, or that cannot be
\* uninstalled: it has no uid.
RemoveNow(i) ==
  /\ Requested /\ i \in ids
  /\ \/ comp[i].state \in {"Delivered", "Download"}
     \/ comp[i].state \in Deployed /\ comp[i].uid = NoApp
  /\ ids' = ids \ {i} /\ comp' = WithStatus(comp, i, ERemoveProgress)
  /\ UNCHANGED <<nextId, device, iInstallInProgress, iComp, frames>>

\* A component that is tagged for deletion: only its status changes.
RemoveTagged(i) ==
  /\ Requested /\ i \in ids /\ comp[i].state = "Delete"
  /\ comp' = WithStatus(comp, i, ERemoveProgress)
  /\ UNCHANGED <<ids, nextId, device, iInstallInProgress, iComp, frames>>

\* RemoveInternalL of an installed component asks the user, unless the session
\* is silent.
RemoveInstalled(i) ==
  LET m == WithStatus(comp, i, ERemoveProgress)
      f == Wait("client", "remove", i, "confirm", "pending", FALSE)
  IN /\ Requested /\ i \in ids
     /\ comp[i].state \in Deployed /\ comp[i].uid # NoApp
     /\ \/ /\ comp' = m /\ frames' = Append(frames, f)
           /\ UNCHANGED <<iInstallInProgress, iComp>>
        \/ BeginUninstall(m, frames, i)
     /\ UNCHANGED <<ids, nextId, device>>

\* CheckStatusNodesValuesL, with the values the names of its tests have.
CheckStatusNodesValuesL ==
  LET next(v) == CASE v = 30 -> 20 [] v = 40 -> 50 [] v = 50 -> 40
                   [] OTHER -> v
  IN /\ Requested
     /\ comp' = [i \in Ids |-> IF i \in ids
                   THEN [comp[i] EXCEPT !.status = next(@)] ELSE comp[i]]
     /\ UNCHANGED <<ids, nextId, device, iInstallInProgress, iComp, frames>>

-----------------------------------------------------------------------------
(* Answers of the user and the installer *)

\* What the installer does for the frame f when it succeeds.  It knows the
\* application of an uninstallation by the id it gave it.
DeviceAfter(f) ==
  IF f.op = "install" THEN device \cup {comp[f.id].app}
                      ELSE device \ {comp[f.id].compId}

Outcomes(f) ==
  CASE f.at = "note" -> {"ok"}
    [] f.at = "confirm" -> {"ok", "cancelled"}
    [] f.op = "install" -> Results
    [] f.op = "remove" /\ comp[f.id].compId = NoApp -> {"failed"}
    [] OTHER -> {"ok", "failed"}

\* The request of the j-th handler is complete.
Answer(j) ==
  /\ j \in DOMAIN frames /\ frames[j].wait = "pending"
  /\ \E r \in Outcomes(frames[j]) :
       /\ frames' = [frames EXCEPT ![j].wait = r]
       /\ device' = IF frames[j].at = "working" /\ r = "ok"
                      THEN DeviceAfter(frames[j]) ELSE device
  /\ UNCHANGED <<ids, nextId, comp, iInstallInProgress, iComp, requests>>

\* RunL of a wait that has another loop inside its own does nothing, and it
\* does not run again.
Miss(j) ==
  /\ j \in 1..(Len(frames) - 1) /\ frames[j].wait \in Results
  /\ frames' = [frames EXCEPT ![j].wait = "missed"]
  /\ UNCHANGED <<ids, nextId, comp, device, iInstallInProgress, iComp,
                 requests>>

-----------------------------------------------------------------------------
(* The innermost handler goes on *)

kept == <<nextId, device, requests>>

\* DoTheInstallL behind the question.
InstallConfirmed ==
  /\ Resumed("install", "confirm") /\ Top.wait = "ok"
  /\ BeginInstall(comp, Below, Top, iComp)
  /\ UNCHANGED <<ids, kept>>

\* The user declined; DownloadCompleteL still calls DeactivateL for EInstall.
InstallDeclined ==
  /\ Resumed("install", "confirm") /\ Top.wait # "ok"
  /\ comp' = IF Top.inactive
               THEN AsInstalled(comp, Top.id, TRUE)
               ELSE WithStatus(comp, Top.id, EInstallFailedwithOutData)
  /\ frames' = Below
  /\ UNCHANGED <<ids, iInstallInProgress, iComp, kept>>

\* The installer's id of the application, -1 unless it gave one.
GivenId(i) == IF Top.wait = "ok" THEN comp[i].app ELSE NoApp

\* SisInstallL behind its wait: the id goes to iComp, whatever that is by now.
SisInstalled ==
  LET id == GivenId(Top.id)
      m == [comp EXCEPT ![iComp].compId = id]
  IN /\ Resumed("install", "working") /\ comp[Top.id].app \in SisApps
     /\ IF Top.wait = "ok"
          THEN \/ InstallComplete(ids, WithStatus(m, Top.id, EIdle), Below, Top)
               \/ \* SetSisAppVersionAndDriveL leaves
                  /\ comp' = WithStatus(m, Top.id, EIdle) /\ frames' = Below
                  /\ UNCHANGED <<ids, iInstallInProgress>>
          ELSE /\ comp' = WithStatus(m, Top.id, EInstalledFailedWithData)
               /\ iInstallInProgress' = FALSE /\ frames' = Below
               /\ UNCHANGED ids
     /\ UNCHANGED <<iComp, kept>>

\* JavaInstallL behind its wait, if the user cancelled.  InstallCompleteL may
\* fail to delete the files.
JavaCancelled ==
  /\ Resumed("install", "working") /\ comp[Top.id].app \in JavaApps
  /\ Top.wait = "cancelled"
  /\ comp' = WithStatus([comp EXCEPT ![Top.id].compId = NoApp],
                      Top.id, EInstalledFailedWithData)
  /\ iInstallInProgress' \in {FALSE, iInstallInProgress} /\ frames' = Below
  /\ UNCHANGED <<ids, iComp, kept>>

\* JavaInstallL behind its wait in every other case, a failure included.  The
\* uid comes from a TMidletParameters nobody filled in.
JavaInstalled ==
  LET m(uid) == WithStatus([comp EXCEPT ![Top.id] =
                             [@ EXCEPT !.compId = GivenId(Top.id), !.uid = uid]],
                           Top.id, EIdle)
      I == ids \ DuplicateMidlets
  IN /\ Resumed("install", "working") /\ comp[Top.id].app \in JavaApps
     /\ Top.wait # "cancelled"
     /\ IF ReadsBehindTheEnd
          THEN ids' = I /\ Restarted
                 /\ comp' = [comp EXCEPT ![Top.id].compId = GivenId(Top.id)]
          ELSE /\ UNCHANGED iComp
               /\ \E uid \in Apps \cup {NoApp} :
                    \/ InstallComplete(I, m(uid), Below, Top)
                    \/ \* InstallCompleteL leaves
                       /\ comp' = m(uid) /\ frames' = Below /\ ids' = I
                       /\ UNCHANGED iInstallInProgress
     /\ UNCHANGED kept

\* The user has seen the note of an installation or of an update.
InstallNoted ==
  /\ Resumed("install", "note")
  /\ FinishInstall(ids, comp, Below, Top.id, Top.inactive)
  /\ UNCHANGED <<iComp, kept>>

UpdateNoted ==
  /\ Resumed("update", "note")
  /\ FinishUpdate(comp, Below, Top.id, Top.other, Top.inactive)
  /\ UNCHANGED <<ids, iComp, kept>>

\* RemoveInternalL behind the question.
RemoveConfirmed ==
  /\ Resumed("remove", "confirm") /\ Top.wait = "ok"
  /\ BeginUninstall(comp, Below, Top.id)
  /\ UNCHANGED <<ids, kept>>

\* Mutant of RemoveDeclined: the user is asked until he agrees.
RemoveDeclinedAsksAgain ==
  /\ Resumed("remove", "confirm") /\ Top.wait # "ok"
  /\ comp' = WithStatus(comp, Top.id, EFailed)
  /\ frames' = Append(Below, [Top EXCEPT !.wait = "pending"])
  /\ UNCHANGED <<ids, iInstallInProgress, iComp, kept>>

RemoveDeclined ==
  /\ Resumed("remove", "confirm") /\ Top.wait # "ok"
  /\ comp' = WithStatus(comp, Top.id, EFailed) /\ frames' = Below
  /\ UNCHANGED <<ids, iInstallInProgress, iComp, kept>>

\* RemoveInternalL behind the wait for the uninstaller.
Uninstalled ==
  /\ Resumed("remove", "working") /\ Top.wait = "ok"
  /\ iInstallInProgress' = FALSE
  /\ \/ /\ frames' = Append(Below, [Top EXCEPT !.at = "note",
                                               !.wait = "pending"])
        /\ UNCHANGED ids
     \/ frames' = Below /\ ids' = ids \ {Top.id}
  /\ UNCHANGED <<comp, iComp, kept>>

\* Mutant of UninstallFailed: the status stays.
UninstallFailedSilently ==
  /\ Resumed("remove", "working") /\ Top.wait # "ok"
  /\ frames' = Below /\ iInstallInProgress' = FALSE
  /\ UNCHANGED <<ids, comp, iComp, kept>>

UninstallFailed ==
  /\ Resumed("remove", "working") /\ Top.wait # "ok"
  /\ comp' = WithStatus(comp, Top.id, EFailed)
  /\ frames' = Below /\ iInstallInProgress' = FALSE
  /\ UNCHANGED <<ids, iComp, kept>>

RemoveNoted ==
  /\ Resumed("remove", "note")
  /\ ids' = ids \ {Top.id} /\ frames' = Below
  /\ UNCHANGED <<comp, iInstallInProgress, iComp, kept>>

\* The component of the innermost handler was removed under it: what the
\* handler does to it is undefined; here, nothing.
Dangling ==
  /\ frames # << >> /\ Top.wait \in Results
  /\ Top.id \notin ids \/ Top.other \notin ids
  /\ frames' = Below
  /\ UNCHANGED <<ids, comp, iInstallInProgress, iComp, kept>>

\* The process dies, and the installer finishes what it was asked for or not.
Restart ==
  /\ device' \in {device} \cup {DeviceAfter(frames[j]) : j \in
       {k \in DOMAIN frames : frames[k].at = "working"
                              /\ frames[k].wait = "pending"}}
  /\ Restarted
  /\ UNCHANGED <<ids, nextId, comp, requests>>

-----------------------------------------------------------------------------
(* The specification *)

Resume ==
  \/ InstallConfirmed \/ InstallDeclined
  \/ SisInstalled \/ JavaCancelled \/ JavaInstalled
  \/ InstallNoted \/ UpdateNoted
  \/ RemoveConfirmed \/ RemoveDeclined
  \/ Uninstalled \/ UninstallFailed \/ RemoveNoted
  \/ Dangling

Next ==
  \/ \E state \in {"Delivered", "Download"}, app \in Apps : Create(state, app)
  \/ \E i \in ids : DownloadFailed(i) \/ DownloadComplete(i)
  \/ \E i \in ids : Install(i) \/ RemoveNow(i) \/ RemoveTagged(i)
                    \/ RemoveInstalled(i)
  \/ \E i, t \in ids : Update(i, t)
  \/ CheckStatusNodesValuesL
  \/ \E j \in DOMAIN frames : Answer(j) \/ Miss(j)
  \/ Resume
  \/ Restart

Spec == Init /\ [][Next]_vars

\* Users and the installer answer, and the scheduler runs what is ready.
Fairness ==
  /\ WF_vars(Resume)
  /\ \A j \in 1..2 : WF_vars(Answer(j)) /\ WF_vars(Miss(j))

FairSpec == Spec /\ Fairness

-----------------------------------------------------------------------------
(* Properties *)

\* The handler f uses the installer: its request is on, or its result is not
\* yet recorded.
Holds(f) ==
  /\ f.wait # "never"
  /\ f.at = "working" \/ (f.at = "note" /\ f.op # "remove")

\* The installer, its file and its arguments (iInstaller, iInstallFile, iArgu,
\* iResults) are one for the whole server: no second handler uses them until
\* the first one is through, however the handlers nest, and iInstallInProgress
\* says so all the time.
OneRequest ==
  /\ ~iInstallInProgress => \A j \in DOMAIN frames : ~Holds(frames[j])
  /\ \A j, k \in DOMAIN frames : Holds(frames[j]) /\ Holds(frames[k]) => j = k

\* The innermost handler panics: a stray signal, or CheckforDuplicateMidletsL.
Panics ==
  \/ JavaInstalled /\ ReadsBehindTheEnd
  \/ Top.at = "confirm" /\ iInstallInProgress /\ ~iInstallInProgress'

\* A handler that ends leaves its component with a status that says how it
\* ended, not with an operation in progress that nobody performs.
HandlersSettleStatus ==
  [][\A i \in ids \cap ids' :
       Resume /\ Top.id = i /\ Top.other \in ids /\ frames' = Below /\ ~Panics
         => comp'[i].status \notin {ERemoveProgress, EInstallProgress}]_vars

\* A SIS component turns active only while its application is installed: no
\* removal slips in between the answer of the installer and InstalledL.
ActivatedIsInstalled ==
  [][\A i \in ids :
       comp[i].app \in SisApps /\ comp[i].state # "Active"
       /\ comp'[i].state = "Active" => comp[i].app \in device']_vars

\* Unless a wait was missed or had nothing to wait for, every handler ends.
HandlersEnd ==
  []<>(\/ frames = << >>
       \/ \E j \in DOMAIN frames : frames[j].wait \in {"missed", "never"})

\* No wait whose request is complete goes on for ever.
NoWaitIsMissed == \A j \in DOMAIN frames : frames[j].wait # "missed"

\* An installation is in progress only while a handler performs it.
InProgressHasHolder == iInstallInProgress => \E j \in DOMAIN frames : Holds(frames[j])

\* What the uninstaller removes is the application of the component.
UninstallsItsOwn ==
  [][\A j \in DOMAIN frames :
       frames[j].op = "remove" /\ frames[j].at = "working"
       /\ Answer(j) =>
            device \ device' \subseteq {comp[frames[j].id].app}]_vars
=============================================================================
