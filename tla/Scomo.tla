-------------------------------- MODULE Scomo --------------------------------
(***************************************************************************)
(* CSCOMOAdapter (omascomoadapter/src/omascomoadapter.cpp) with its        *)
(* database of pending alerts, and what it uses of the Application         *)
(* Management server: deployment components, and the results of downloads  *)
(* that the server keeps until the adapter has reported them.              *)
(*                                                                         *)
(* A node is <<place, user id>>, place one of Download, Delivered and      *)
(* Deployed.  The server changes components on its own (a download ends,   *)
(* an application disappears); the adapter moves the mappings after it,    *)
(* once in a session.                                                      *)
(*                                                                         *)
(* Abstracted: the values of the leaves, ACLs, install options, the        *)
(* last-error node, the texts of alerts, most of the description of the    *)
(* tree.  Calls of other clients of the server do not fall into a handler  *)
(* of the adapter.                                                         *)
(***************************************************************************)
EXTENDS AMServer

CONSTANTS
    UserIds,    \* names a server gives to nodes
    Statics,    \* names a device may have for the predefined node of Download, "" for none
    Servers,    \* ids of DM servers
    Objects,    \* leaf -> the objects it is sent
    MaxId,      \* bound: the greatest internal id
    MaxStatic,  \* bound: ... of a component of the predefined node
    MaxRetry,   \* KMaxRetryCount
    MaxBuffer,  \* bound: commands in one atomic
    MaxAlerts   \* bound: pending alerts

ASSUME RetryIsNat == MaxRetry \in Nat

VARIABLES
    queued,     \* history, luid -> alerts queued since its download was accepted
    done        \* history: what the server was told has succeeded in the atomic that runs

scomoVars == <<dmVars, queued, done>>

Places == {"Download", "Delivered", "Deployed"}

\* DDFStructureL: the leaves a server may write.
Writable ==
    [Download |-> {"PkgID", "Name", "URI", "PkgType", "Description"},
     Delivered |-> {"PkgID", "Name", "PkgType", "Description", "Data"},
     Deployed |-> {"Name", "Version", "Description"}]

\* A new adapter object, loaded for a session with a server or not.
MemOf(up, server) ==
    [up |-> up, server |-> server, atomic |-> FALSE, buffer |-> << >>, updated |-> FALSE,
     stream |-> << >>, streamed |-> FALSE, streamOpen |-> FALSE, statusRef |-> << >>]
NewMem == MemOf(FALSE, "")

\* The engine passes the LUID of the nearest node that has one.
LuidOf(x, node) == Luid(x.map, node)
DirectSetMapping(x, node, luid) == SetMapping(x, node, luid)

-----------------------------------------------------------------------------
(* Alerts: CSCOMOAdapterDb and SendPendingGenericAlertL. *)

\* The rows with these numbers.
Only(rows, K) ==
    LET only[n \in 0 .. Len(rows)] ==
            CASE n = 0 -> << >>
              [] n \in K -> Append(only[n - 1], rows[n])
              [] OTHER -> only[n - 1]
    IN  only[Len(rows)]
Others(rows, luids) == Only(rows, {k \in DOMAIN rows : rows[k].luid \notin luids})

Rows(x, i) == {k \in DOMAIN x.db.alerts : x.db.alerts[k].luid = i}
SaveToDatabase(x, row) == [x EXCEPT !.db.alerts = Append(@, row)]
\* Mutant of ASyncReport: a download that is started again starts its count again.
ASyncReportAnew(x, i) ==
    [x EXCEPT !.db.alerts = Append([k \in DOMAIN @ |->
                  IF @[k].luid = i THEN [@[k] EXCEPT !.retry = MaxRetry] ELSE @[k]],
                  [luid |-> i, server |-> x.mem.server, retry |-> MaxRetry])]
ASyncReport(x, i) ==
    SaveToDatabase(x, [luid |-> i, server |-> x.mem.server, retry |-> MaxRetry])
DeleteFromDatabase(x, i) == [x EXCEPT !.db.alerts = Others(@, {i})]
GetRetryCountForLuid(x, i) ==
    IF Rows(x, i) = {} THEN 0 ELSE x.db.alerts[Lowest(Rows(x, i))].retry
UpdateRetryCountForLuid(x, i, n) == [x EXCEPT !.db.alerts[Lowest(Rows(x, i))].retry = n]
\* GetFinalResultsForGAL, which hides errors: there is no result.
HasResult(x, i) == i \in x.db.results
GenericAlertSent(x, i) == [x EXCEPT !.db.results = @ \ {i}]

\* One alert of the list that was read; `left' after the first one that is
\* finished or used up, and the rest has to wait for another session.
SendOne(s, i) ==
    LET x == s.x
        retry == GetRetryCountForLuid(x, i)
    IN  CASE s.left -> s
          [] ~s.left /\ ~HasResult(x, i) -> [s EXCEPT !.x = DeleteFromDatabase(x, i), !.left = TRUE]
          [] ~s.left /\ HasResult(x, i) /\ retry = 0 ->
                [s EXCEPT !.x = GenericAlertSent(DeleteFromDatabase(x, i), i), !.left = TRUE]
          [] OTHER ->
                [s EXCEPT !.x = UpdateRetryCountForLuid(x, i, retry - 1), !.sent = Append(@, i)]
AlertsOf(x, server) ==
    Only(x.db.alerts, {k \in DOMAIN x.db.alerts : x.db.alerts[k].server = server})
SendPendingGenericAlert(x) ==
    LET rows == AlertsOf(x, x.mem.server)
        sent[n \in 0 .. Len(rows)] ==
            IF n = 0 THEN [x |-> x, left |-> FALSE, sent |-> << >>]
            ELSE SendOne(sent[n - 1], rows[n].luid)
    IN  sent[Len(rows)]

\* StreamingSupport when it is asked to reset the alerts.
ResetAlerts(x) ==
    LET rows == AlertsOf(x, x.mem.server)
        luids == {rows[k].luid : k \in DOMAIN rows}
    IN  [[x EXCEPT !.db.alerts = Others(@, luids)] EXCEPT !.db.results = @ \ luids]

-----------------------------------------------------------------------------
(* The mappings follow the components. *)

IsStatic(x, user) ==
    /\ x.db.static # ""
    /\ \E i \in 0 .. MaxId : user = x.db.static \o (IF i = 0 THEN "" ELSE ToString(i))

\* CheckStateChangesInternalL: one component whose state has changed.
MoveMapping(x, from, to, luid) == DirectSetMapping(RemoveMapping(x, from), to, luid)
CheckStateChange(x, i) ==
    LET c == x.db.comp[i]
        deployed == <<"Deployed", c.user>>
        delivered == <<"Delivered", c.user>>
        download == <<"Download", IF IsStatic(x, c.user) THEN x.db.static ELSE c.user>>
        luid == LuidOf(x, download)
    IN  CASE c.old = "Delivered" /\ LuidOf(x, delivered) = NoLuid -> StateChangeComplete(x, i)
          [] c.old = "Delivered" /\ c.state \in DeployedStates ->
                StateChangeComplete(MoveMapping(x, delivered, deployed, LuidOf(x, delivered)), i)
          [] c.old = "Delivered" -> RemoveMapping(x, delivered)
          [] c.old = "Download" /\ luid = NoLuid ->
                IF LuidOf(x, delivered) = NoLuid THEN StateChangeComplete(x, i) ELSE x
          [] c.old = "Download" /\ c.state \in DeployedStates ->
                StateChangeComplete(MoveMapping(x, download, deployed, luid), i)
          [] c.old = "Download" /\ c.state = "Delivered" ->
                StateChangeComplete(MoveMapping(x, download, delivered, luid), i)
          [] c.old = "Download" -> RemoveMapping(x, download)
          [] c.old \in DeployedStates -> StateChangeComplete(x, i)
          [] OTHER -> x
CheckEveryStateChange(x) ==
    LET changing == StateChanging(x)
        checked[n \in 0 .. x.db.next - 1] ==
            CASE n = 0 -> x
              [] n \in changing -> CheckStateChange(checked[n - 1], n)
              [] OTHER -> checked[n - 1]
    IN  [checked[x.db.next - 1] EXCEPT !.mem.updated = TRUE]
CheckStateChanges(x) ==
    IF x.mem.updated THEN x ELSE CheckEveryStateChange(ComponentIds(x, "Active").x)

\* CheckAndAddPredefinedNodeL.
CheckAndAddPredefinedNode(x) ==
    IF x.db.static = "" \/ LuidOf(x, <<"Download", x.db.static>>) # NoLuid THEN x
    ELSE DirectSetMapping(NewComponent(x, x.db.static, "Download"), <<"Download", x.db.static>>, x.db.next)

\* DDFStructureL, when a session starts.
DDFStructure(s) == CheckAndAddPredefinedNode(CheckStateChanges(s.x))

-----------------------------------------------------------------------------
(* Which component a command is about; 0: none. *)

FindUserId(c, user) ==
    LET found == {i \in c.ids : c.x.db.comp[i].user = user}
    IN  [x |-> c.x, id |-> IF found = {} THEN 0 ELSE Lowest(found)]
GetLuidForUserId(x, user, state) == FindUserId(ComponentIds(x, state), user)
\* GetLuidL.
GetLuid(x, luid, user, state) ==
    IF luid = NoLuid THEN GetLuidForUserId(x, user, state) ELSE [x |-> x, id |-> luid]
\* ... a deployed one is active or else inactive.
OrInactive(a, luid, user) == IF a.id # 0 THEN a ELSE GetLuid(a.x, luid, user, "Inactive")
GetDeployed(x, luid, user) == OrInactive(GetLuid(x, luid, user, "Active"), luid, user)
StateOf == [Download |-> "Download", Delivered |-> "Delivered"]
\* GetLeafLuidL.
GetLeafLuid(x, node) ==
    IF node[1] = "Deployed" THEN GetDeployed(x, NoLuid, node[2])
    ELSE GetLuidForUserId(x, node[2], StateOf[node[1]])

\* DefaultMapError.
MapError(err) ==
    CASE err = "KErrNone" -> "EOk" [] err = "KErrNotFound" -> "ENotFound"
      [] err = "KErrArgument" -> "EInvalidObject" [] OTHER -> "EError"

\* SetStatusL, and in an atomic the buffer of what may have to be rolled back.
Buffered(x, ref) == IF x.mem.atomic THEN [x EXCEPT !.mem.buffer = Append(@, ref)] ELSE x
\* Mutant of Answer: in an atomic only what succeeds is answered.
AnswerCommitted(x, ref, status) ==
    IF ~x.mem.atomic \/ status = "EOk" THEN SetStatus(x, ref, status) ELSE x

Answer(x, ref, status) ==
    LET y == SetStatus(x, ref, status) IN IF status = "EOk" THEN Buffered(y, ref) ELSE y

-----------------------------------------------------------------------------
(* Commands.  A handler gets the state after CheckStateChangesL, which all begin    *)
(* with.                                                                     *)

\* The private _UpdateLeafObjectL; `left' stands for a leave.
Left == [status |-> "EError", left |-> TRUE]
Returned(status) == [status |-> status, left |-> FALSE]
WriteLeaf(x, leaf, o) ==
    CASE o.luid \notin Ids(x) -> Returned("ENotFound")
      [] leaf = "Data" /\ ~o.known -> Left
      [] leaf = "Data" -> Returned(MapError(UpdateData(x, o.luid)))
      [] OTHER -> Returned(MapError(UpdateAttribute(x, o.luid, leaf)))
TooLarge(leaf, o) == leaf # "Data" /\ o.long
DoUpdate(x, leaf, o) ==
    LET r == IF TooLarge(leaf, o) THEN Returned("ETooLargeObject") ELSE WriteLeaf(x, leaf, o)
    IN  [x |-> x, status |-> r.status, left |-> r.left]

\* UpdateLeafObjectL.
AnswerUpdate(u, leaf, ref) ==
    IF u.left THEN SetStatus(u.x, ref, "EError")
    ELSE Answer(IF leaf = "Data" /\ u.x.mem.streamed THEN [u.x EXCEPT !.mem.streamOpen = FALSE]
                ELSE u.x, ref, u.status)
UpdateLeafObject(x, node, leaf, o, ref) ==
    AnswerUpdate(DoUpdate(CheckStateChanges(x), leaf,
                     [long |-> o.long, known |-> o.known, luid |-> LuidOf(x, node)]), leaf, ref)

\* The file of a stream is there, or not any more.
Streaming(x, is) == [[x EXCEPT !.mem.streamOpen = is] EXCEPT !.mem.streamed = is]

\* UpdateLeafObjectL of a stream: outside an atomic it is answered before a byte
\* of it has come, in an atomic not at all.
StreamLeafObject(x, node, leaf, o, ref) ==
    LET opens == ~x.mem.streamOpen
        i == LuidOf(x, node)
        y == [x EXCEPT !.mem.stream = <<[node |-> node, leaf |-> leaf, o |-> o, luid |-> i]>>]
        z == IF opens /\ leaf = "Data"
             THEN Streaming(y, TRUE) ELSE y
    IN  IF opens /\ leaf = "Data" /\ i \notin Ids(x) THEN SetStatus(x, ref, "EError")
        ELSE IF x.mem.atomic THEN Buffered(z, ref)
        ELSE SetStatus([z EXCEPT !.mem.statusRef = <<ref>>], ref,
                       IF opens /\ leaf # "Data" THEN "EError" ELSE "EOk")

\* StreamCommittedL: the status of a leave is lost, and the answer goes to the
\* last stream outside an atomic.
AnswerStream(u) ==
    LET y == Streaming(u.x, FALSE)
    IN  IF y.mem.statusRef = << >> THEN y
        ELSE SetStatus(y, y.mem.statusRef[1], IF u.left THEN "EOk" ELSE u.status)
StreamCommitted(x) ==
    LET s == x.mem.stream[1]
    IN  AnswerStream(DoUpdate(CheckStateChanges(x), s.leaf,
                              [long |-> FALSE, known |-> s.o.known, luid |-> s.luid]))

DeliverOrDownload(x, node) == SetMapping(NewComponent(x, node[2], node[1]), node, x.db.next)
\* AddNodeObjectL; a node of Download may not have the name
\* of one of Delivered.
AddNodeObject(x, node, ref) ==
    LET taken == \E state \in {"Download", "Delivered"} :
                     GetLuidForUserId(x, node[2], state).id # 0
    IN  IF taken THEN SetStatus(x, ref, "EAlreadyExists")
        ELSE IF node[1] = "Deployed" THEN SetStatus(x, ref, "EError")
        ELSE Answer(DeliverOrDownload(x, node), ref, "EOk")

\* DeleteObjectL.
DeleteFound(g, node, ref, refuses) ==
    LET r == ClientRemove(g.x, g.id, refuses)
    IN  IF g.id = 0 THEN SetStatus(g.x, ref, "ENotFound")
        ELSE IF r.err = "KErrNone" THEN Answer(SetMapping(r.x, node, NoLuid), ref, "EOk")
        ELSE SetStatus(r.x, ref, MapError(r.err))
DeleteObject(x, node, ref, refuses) ==
    IF node[2] = x.db.static THEN SetStatus(x, ref, "ENotAllowed")
    ELSE IF node[1] = "Deployed" THEN SetStatus(x, ref, "EError")
    ELSE DeleteFound(GetLuid(x, LuidOf(x, node), node[2], StateOf[node[1]]), node, ref, refuses)

\* ExecuteCommandL of a node of Download.
Targets == [Download |-> "Deliver", DownloadInstall |-> "InstallAndActivate",
            DownloadInstallInactive |-> "Install"]
DownloadTarget(command) == Targets[command]
\* SyncReportL: no refusal of the user to install is an error.
SyncStatus(end) == IF end \in {"installed", "declined"} THEN "EOk" ELSE "EError"
Unmapped(x, node, target) == IF target = "Deliver" THEN x ELSE RemoveMapping(x, node)
DownloadFound(g, node, target, ref, end) ==
    LET y == StartDownload(g.x, g.id, target)
        async == g.x.db.async
    IN  IF g.id = 0 THEN SetStatus(g.x, ref, "ENotFound")
        ELSE IF g.id \notin Ids(g.x)
             THEN SetStatus(Unmapped(g.x, node, target), ref, "ENotFound")
        ELSE SetStatus(Unmapped(IF async THEN ASyncReport(y, g.id) ELSE DownloadEnded(y, g.id, end),
                                node, target),
                       ref, IF async THEN "EAcceptedForProcessing" ELSE SyncStatus(end))
ExecuteDownload(x, node, command, ref, end) ==
    DownloadFound(GetLuid(x, LuidOf(x, node), node[2], "Download"), node,
                  DownloadTarget(command), ref, end)

\* InstallL, DeactivateIfInactive and SetMappingL.
AnswerInstall(r, i, node, luid, target, ref) ==
    LET y == DirectSetMapping(SetMapping(r.x, node, NoLuid), <<"Deployed", node[2]>>, luid)
        z == StateChangeComplete(y, i)
        d == IF target = "Inactive" THEN Deactivate(z, i) ELSE z
    IN  SetStatus(IF r.err = "KErrNone" THEN RemoveMapping(d, node) ELSE RemoveMapping(r.x, node),
                  ref, MapError(r.err))
Install(g, node, luid, target, ref, end) ==
    IF g.id = 0 THEN SetStatus(g.x, ref, "ENotFound")
    ELSE AnswerInstall(ServerInstall(g.x, g.id, end), g.id, node, luid, target, ref)
ExecuteInstall(x, node, target, ref, end) ==
    Install(GetLuid(x, LuidOf(x, node), node[2], "Delivered"), node, LuidOf(x, node), target, ref, end)

\* ... Remove: it is done when the node had a mapping to remove.
AnswerRemove(r, node, ref) ==
    IF r.err # "KErrNone" THEN SetStatus(r.x, ref, MapError(r.err))
    ELSE Buffered(SetStatus(RemoveMapping(r.x, node), ref,
                            IF node \in DOMAIN r.x.map THEN "EOk" ELSE "EError"), ref)
RemoveFound(g, node, ref, refuses) ==
    IF g.id = 0 THEN SetStatus(g.x, ref, "ENotFound")
    ELSE AnswerRemove(ClientRemove(g.x, g.id, refuses), node, ref)
ExecuteRemove(x, node, ref, refuses) ==
    RemoveFound(IF node[1] = "Delivered" THEN GetLuid(x, LuidOf(x, node), node[2], "Delivered")
                ELSE GetDeployed(x, LuidOf(x, node), node[2]), node, ref, refuses)

\* ... Activate and Deactivate: errors are ignored.
SwitchFound(g, state, ref) ==
    IF g.id = 0 THEN SetStatus(g.x, ref, "ENotFound")
    ELSE SetStatus(IF state = "Active" THEN Activate(g.x, g.id) ELSE Deactivate(g.x, g.id),
                   ref, "EOk")
ExecuteSwitch(x, node, state, ref) ==
    SwitchFound(GetDeployed(x, LuidOf(x, node), node[2]), state, ref)

\* FetchLeafObjectL: a node without LUID takes over the one its component had in
\* Download, or is looked up by its user id.
Adopt(g, node) == IF g.id = 0 THEN g ELSE [g EXCEPT !.x = DirectSetMapping(@, node, g.id)]
TakeOver(x, node) ==
    LET down == <<"Download", node[2]>>
    IN  IF LuidOf(x, node) # NoLuid THEN [x |-> x, id |-> LuidOf(x, node)]
        ELSE IF LuidOf(x, down) # NoLuid
             THEN [x |-> DirectSetMapping(DirectSetMapping(x, node, LuidOf(x, down)), down, NoLuid),
                   id |-> LuidOf(x, down)]
        ELSE Adopt(GetLeafLuid(x, node), node)
\* GetComponentDataL.
GetComponentData(x, i, leaf) ==
    IF i \notin Ids(x) THEN "ENotFound"
    ELSE LET state == x.db.comp[i].state
         IN  IF \/ leaf \in {"PkgID", "Name", "Version", "ID", "PkgIDRef", "PkgType", "Description"}
                \/ leaf \in {"URI", "ConRef"} /\ state = "Download"
                \/ leaf = "Data" /\ state = "Delivered"
                \/ leaf = "State" /\ state # "Download"
             THEN "EOk" ELSE "EError"
FetchFound(g, leaf, ref) ==
    Answer(g.x, ref, IF g.id = 0 THEN "ENotFound" ELSE GetComponentData(g.x, g.id, leaf))
FetchLeafObject(x, node, leaf, ref) == FetchFound(TakeOver(x, node), leaf, ref)
\* GetSizeL and FetchLeafObjectSizeL; an empty value is answered at once.
GetSize(g, leaf, empty, ref) ==
    IF g.id = 0 THEN SetStatus(g.x, ref, "ENotFound")
    ELSE IF g.id \notin Ids(g.x) THEN
         IF leaf = "State" THEN SetStatus(g.x, ref, "EError") ELSE SetStatus(g.x, ref, "EOk")
    ELSE IF empty THEN SetStatus(g.x, ref, "EOk") ELSE Answer(g.x, ref, "EOk")
FetchLeafObjectSize(x, node, leaf, empty, ref) == GetSize(TakeOver(x, node), leaf, empty, ref)

\* IdListL: a component without mapping gets one, of those with one name the first.
ListEach(c, place) ==
    LET x == c.x
        named == {node \in {place} \X {x.db.comp[i].user : i \in c.ids} : LuidOf(x, node) = NoLuid}
    IN  [x EXCEPT !.map = [node \in DOMAIN @ \cup named |->
            IF node \in named THEN Lowest({i \in c.ids : x.db.comp[i].user = node[2]}) ELSE @[node]]]
IdList(x, place, state) == ListEach(ComponentIds(x, state), place)
\* ChildURIListL of a place.
ChildURIList(x, place, ref) ==
    Answer(IF place = "Deployed" THEN IdList(IdList(x, place, "Active"), place, "Inactive")
           ELSE IdList(x, place, StateOf[place]), ref, "EOk")
\* ... and of a node in it, with the LUID or by its name.
ListFound(g, ref) == Answer(g.x, ref, IF g.id = 0 THEN "ENotFound" ELSE "EOk")
ListNode(x, node, ref) ==
    LET luid == LuidOf(x, node)
        g == IF node[1] = "Deployed" THEN GetDeployed(x, luid, node[2])
             ELSE GetLuid(x, luid, node[2], StateOf[node[1]])
    IN  IF node[1] = "Download"
        THEN Answer(x, ref, IF luid # NoLuid /\ luid \in Ids(x) THEN "EOk" ELSE "ENotFound")
        ELSE ListFound(g, ref)

-----------------------------------------------------------------------------
(* The engine's calls. *)

StreamRef == [op |-> "stream"]
\* ... and what a rollback leaves done without telling the server.
Silent == [op |-> "silent"]
Names == UserIds \cup ({db.static} \ {""})
Nodes == Places \X Names
Checked == CheckStateChanges(X)

\* How often an alert was queued, as long as it is pending.
Pending(alerts) == {alerts[k].luid : k \in DOMAIN alerts}
Count(sent) ==
    queued' = [i \in ToSet(sent) \cup Pending(db'.alerts) |->
                  (IF i \in Pending(db.alerts) \cap DOMAIN queued THEN queued[i] ELSE 0)
                  + Cardinality({k \in DOMAIN sent : sent[k] = i})]

\* A command is given and served; a stream is sent to its end before the next one.
Do(ref, x) ==
    /\ mem.up
    /\ mem.stream = << >>
    /\ Len(mem.buffer) < MaxBuffer
    /\ Serve({ref}, x)
    /\ Count(<< >>)
    /\ done' = IF mem.atomic
               THEN done \cup {x.said[k].ref : k \in {j \in DOMAIN x.said : x.said[j].status = "EOk"}}
               ELSE {}

Init ==
    \E async \in BOOLEAN, static \in Statics :
        /\ DmInit(NewMem, [comp |-> << >>, next |-> 1, results |-> {}, alerts |-> << >>,
                           async |-> async, static |-> static], << >>)
        /\ queued = << >>
        /\ done = {}

\* The engine loads the adapter and asks for the description of its tree.  Bound:
\* the predefined node is added as long as there are ids for it.
Begin(s) ==
    /\ Serve({}, IF db.next <= MaxStatic THEN DDFStructure(s) ELSE CheckStateChanges(s.x))
    /\ Count(s.sent)
StartSession ==
    /\ ~mem.up
    /\ \E server \in Servers :
          Begin(SendPendingGenericAlert([X EXCEPT !.mem = MemOf(TRUE, server)]))
    /\ UNCHANGED done
EndSession ==
    /\ mem.up
    /\ EndWith(X, NewMem)
    /\ done' = {}
    /\ UNCHANGED queued

AddNode ==
    \E node \in Nodes :
        /\ node \notin DOMAIN map /\ db.next <= MaxId
        /\ Do(Now, AddNodeObject(Checked, node, Now))
UpdateLeaf ==
    \E node \in Nodes : \E leaf \in Writable[node[1]] \cap DOMAIN Objects : \E o \in Objects[leaf] :
        Do(Now, UpdateLeafObject(X, node, leaf, o, Now))
OpenStream ==
    \E node \in Nodes : \E leaf \in Writable[node[1]] \cap {"Data"} : \E o \in Objects[leaf] :
        Do(StreamRef, StreamLeafObject(X, node, leaf, o, StreamRef))
CommitStream ==
    /\ mem.stream # << >>
    /\ Serve({}, [StreamCommitted(X) EXCEPT !.mem.stream = << >>])
    /\ Count(<< >>)
    /\ UNCHANGED done
\* The engine forgets a node that is deleted.
Forget(x, node) == IF Last(x.said).status = "EOk" THEN RemoveMapping(x, node) ELSE x
Delete ==
    \E node \in Nodes, refuses \in BOOLEAN :
        Do(Now, Forget(DeleteObject(Checked, node, Now, refuses), node))
Ends == InstallEnds \cup {"lost"}
ExecDownload ==
    \E user \in Names, command \in DOMAIN Targets,
       end \in IF db.async THEN {"lost"} ELSE Ends :
        LET node == <<"Download", user>>
        IN  /\ Len(db.alerts) < MaxAlerts
            /\ Do(Now, ExecuteDownload(Checked, node, command, Now, end))
ExecInstall ==
    \E user \in Names, target \in DeployedStates, end \in InstallEnds :
        LET node == <<"Delivered", user>>
        IN  Do(Now, ExecuteInstall(Checked, node, target, Now, end))
ExecRemove ==
    \E place \in {"Delivered", "Deployed"}, user \in Names, refuses \in BOOLEAN :
        LET node == <<place, user>>
        IN  Do(Now, ExecuteRemove(Checked, node, Now, refuses))
ExecSwitch ==
    \E user \in Names, state \in DeployedStates :
        LET node == <<"Deployed", user>>
        IN  Do(Now, ExecuteSwitch(Checked, node, state, Now))
Fetch ==
    \E node \in Nodes, leaf \in {"State"} :
        \/ Do(Now, FetchLeafObject(Checked, node, leaf, Now))
        \/ \E empty \in BOOLEAN : Do(Now, FetchLeafObjectSize(Checked, node, leaf, empty, Now))
List ==
    \/ \E place \in Places : Do(Now, ChildURIList(Checked, place, Now))
    \/ \E node \in Nodes : Do(Now, ListNode(Checked, node, Now))
Reset ==
    /\ mem.up
    /\ Serve({}, ResetAlerts(X))
    /\ Count(<< >>)
    /\ UNCHANGED done

\* StartAtomicL, CommitAtomicL, RollbackAtomicL and CompleteOutstandingCmdsL, which
\* the engine calls before it commits or rolls back.
StartAtomic ==
    /\ mem.up /\ mem.stream = << >> /\ ~mem.atomic
    /\ mem' = [mem EXCEPT !.atomic = TRUE]
    /\ done' = {}
    /\ UNCHANGED <<db, map, open, told, wrong, queued>>
CommitAtomic ==
    /\ mem.stream = << >> /\ mem.atomic
    /\ mem' = [mem EXCEPT !.atomic = FALSE]
    /\ done' = {}
    /\ UNCHANGED <<db, map, open, told, wrong, queued>>
RollbackAtomic ==
    /\ mem.stream = << >> /\ mem.atomic
    /\ done' = IF done \subseteq {mem.buffer[k] : k \in DOMAIN mem.buffer} THEN {} ELSE {Silent}
    /\ UNCHANGED <<mem, db, map, open, told, wrong, queued>>
CompleteOutstandingCmds ==
    /\ mem.up
    /\ mem' = [mem EXCEPT !.buffer = << >>]
    /\ UNCHANGED <<db, map, open, told, wrong, queued, done>>

\* What happens in the server without the adapter: a download ends, and the user
\* uninstalls an application.
DownloadEnds ==
    \E i \in DOMAIN db.comp, end \in Ends :
        /\ db.comp[i].loading
        /\ Elsewhere(DownloadEnded(X, i, end).db, {})
        /\ UNCHANGED <<queued, done>>
UserUninstalls ==
    \E i \in DOMAIN db.comp :
        /\ db.comp[i].state \in DeployedStates /\ db.comp[i].present
        /\ Elsewhere([db EXCEPT !.comp[i].present = FALSE], {})
        /\ UNCHANGED <<queued, done>>

Next ==
    \/ StartSession \/ EndSession
    \/ AddNode \/ UpdateLeaf \/ OpenStream \/ CommitStream \/ Delete
    \/ ExecDownload \/ ExecInstall \/ ExecRemove \/ ExecSwitch
    \/ Fetch \/ List \/ Reset
    \/ StartAtomic \/ CommitAtomic \/ RollbackAtomic \/ CompleteOutstandingCmds
    \/ DownloadEnds \/ UserUninstalls

Spec == Init /\ [][Next]_scomoVars

-----------------------------------------------------------------------------
\* An alert is queued at most KMaxRetryCount times for a download, however often
\* the download was started.
AlertsBounded == \A i \in DOMAIN queued : queued[i] <= MaxRetry

\* Only a stream can be answered twice or never.
StreamsOnly == open \cup wrong \subseteq {StreamRef}

\* What is to be downloaded has the node of its own user id: a download is about the
\* component the server named, whatever was renamed, moved or removed before.
OwnNode ==
    \A node \in DOMAIN map :
        LET i == map[node]
        IN  node[1] = "Download" /\ i \in IdsIn(X, "Download")
                => node[2] = db.comp[i].user

\* A rollback tells the server of every command that stays done.
RollbackReported == Silent \notin done
=============================================================================
