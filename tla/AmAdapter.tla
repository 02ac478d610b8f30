------------------------------ MODULE AmAdapter ------------------------------
(***************************************************************************)
(* CAmAdapter (amadapter2/src/amadapter.cpp): the tree SCM of components,  *)
(* which the SCOMO adapter replaced.  A node is <<place, user id>>.  Other *)
(* than there a download is only started, an installation does not move    *)
(* the mapping, and a package can be installed over one that is deployed.  *)
(*                                                                         *)
(* Abstracted: the values of the leaves, ACLs, install options, the        *)
(* last-error node, certificates.  Calls of other clients of the server do *)
(* not fall into a handler of the adapter.                                 *)
(***************************************************************************)
EXTENDS AMServer

CONSTANTS
    UserIds,    \* names a server gives to nodes
    Objects,    \* leaf -> the objects it is sent
    MaxId,      \* bound: the greatest internal id
    MaxBuffer   \* bound: commands in one atomic

Places == {"Download", "Delivered", "Deployed"}

\* DDFStructureL: the leaves a server may write.
Writable ==
    [Download |-> {"Name", "Version", "URI", "InstallOpts", "ConRef"},
     Delivered |-> {"Name", "Version", "Data", "Descriptor", "InstallOpts"},
     Deployed |-> {"Name", "Version"}]

NewMem ==
    [up |-> FALSE, atomic |-> FALSE, buffer |-> << >>, updated |-> FALSE,
     stream |-> << >>, streamed |-> FALSE, streamOpen |-> FALSE, statusRef |-> << >>]

-----------------------------------------------------------------------------
(* The mappings follow the components, once in a session. *)

\* DirectGetLuidAllocLC, DirectSetMappingL and DirectRemoveMappingL.
DirectGetLuid(x, node) == Luid(x.map, node)
DirectSetMapping(x, node, luid) == SetMapping(x, node, luid)
MoveMapping(x, from, to) ==
    SetMapping(RemoveMapping(x, from), to, DirectGetLuid(x, from))

\* CheckStateChangesInternalL: where the mapping of component i is, and what becomes
\* of it.  Bound: the application the check removes can be uninstalled.
Origin(x, user) ==
    IF DirectGetLuid(x, <<"Delivered", user>>) # NoLuid THEN <<"Delivered", user>>
    ELSE <<"Download", user>>
RemoveReplaced(s, node, i) ==
    IF DirectGetLuid(s.x, node) = NoLuid THEN [s EXCEPT !.left = TRUE]
    ELSE [s EXCEPT !.x = StateChangeComplete(RemoveMapping(
              ServerRemove(@, DirectGetLuid(@, node), FALSE).x, node), i)]
CheckStateChange(s, i) ==
    LET x == s.x
        c == x.db.comp[i]
        deployed == <<"Deployed", c.user>>
        delivered == <<"Delivered", c.user>>
        download == <<"Download", c.user>>
        origin == Origin(x, c.user)
    IN  CASE s.left \/ i \notin Ids(x) -> s
          [] c.old = "Delivered" /\ DirectGetLuid(x, origin) = NoLuid ->
                [s EXCEPT !.x = StateChangeComplete(x, i)]
          [] c.old = "Delivered" /\ c.state \in DeployedStates ->
                [s EXCEPT !.x = StateChangeComplete(MoveMapping(x, origin, deployed), i)]
          [] c.old = "Delivered" -> [s EXCEPT !.x = RemoveMapping(x, origin)]
          [] c.old = "Download" /\ DirectGetLuid(x, origin) = NoLuid ->
                [s EXCEPT !.x = StateChangeComplete(x, i)]
          [] c.old = "Download" /\ DirectGetLuid(x, download) = NoLuid -> s
          [] c.old = "Download" /\ c.state \in DeployedStates ->
                [s EXCEPT !.x = StateChangeComplete(MoveMapping(x, download, deployed), i)]
          [] c.old = "Download" /\ c.state = "Delivered" ->
                [s EXCEPT !.x = StateChangeComplete(MoveMapping(x, download, delivered), i)]
          [] c.old = "Download" -> [s EXCEPT !.x = RemoveMapping(x, download)]
          [] c.old \in DeployedStates /\ c.state = "Delete" -> RemoveReplaced(s, deployed, i)
          [] c.old \in DeployedStates -> [s EXCEPT !.x = StateChangeComplete(x, i)]
          [] OTHER -> s
CheckAll(x) ==
    LET changing == StateChanging(x)
        checked[n \in 0 .. x.db.next - 1] ==
            CASE n = 0 -> [x |-> x, left |-> FALSE]
              [] n \in changing -> CheckStateChange(checked[n - 1], n)
              [] OTHER -> checked[n - 1]
    IN  checked[x.db.next - 1]
\* CheckStateChangesL: it will be tried again if it leaves.
Checked(s) == IF s.left THEN s.x ELSE [s.x EXCEPT !.mem.updated = TRUE]
CheckStateChanges(x) ==
    IF x.mem.updated THEN x ELSE Checked(CheckAll(ComponentIds(x, "Active").x))

-----------------------------------------------------------------------------
(* Which component a command is about; 0: none. *)

FindUserId(c, user) ==
    LET found == {i \in c.ids : c.x.db.comp[i].user = user}
    IN  [x |-> c.x, id |-> IF found = {} THEN 0 ELSE Lowest(found)]
GetLuidForUserId(x, user, state) == FindUserId(ComponentIds(x, state), user)
GetLuid(x, luid, user, state) ==
    IF luid = NoLuid THEN GetLuidForUserId(x, user, state) ELSE [x |-> x, id |-> luid]
OrInactive(a, luid, user) == IF a.id # 0 THEN a ELSE GetLuid(a.x, luid, user, "Inactive")
GetDeployed(x, luid, user) == OrInactive(GetLuid(x, luid, user, "Active"), luid, user)
OrDeployed(a, luid, user) == IF a.id # 0 THEN a ELSE GetDeployed(a.x, luid, user)
StateOf == [Download |-> "Download", Delivered |-> "Delivered"]
GetLeafLuid(x, node) ==
    IF node[1] = "Deployed" THEN GetDeployed(x, NoLuid, node[2])
    ELSE GetLuidForUserId(x, node[2], StateOf[node[1]])

\* DefaultMapError.
MapError(err) ==
    CASE err = "KErrNone" -> "EOk" [] err = "KErrNotFound" -> "ENotFound"
      [] err = "KErrArgument" -> "EInvalidObject" [] OTHER -> "EError"

\* SetStatusL, and in an atomic the buffer of what a rollback tells the server of.
Buffered(x, ref) == IF x.mem.atomic THEN [x EXCEPT !.mem.buffer = Append(@, ref)] ELSE x
\* Mutant of Answer: a command of an atomic is answered when it is committed.
AnswerLater(x, ref, status) ==
    IF x.mem.atomic /\ status = "EOk" THEN Buffered(x, ref) ELSE SetStatus(x, ref, status)
Answer(x, ref, status) ==
    IF status = "EOk" THEN Buffered(SetStatus(x, ref, status), ref) ELSE SetStatus(x, ref, status)

-----------------------------------------------------------------------------
(* Commands.  Every handler but that of a stream starts with CheckStateChangesL. *)

\* The private _UpdateLeafObjectL.
DataLeaves == {"Data", "Descriptor"}
TooLarge(leaf, o) == leaf \in {"Name", "Version", "ConRef"} /\ o.long
WriteLeaf(x, leaf, o, luid) ==
    CASE TooLarge(leaf, o) -> "ETooLargeObject"
      [] luid = NoLuid \/ luid \notin Ids(x) -> "ENotFound"
      [] leaf \in DataLeaves -> MapError(UpdateData(x, luid))
      [] OTHER -> MapError(UpdateAttribute(x, luid, leaf))
\* CloseStreaming, when there is a component to take the data.
Closed(x, leaf, luid) ==
    IF leaf \in DataLeaves /\ x.mem.streamed /\ luid \in Ids(x)
    THEN [x EXCEPT !.mem.streamOpen = FALSE] ELSE x
UpdateChecked(x, node, leaf, o, ref) ==
    Answer(Closed(x, leaf, DirectGetLuid(x, node)), ref,
           WriteLeaf(x, leaf, o, DirectGetLuid(x, node)))
UpdateLeafObject(x, node, leaf, o, ref) == UpdateChecked(CheckStateChanges(x), node, leaf, o, ref)

\* The file of a stream is there, or not any more.
Streaming(x, is) == [[x EXCEPT !.mem.streamOpen = is] EXCEPT !.mem.streamed = is]

\* UpdateLeafObjectL of a stream: it leaves for a node without component; outside an
\* atomic it is answered before a byte of it has come.
StreamLeafObject(x, node, leaf, ref) ==
    LET luid == DirectGetLuid(x, node)
        opens == ~x.mem.streamOpen /\ leaf \in DataLeaves
        y == [x EXCEPT !.mem.stream = <<[leaf |-> leaf, luid |-> luid]>>]
        z == IF opens THEN Streaming(y, TRUE) ELSE y
        status == IF opens \/ x.mem.streamOpen THEN "EOk" ELSE "EError"
    IN  IF opens /\ luid \notin Ids(x) THEN SetStatus(x, ref, "EError")
        ELSE IF x.mem.atomic THEN Buffered(z, ref)
        ELSE SetStatus([z EXCEPT !.mem.statusRef = <<ref>>], ref, status)

\* StreamCommittedL: the answer goes to the last stream outside an atomic.  (When
\* there was none it goes to a reference of no command.)
CommitChecked(x, s) ==
    LET y == [Streaming(x, FALSE) EXCEPT !.mem.stream = << >>]
    IN  IF x.mem.statusRef = << >> THEN y
        ELSE SetStatus(y, x.mem.statusRef[1], WriteLeaf(x, s.leaf, [long |-> FALSE], s.luid))
StreamCommitted(x) == CommitChecked(CheckStateChanges(x), x.mem.stream[1])

\* AddNodeObjectL: DownloadL or DeliverL, unless the component of the node's LUID, or
\* one of that name, is there.
DeliverOrDownload(x, node) == SetMapping(NewComponent(x, node[2], node[1]), node, x.db.next)
AddFound(g, node, ref) ==
    IF g.id \in Ids(g.x) THEN SetStatus(g.x, ref, "EAlreadyExists")
    ELSE Answer(DeliverOrDownload(g.x, node), ref, "EOk")
OrDelivered(a, node) ==
    IF a.id # 0 \/ node[1] # "Download" THEN a ELSE GetLuidForUserId(a.x, node[2], "Delivered")
AddNodeObject(x, node, ref) ==
    AddFound(OrDelivered(GetLuidForUserId(CheckStateChanges(x), node[2], StateOf[node[1]]), node),
             node, ref)

\* DeleteObjectL.
AnswerDelete(r, node, ref) ==
    IF r.err = "KErrNone" THEN Answer(SetMapping(r.x, node, NoLuid), ref, "EOk")
    ELSE SetStatus(r.x, ref, MapError(r.err))
DeleteFound(g, node, ref, refuses) ==
    IF g.id = 0 THEN SetStatus(g.x, ref, "ENotFound")
    ELSE AnswerDelete(ClientRemove(g.x, g.id, refuses), node, ref)
DeleteChecked(x, node, ref, refuses) ==
    DeleteFound(GetLuid(x, DirectGetLuid(x, node), node[2], StateOf[node[1]]), node, ref, refuses)
DeleteObject(x, node, ref, refuses) == DeleteChecked(CheckStateChanges(x), node, ref, refuses)

\* ExecuteCommandL of a node of Download: it is only started.
Targets == {"Deliver", "Install", "InstallAndActivate"}
DownloadFound(g, target, ref) ==
    IF g.id \notin Ids(g.x) THEN SetStatus(g.x, ref, "ENotFound")
    ELSE SetStatus(StartDownload(g.x, g.id, target), ref, "EOk")
DownloadChecked(x, node, target, ref) ==
    DownloadFound(GetLuid(x, DirectGetLuid(x, node), node[2], "Download"), target, ref)
ExecuteDownload(x, node, target, ref) == DownloadChecked(CheckStateChanges(x), node, target, ref)

\* InstallL and DeactivateIfInactive.
DeactivateIfInactive(x, i, target) == IF target = "Inactive" THEN Deactivate(x, i) ELSE x
AnswerInstall(r, i, target, ref) ==
    IF r.err = "KErrNone" THEN SetStatus(DeactivateIfInactive(r.x, i, target), ref, "EOk")
    ELSE SetStatus(r.x, ref, MapError(r.err))
InstallFound(g, target, ref, end) ==
    IF g.id = 0 THEN SetStatus(g.x, ref, "ENotFound")
    ELSE AnswerInstall(ServerInstall(g.x, g.id, end), g.id, target, ref)
InstallChecked(x, node, target, ref, end) ==
    InstallFound(GetLuid(x, DirectGetLuid(x, node), node[2], "Delivered"), target, ref, end)
ExecuteInstall(x, node, target, ref, end) ==
    InstallChecked(CheckStateChanges(x), node, target, ref, end)

\* UpdateL: over the component of the node of Deployed that has the same name.
UpdateFound(g, node, target, ref, end) ==
    LET t == DirectGetLuid(g.x, <<"Deployed", node[2]>>)
    IN  CASE g.id = 0 -> SetStatus(g.x, ref, "ENotFound")
          [] t = NoLuid -> SetStatus(g.x, ref, "EError")
          [] OTHER -> AnswerInstall(ServerUpdate(g.x, g.id, t, end), g.id, target, ref)
UpdateDeployed(x, node, target, ref, end) ==
    UpdateFound(GetLuid(x, DirectGetLuid(x, node), node[2], "Delivered"), node, target, ref, end)
ExecuteUpdate(x, node, target, ref, end) ==
    UpdateDeployed(CheckStateChanges(x), node, target, ref, end)

\* ... Remove, for nodes of Delivered and of Deployed alike.
AnswerRemove(r, node, ref) ==
    IF r.err = "KErrNone" THEN Answer(DirectSetMapping(r.x, node, NoLuid), ref, "EOk")
    ELSE SetStatus(r.x, ref, MapError(r.err))
RemoveFound(g, node, ref, refuses) ==
    IF g.id = 0 THEN SetStatus(g.x, ref, "ENotFound")
    ELSE AnswerRemove(ClientRemove(g.x, g.id, refuses), node, ref)
RemoveChecked(x, node, ref, refuses) ==
    LET luid == DirectGetLuid(x, node)
    IN  RemoveFound(OrDeployed(GetLuid(x, luid, node[2], "Delivered"), luid, node[2]),
                    node, ref, refuses)
ExecuteRemove(x, node, ref, refuses) == RemoveChecked(CheckStateChanges(x), node, ref, refuses)

\* ... Activate and Deactivate.
SwitchFound(g, state, ref) ==
    IF g.id \notin Ids(g.x) THEN SetStatus(g.x, ref, "ENotFound")
    ELSE SetStatus(IF state = "Active" THEN Activate(g.x, g.id) ELSE Deactivate(g.x, g.id),
                   ref, "EOk")
SwitchChecked(x, node, state, ref) ==
    SwitchFound(GetDeployed(x, DirectGetLuid(x, node), node[2]), state, ref)
ExecuteSwitch(x, node, state, ref) == SwitchChecked(CheckStateChanges(x), node, state, ref)

\* FetchLeafObjectL: a node without LUID takes over the one of the node of Download of
\* its name, or is looked up by its user id.
Adopt(g, node) == IF g.id = 0 THEN g ELSE [g EXCEPT !.x = DirectSetMapping(@, node, g.id)]
TakeOver(x, node) ==
    LET down == <<"Download", node[2]>>
    IN  CASE DirectGetLuid(x, node) # NoLuid -> [x |-> x, id |-> DirectGetLuid(x, node)]
          [] DirectGetLuid(x, down) # NoLuid ->
                [x |-> DirectSetMapping(DirectSetMapping(x, node, DirectGetLuid(x, down)),
                                        down, NoLuid),
                 id |-> DirectGetLuid(x, down)]
          [] OTHER -> Adopt(GetLeafLuid(x, node), node)
\* UpdateFlagFromMapping and GetComponentDataL.
GetComponentData(x, i, leaf) ==
    IF i \notin Ids(x) THEN "ENotFound"
    ELSE LET state == x.db.comp[i].state
         IN  IF \/ leaf \in {"ID", "Name", "Version"}
                \/ leaf \in {"URI", "Status", "InstallOpts", "ConRef"} /\ state = "Download"
                \/ leaf \in {"Data", "Descriptor", "InstallOpts"} /\ state = "Delivered"
                \/ leaf = "State" /\ state \notin {"Download", "Delivered"}
             THEN "EOk" ELSE "EError"
FetchFound(g, leaf, ref) ==
    Answer(g.x, ref, IF g.id = 0 THEN "ENotFound" ELSE GetComponentData(g.x, g.id, leaf))
FetchLeafObject(x, node, leaf, ref) == FetchFound(TakeOver(CheckStateChanges(x), node), leaf, ref)
\* GetSizeL and FetchLeafObjectSizeL: only a size that is not zero is buffered.
SizeFound(g, leaf, empty, ref) ==
    CASE g.id = 0 -> SetStatus(g.x, ref, "ENotFound")
      [] g.id \notin Ids(g.x) /\ leaf = "State" -> SetStatus(g.x, ref, "EError")
      [] g.id \notin Ids(g.x) \/ empty -> SetStatus(g.x, ref, "EOk")
      [] OTHER -> Answer(g.x, ref, "EOk")
FetchLeafObjectSize(x, node, leaf, empty, ref) ==
    SizeFound(TakeOver(CheckStateChanges(x), node), leaf, empty, ref)

\* IdListL: a component without mapping gets one, of those with one name the first.
ListEach(c, place) ==
    LET x == c.x
        named == {node \in {place} \X {x.db.comp[i].user : i \in c.ids} : DirectGetLuid(x, node) = NoLuid}
    IN  [x EXCEPT !.map = [node \in DOMAIN @ \cup named |->
            IF node \in named THEN Lowest({i \in c.ids : x.db.comp[i].user = node[2]}) ELSE @[node]]]
IdList(x, place, state) == ListEach(ComponentIds(x, state), place)
\* ChildURIListL of a place ...
PlaceListed(x, place) ==
    IF place = "Deployed" THEN IdList(IdList(x, place, "Active"), place, "Inactive")
    ELSE IdList(x, place, StateOf[place])
ChildURIList(x, place, ref) == Answer(PlaceListed(CheckStateChanges(x), place), ref, "EOk")
\* ... and of a node in it: one of Download needs a LUID.
ListFound(g, ref) == Answer(g.x, ref, IF g.id = 0 THEN "ENotFound" ELSE "EOk")
ListChecked(x, node, luid, ref) ==
    CASE node[1] = "Download" -> Answer(x, ref, IF luid \in Ids(x) THEN "EOk" ELSE "ENotFound")
      [] node[1] = "Delivered" -> ListFound(GetLuid(x, luid, node[2], "Delivered"), ref)
      [] node[1] = "Deployed" -> ListFound(GetDeployed(x, luid, node[2]), ref)
ListNode(x, node, ref) ==
    ListChecked(CheckStateChanges(x), node, DirectGetLuid(CheckStateChanges(x), node), ref)

-----------------------------------------------------------------------------
(* The engine's calls. *)

\* A command of an atomic, a stream, any other.
AtomicRef == [op |-> "atomic"]
StreamRef == [op |-> "stream"]
Ref == IF mem.atomic THEN AtomicRef ELSE Now
Nodes == Places \X UserIds

\* A command is given and served; a stream is sent to its end before the next one.
Do(ref, x) ==
    /\ mem.up
    /\ mem.stream = << >>
    /\ Len(mem.buffer) < MaxBuffer
    /\ Serve({ref}, x)

Init == DmInit(NewMem, [comp |-> << >>, next |-> 1, results |-> {}, async |-> FALSE, static |-> ""],
               << >>)

\* DDFStructureL checks the components when this adapter was the last to be used.
StartSession ==
    /\ ~mem.up
    /\ \E last \in BOOLEAN :
          LET x == [X EXCEPT !.mem = [NewMem EXCEPT !.up = TRUE]]
          IN  Serve({}, IF last THEN CheckStateChanges(x) ELSE x)
EndSession == mem.up /\ EndWith(X, NewMem)

AddNode ==
    \E node \in {"Download", "Delivered"} \X UserIds :
        /\ node \notin DOMAIN map /\ db.next <= MaxId
        /\ Do(Ref, AddNodeObject(X, node, Ref))
UpdateLeaf ==
    \E node \in Nodes : \E leaf \in Writable[node[1]] \cap DOMAIN Objects : \E o \in Objects[leaf] :
        Do(Ref, UpdateLeafObject(X, node, leaf, o, Ref))
OpenStream ==
    \E node \in Nodes : \E leaf \in Writable[node[1]] \cap DataLeaves \cap DOMAIN Objects :
        Do(StreamRef, StreamLeafObject(X, node, leaf, StreamRef))
CommitStream ==
    /\ mem.stream # << >>
    /\ Serve({}, StreamCommitted(X))
\* The engine forgets a node that is deleted.
Forget(x, node) == IF Last(x.said).status = "EOk" THEN RemoveMapping(x, node) ELSE x
Delete ==
    \E node \in {"Download", "Delivered"} \X UserIds, refuses \in BOOLEAN :
        Do(Ref, Forget(DeleteObject(X, node, Ref, refuses), node))
ExecDownload ==
    \E user \in UserIds, target \in Targets :
        Do(Ref, ExecuteDownload(X, <<"Download", user>>, target, Ref))
ExecInstall ==
    \E user \in UserIds, target \in DeployedStates, end \in InstallEnds :
        Do(Ref, ExecuteInstall(X, <<"Delivered", user>>, target, Ref, end))
ExecUpdate ==
    \E user \in UserIds, target \in DeployedStates, end \in {"installed", "failed"} :
        Do(Ref, ExecuteUpdate(X, <<"Delivered", user>>, target, Ref, end))
ExecRemove ==
    \E node \in {"Delivered", "Deployed"} \X UserIds, refuses \in BOOLEAN :
        Do(Ref, ExecuteRemove(X, node, Ref, refuses))
ExecSwitch ==
    \E user \in UserIds, state \in DeployedStates :
        Do(Ref, ExecuteSwitch(X, <<"Deployed", user>>, state, Ref))
Fetch ==
    \E node \in Nodes, leaf \in {"State"} :
        \/ Do(Ref, FetchLeafObject(X, node, leaf, Ref))
        \/ \E empty \in BOOLEAN : Do(Ref, FetchLeafObjectSize(X, node, leaf, empty, Ref))
List ==
    \/ \E place \in Places : Do(Ref, ChildURIList(X, place, Ref))
    \/ \E node \in Nodes : Do(Ref, ListNode(X, node, Ref))

\* StartAtomicL, CommitAtomicL, RollbackAtomicL, which answers once more, and
\* CompleteOutstandingCmdsL, which the engine calls before it commits or rolls back.
Switched(atomic) ==
    /\ mem' = [mem EXCEPT !.atomic = atomic]
    /\ UNCHANGED <<db, map, open, told, wrong>>
StartAtomic == mem.up /\ mem.stream = << >> /\ ~mem.atomic /\ Switched(TRUE)
CommitAtomic == mem.stream = << >> /\ mem.atomic /\ Switched(FALSE)
RollbackAtomic ==
    /\ mem.stream = << >> /\ mem.atomic
    /\ Serve({}, [X EXCEPT !.said = [k \in DOMAIN mem.buffer |->
                                        [ref |-> mem.buffer[k], status |-> "ERollbackFailed"]]])
CompleteOutstandingCmds ==
    /\ mem.up
    /\ mem' = [mem EXCEPT !.buffer = << >>]
    /\ UNCHANGED <<db, map, open, told, wrong>>

\* In the server, without the adapter: a download ends, the user uninstalls.
DownloadEnds ==
    \E i \in DOMAIN db.comp, end \in InstallEnds \cup {"lost"} :
        /\ db.comp[i].loading
        /\ Elsewhere(DownloadEnded(X, i, end).db, {})
UserUninstalls ==
    \E i \in DOMAIN db.comp :
        /\ db.comp[i].state \in DeployedStates /\ db.comp[i].present
        /\ Elsewhere([db EXCEPT !.comp[i].present = FALSE], {})

Next ==
    \/ StartSession \/ EndSession
    \/ AddNode \/ UpdateLeaf \/ OpenStream \/ CommitStream \/ Delete
    \/ ExecDownload \/ ExecInstall \/ ExecUpdate \/ ExecRemove \/ ExecSwitch
    \/ Fetch \/ List
    \/ StartAtomic \/ CommitAtomic \/ RollbackAtomic \/ CompleteOutstandingCmds
    \/ DownloadEnds \/ UserUninstalls

Spec == Init /\ [][Next]_dmVars

-----------------------------------------------------------------------------
\* Only a stream and, by a rollback, a command of an atomic is answered twice, and
\* only a stream can go without an answer.
AnsweredButStreams == open \subseteq {StreamRef} /\ wrong \subseteq {StreamRef, AtomicRef}

\* An update gives up an application only for one that is installed in its place.
UpdateReplaces ==
    [][\A t \in DOMAIN db.comp \cap DOMAIN db'.comp :
          db.comp[t].state # "Delete" /\ db'.comp[t].state = "Delete" =>
              \E i \in DOMAIN db.comp \cap DOMAIN db'.comp :
                  db.comp[i].state = "Delivered" /\ db'.comp[i].state \in DeployedStates]_dmVars

\* The check of the components at the start of a session removes only applications
\* that were replaced.
ChecksKeep ==
    [][~mem.up /\ mem'.up =>
          \A i \in DOMAIN db.comp \ DOMAIN db'.comp :
              db.comp[i].state = "Delete" \/ ~db.comp[i].present]_dmVars
=============================================================================
