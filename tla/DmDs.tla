-------------------------------- MODULE DmDs --------------------------------
(***************************************************************************)
(* The data synchronization adapter (CNSmlDSSettingsAdapter):              *)
(* SyncML/DSAcc/x is a synchronization profile of the SyncML server        *)
(* process (external), SyncML/DSAcc/x/DB/y one of its tasks.  Profiles are *)
(* created at once.  The commands on a new task are buffered and executed  *)
(* in CompleteOutstandingCmdsL, the last one first.                        *)
(*                                                                         *)
(* A node is a record: its account and its task, "" for the account        *)
(* itself.  The LUID of an account is a profile id, that of a task the id  *)
(* of a data provider (the program that synchronizes one type of content). *)
(* An object is a record as in DmAcc11.                                    *)
(***************************************************************************)
EXTENDS DmAdapter, TLC

CONSTANTS
    Names,      \* names a server gives to accounts
    Tasks,      \* names it gives to tasks
    Profiles,   \* profile ids, positive
    Providers,  \* ids of data providers, negative here: no profile id is one
    Mime,       \* provider -> the content type it synchronizes
    Leaves,     \* leaves of accounts the server uses
    TaskLeaves, \* leaves of tasks it uses
    Objects,    \* leaf -> the objects it is sent
    MaxOpen     \* bound: commands that are unanswered at a time

\* DDFStructureL: what the server may do with each leaf.
Access ==
    [leaf \in {"Addr", "AddrType", "PortNbr", "Name", "ClientUserName", "ServerId"} |->
        {"Get", "Add", "Replace", "Delete"}] @@
    [leaf \in {"ClientPW"} |-> {"Add", "Replace", "Delete"}] @@
    [leaf \in {"CTType"} |-> {"Get", "Add"}] @@
    [leaf \in {"RDBURI", "LDBURI", "ToNAPID"} |-> {"Get", "Add", "Replace"}]

\* GetDSField: the item of the profile that a leaf stands for.
GetDSField ==
    [AddrType |-> "MediumType", Addr |-> "URL", PortNbr |-> "Port",
     ClientUserName |-> "UserName", ServerId |-> "ServerId", ClientPW |-> "Password",
     Name |-> "Name", ToNAPID |-> "IAP", CTType |-> "SyncAccepted",
     RDBURI |-> "SyncAccepted", LDBURI |-> "SyncAccepted"]

\* GetDSFieldTypeL: EParam are the leaves of tasks.
GetDSFieldType(leaf) ==
    IF leaf \in {"AddrType", "PortNbr", "ToNAPID", "Hidden"} THEN "EInt"
    ELSE IF leaf \in {"Addr", "ClientUserName", "ServerId", "ClientPW", "Name"} THEN "EStr"
    ELSE IF leaf \in {"DB", "CTType", "CTVer", "RDBURI", "LDBURI"} THEN "EParam"
    ELSE "EWrong"

\* NotValidStrLenght: every item has its limit.
NotValidStrLenght(obj) == obj.long

Nothing == [text |-> "", long |-> FALSE, num |-> -1]

------------------------------------------------------------------------------
(* The profiles and their tasks, in the SyncML server. *)

NewProfile ==
    [URL |-> "", port |-> 0, ServerId |-> "", Name |-> "", UserName |-> "",
     Password |-> "", IAP |-> "", medium |-> "Internet", tasks |-> << >>]

\* FindProfileIdL, OpenSyncSessionAndDSProfileL.
FindProfileId(d, p) == p \in DOMAIN d
OpenSyncSessionAndDSProfile(d, p) == IF p \in DOMAIN d THEN "KErrNone" ELSE "KErrNotFound"

\* FindTaskIDL.
FindTaskID(d, p, q) == p \in DOMAIN d /\ q \in DOMAIN d[p].tasks

\* ParseUri: whether there is a port in an address.
ParseUri(obj) == obj.num > 0

\* SetPortNrToAddrStr: the port of an address into which one was put.
SetPortNrToAddrStr(leafType, url, port) ==
    IF leafType = "EDSDelete" \/ url = "" THEN 0 ELSE port

\* SetProfileServerURIL: on the Internet an address without a port keeps the port
\* that was there, with 80 or 443 as default; other media have no ports.
DefaultPort(obj) == IF obj.text = "https" THEN 443 ELSE 80
SetProfileServerURI(d, p, obj, leafType) ==
    LET kept == IF d[p].port = 0 THEN DefaultPort(obj) ELSE d[p].port
    IN  [d EXCEPT ![p].URL = obj.text,
                  ![p].port = IF d[p].medium # "Internet" THEN 0
                              ELSE IF ParseUri(obj) THEN obj.num
                              ELSE SetPortNrToAddrStr(leafType, obj.text, kept)]

\* SetProfileDisplayNameL, SetProfileUserNameL, SetProfileServerIdL,
\* SetProfilePasswordL, SetToNAPIDL with SetProfileIAPIdL.
SetProfileDisplayName(d, p, obj) == [d EXCEPT ![p].Name = obj.text]
SetProfileUserName(d, p, obj) == [d EXCEPT ![p].UserName = obj.text]
SetProfileServerId(d, p, obj) == [d EXCEPT ![p].ServerId = obj.text]
SetProfilePassword(d, p, obj) == [d EXCEPT ![p].Password = obj.text]
SetToNAPID(d, p, obj) == [d EXCEPT ![p].IAP = obj.text]
SetProfileIAPId(d, p, obj) ==
    IF OpenSyncSessionAndDSProfile(d, p) = "KErrNone" THEN SetToNAPID(d, p, obj) ELSE d

\* GetMediumTypeL: HTTP, WSP and none are the Internet, everything else the first
\* of the other media there are.
GetMediumType(obj) == IF obj.num \in {0, 1, 2} THEN "Internet" ELSE "Bluetooth"
\* SetProfileAddrTypeL: an address that moves away from the Internet loses its port.
SetProfileAddrType(d, p, obj) ==
    LET medium == GetMediumType(obj)
    IN  [d EXCEPT ![p].medium = medium,
                  ![p].port = IF medium = "Internet" THEN @ ELSE 0]

\* SetProfileConnectionPortNrL: without address, or on another medium, nothing.
SetProfileConnectionPortNr(d, p, port, leafType) ==
    IF p \notin DOMAIN d \/ d[p].medium # "Internet" \/ d[p].URL = "" THEN d
    ELSE [d EXCEPT ![p].port = SetPortNrToAddrStr(leafType, d[p].URL, port)]

\* SetProfileStrValueL of a port: whatever waited is dropped, the new one is set
\* now and waits to be set again.
SetPort(x, p, obj, ref) ==
    LET y == [x EXCEPT !.mem.port = << >>]
    IN  CASE obj.num < 0 -> SetStatus(y, ref, "EInvalidObject")
          [] obj.num > 65535 -> SetStatus(y, ref, "ETooLargeObject")
          [] OTHER -> [y EXCEPT !.mem.port = <<[id |-> p, port |-> obj.num, ref |-> ref]>>,
                                !.db = SetProfileConnectionPortNr(@, p, obj.num, x.mem.leafType)]

\* SetProfileStrValueL of the rest.
SetProfileStrValue(d, p, obj, field) ==
    CASE field = "Name" -> SetProfileDisplayName(d, p, obj)
      [] field = "UserName" -> SetProfileUserName(d, p, obj)
      [] field = "ServerId" -> SetProfileServerId(d, p, obj)
      [] field = "Password" -> SetProfilePassword(d, p, obj)
      [] field = "IAP" -> SetProfileIAPId(d, p, obj)

\* MimeTypeAllreadyExitsL: the profile has a task for this content.
MimeTypeAllreadyExits(d, p, mime) ==
    p \in DOMAIN d /\ \E q \in DOMAIN d[p].tasks : Mime[q] = mime

\* AddNewDataProviderL: a task for the provider of the content, with the remote
\* store found last; the local store is the provider's own.
ProviderOf(mime) == {q \in Providers : Mime[q] = mime}
AddNewDataProvider(x, p, mime) ==
    IF OpenSyncSessionAndDSProfile(x.db, p) # "KErrNone" \/ x.mem.rdb = ""
        THEN [err |-> "KErrGeneral", q |-> NoLuid, x |-> x]
    ELSE IF ProviderOf(mime) = {} THEN [err |-> "KErrNotFound", q |-> NoLuid, x |-> x]
    ELSE LET q == CHOOSE r \in ProviderOf(mime) : TRUE
         IN  [err |-> "KErrNone", q |-> q,
              x |-> [x EXCEPT !.db[p].tasks =
                                  With(@, q, [remote |-> x.mem.rdb, local |-> "default"])]]

\* UpdateDataSourceL: the task is deleted and made again with the other store.
UpdateDataSource(d, p, q, obj, leaf) ==
    IF leaf = "RDBURI" THEN [d EXCEPT ![p].tasks[q].remote = obj.text]
                       ELSE [d EXCEPT ![p].tasks[q].local = obj.text]

------------------------------------------------------------------------------
(* Names. *)

Account(acc) == [acc |-> acc, task |-> ""]
Task(acc, task) == [acc |-> acc, task |-> task]

\* The names under which the adapter lists what it has no name for.
PreName(p) == "DSId" \o ToString(p)
PreTask(q) == "CTId" \o ToString(q)
IsDSAccUriFormatMatchPredefined(node) == node.acc \in {PreName(p) : p \in Profiles}

\* The LUID the engine hands over: of the node, or of the node above it.
LuidOf(m, node) ==
    IF node \in DOMAIN m THEN m[node] ELSE Luid(m, Account(node.acc))

\* GetProfileIdFromURIL: the last account asked for is remembered.
GetProfileIdFromURI(x, node) ==
    IF x.mem.prevURI = node.acc THEN x.mem.prevLUID ELSE Luid(x.map, Account(node.acc))
Remember(x, node) ==
    IF Account(node.acc) \notin DOMAIN x.map THEN x
    ELSE [x EXCEPT !.mem.prevLUID = GetProfileIdFromURI(x, node), !.mem.prevURI = node.acc]

\* ConstructTreeL: names for the profiles that have none of this kind, and for
\* their tasks.
Unlisted(x) == {p \in DOMAIN x.db : Account(PreName(p)) \notin DOMAIN x.map}
ConstructTree(x) ==
    LET names == {Account(PreName(p)) : p \in Unlisted(x)}
        tasks == UNION {{Task(PreName(p), PreTask(q)) : q \in DOMAIN x.db[p].tasks} : p \in Unlisted(x)}
        luid(n) == IF n.task = ""
                       THEN CHOOSE p \in Unlisted(x) : PreName(p) = n.acc
                       ELSE CHOOSE q \in Providers : PreTask(q) = n.task
    IN  [x EXCEPT !.map = [n \in (names \cup tasks) \ DOMAIN @ |-> luid(n)] @@ @]

------------------------------------------------------------------------------
(* Commands on leaves of accounts. *)

\* UpdateLeafObjectL, for an account.
UpdateAccount(x, node, leaf, obj, ref) ==
    LET first == LuidOf(x.map, node) = NoLuid /\ IsDSAccUriFormatMatchPredefined(node)
        y == IF first THEN ConstructTree(x) ELSE x
        p == LuidOf(y.map, node)
        z == [y EXCEPT !.mem.parent = p]
        field == GetDSField[leaf]
    IN  IF p # x.mem.parent /\ ~FindProfileId(x.db, p) THEN SetStatus(y, ref, "ENotFound")
        ELSE IF NotValidStrLenght(obj) THEN SetStatus(z, ref, "ETooLargeObject")
        ELSE IF field = "MediumType" /\ x.mem.leafType = "EDSDelete" THEN SetStatus(z, ref, "EOk")
        ELSE IF field = "Port" /\ obj.num \notin 0 .. 65535 THEN SetPort(z, p, obj, ref)
        ELSE IF OpenSyncSessionAndDSProfile(x.db, p) # "KErrNone"
            THEN IF field = "Port" THEN SetPort(z, p, obj, ref)
                 ELSE SetStatus(z, ref, IF field = "URL" THEN "EError" ELSE "ENotFound")
        ELSE CASE field = "URL" ->
                    SetStatus([z EXCEPT !.db = SetProfileServerURI(@, p, obj, x.mem.leafType)],
                              ref, "EOk")
               [] field = "MediumType" ->
                    SetStatus([z EXCEPT !.db = SetProfileAddrType(@, p, obj)], ref, "EOk")
               [] field = "Port" -> SetPort(z, p, obj, ref)
               [] OTHER ->
                    SetStatus([z EXCEPT !.db = SetProfileStrValue(@, p, obj, field)], ref, "EOk")

------------------------------------------------------------------------------
(* Commands on tasks. *)

\* GetBufferIndex, SetBufferLUID.
GetBufferIndex(x, node) == SelectInSeq(x.mem.buffer, LAMBDA e : e.node = node)
SetBufferLUID(x, node, q) ==
    LET i == GetBufferIndex(x, node)
    IN  IF i = 0 THEN x ELSE [x EXCEPT !.mem.buffer[i].luid = q]

\* UpdateLeafObjectL of a content type, which makes the task.
UpdateContentType(x, node, p, luid, obj, ref) ==
    IF MimeTypeAllreadyExits(x.db, p, obj.text) THEN SetStatus(x, ref, "EAlreadyExists")
    ELSE IF obj.text = "" THEN SetStatus(x, ref, "EInvalidObject")
    ELSE IF FindTaskID(x.db, p, luid) THEN SetStatus(x, ref, "EAlreadyExists")
    ELSE LET r == AddNewDataProvider(x, p, obj.text)
         IN  CASE r.err = "KErrNone" ->
                    SetStatus(SetBufferLUID(SetMapping(r.x, node, r.q), node, r.q), ref, "EOk")
               [] r.err = "KErrNotFound" -> SetStatus(x, ref, "ENotFound")
               [] OTHER -> SetStatus(x, ref, "EError")

\* UpdateLeafObjectL of a task's leaf once it is not to be buffered.  A store of a
\* task that is not there is accepted, and forgotten.
UpdateTask(x, node, luid, leaf, obj, ref) ==
    LET p == GetProfileIdFromURI(x, node)
        y == Remember(x, node)
    IN  IF ~FindProfileId(x.db, p) THEN SetStatus(y, ref, "ENotFound")
        ELSE IF leaf = "CTType" THEN UpdateContentType(y, node, p, luid, obj, ref)
        ELSE IF leaf \in {"RDBURI", "LDBURI"} /\ FindTaskID(x.db, p, luid)
            THEN SetStatus(SetMapping([y EXCEPT !.db = UpdateDataSource(@, p, luid, obj, leaf)],
                                      node, luid), ref, "EOk")
        ELSE SetStatus(y, ref, "EOk")

\* AddNodeBufferL, AddLeafBufferL.
AddNodeBuffer(x, node, p, ref) ==
    [x EXCEPT !.mem.buffer = Append(@, [node |-> node, luid |-> p, ref |-> ref, leaves |-> << >>])]
AddLeafBuffer(x, i, leaf, obj, ref) ==
    [x EXCEPT !.mem.buffer[i].leaves = Append(@, [leaf |-> leaf, obj |-> obj, ref |-> ref])]

\* UpdateLeafObjectL.
UpdateLeafObject(x, node, leaf, obj, ref) ==
    LET i == GetBufferIndex(x, node)
        y == IF LuidOf(x.map, node) = NoLuid /\ IsDSAccUriFormatMatchPredefined(node)
                 THEN ConstructTree(x) ELSE x
    IN  IF GetDSFieldType(leaf) # "EParam" THEN UpdateAccount(x, node, leaf, obj, ref)
        ELSE IF i > 0 THEN AddLeafBuffer(y, i, leaf, obj, ref)
        ELSE UpdateTask(y, node, LuidOf(y.map, node), leaf, obj, ref)

\* SetRDBDataStore: the remote store of the node that is executed, if it has one;
\* else that of the node before stays.
SetRDBDataStore(x, e) ==
    LET stores == SelectSeq(e.leaves, LAMBDA c : c.leaf = "RDBURI")
    IN  IF stores = << >> THEN x ELSE [x EXCEPT !.mem.rdb = stores[1].obj.text]

\* AddNodeObjectL of a task that is executed.
AddExecuted(x, e, luid) ==
    IF luid > 0 THEN SetStatus([x EXCEPT !.mem.parent = NoLuid], e.ref, "EOk")
    ELSE SetStatus([x EXCEPT !.mem.parent = 0], e.ref, "EError")

\* The leaves of the first node, which is e, from the last one on.
Replay(x, e) ==
    LET replayed[n \in 0 .. Len(e.leaves)] ==
            IF n = 0 THEN x
            ELSE LET c == e.leaves[Len(e.leaves) - n + 1]
                     y == replayed[n - 1]
                 IN  UpdateTask(y, e.node, y.mem.buffer[1].luid, c.leaf, c.obj, c.ref)
    IN  replayed[Len(e.leaves)]

\* ExecuteBufferL of the first node: its leaves, the last first, then itself.  A
\* provider's id is a large positive number (here: # NoLuid).
ExecuteBuffer(x) ==
    LET e == x.mem.buffer[1]
        y == Replay(SetRDBDataStore(x, e), e)
        luid == IF y.mem.buffer[1].luid = NoLuid THEN 0 ELSE 1
    IN  [AddExecuted(y, e, luid) EXCEPT !.mem.buffer = Tail(@)]

\* CompleteOutstandingCmdsL.
ApplyPort(x) ==
    IF x.mem.port = << >> THEN x
    ELSE LET e == x.mem.port[1]
             y == [x EXCEPT !.mem.port = << >>]
         IN  IF OpenSyncSessionAndDSProfile(x.db, e.id) # "KErrNone"
                 THEN SetStatus(y, e.ref, "EError")
                 ELSE SetStatus([y EXCEPT !.db = SetProfileConnectionPortNr(@, e.id, e.port, "EDSUnset")],
                                e.ref, "EOk")
CompleteOutstandingCmds(x) ==
    LET executed[n \in 0 .. Len(x.mem.buffer)] ==
            IF n = 0 THEN x ELSE ExecuteBuffer(executed[n - 1])
    IN  ApplyPort(executed[Len(x.mem.buffer)])

------------------------------------------------------------------------------
(* Other handlers. *)

\* CreateNewProfileL: the server process gives the profile a free id.
CreateNewProfile(x, p) == [x EXCEPT !.db = With(@, p, NewProfile)]

\* GetDynamicDSNodeUri: the mapping to remove is the account's.
GetDynamicDSNodeUri(node) == Account(node.acc)

\* AddNodeObjectL of an account, of a task, and of the node between them.
AddAccount(x, node, p, ref) ==
    LET luid == Luid(x.map, node)
        y == [x EXCEPT !.mem.parent = luid]
    IN  IF FindProfileId(x.db, luid) THEN SetStatus(y, ref, "EAlreadyExists")
        ELSE SetStatus(SetMapping(CreateNewProfile(RemoveMapping(y, GetDynamicDSNodeUri(node)), p),
                                  node, p), ref, "EOk")
AddTask(x, node, ref) ==
    LET luid == LuidOf(x.map, node)
        y == [x EXCEPT !.mem.parent = luid]
    IN  IF luid # NoLuid THEN AddNodeBuffer(y, node, luid, ref)
        ELSE SetStatus(y, ref, "EOk")
AddDB(x, node, ref) ==
    LET luid == Luid(x.map, node)
        y == [x EXCEPT !.mem.parent = luid]
    IN  SetStatus(y, ref, IF FindProfileId(x.db, luid) THEN "EOk" ELSE "EError")

\* DeleteProfileL, with its tasks, and DeleteTaskByIDL.
DeleteProfile(x, p) == [x EXCEPT !.db = Without(@, {p})]
DeleteTaskByID(x, p, q) == [x EXCEPT !.db[p].tasks = Without(@, {q})]

\* DeleteObjectL of an account, a task and a leaf, which is written empty.
DeleteAccount(x, node, ref) ==
    LET p == Luid(x.map, node)
    IN  IF ~FindProfileId(x.db, p) THEN SetStatus(x, ref, "ENotFound")
        ELSE SetStatus([DeleteProfile(x, p) EXCEPT !.mem.prevURI = "", !.mem.prevLUID = 0],
                       ref, "EOk")
DeleteTask(x, node, ref) ==
    LET p == GetProfileIdFromURI(x, node)
        q == LuidOf(x.map, node)
        y == Remember(x, node)
    IN  IF q = NoLuid THEN SetStatus(x, ref, "ENotFound")
        ELSE IF p = NoLuid THEN SetStatus(y, ref, "EError")
        ELSE IF ~FindTaskID(x.db, p, q) THEN SetStatus(y, ref, "ENotFound")
        ELSE SetStatus(DeleteTaskByID(y, p, q), ref, "EOk")
DeleteLeaf(x, node, leaf, ref) ==
    LET p == LuidOf(x.map, node)
        y == [x EXCEPT !.mem.parent = p]
    IN  IF p = NoLuid THEN SetStatus(x, ref, "ENotFound")
        ELSE IF leaf \in {"CTType", "RDBURI", "LDBURI", "ToNAPID"} THEN SetStatus(x, ref, "EError")
        ELSE IF p # x.mem.parent /\ ~FindProfileId(x.db, p) THEN SetStatus(x, ref, "ENotFound")
        ELSE [UpdateAccount([y EXCEPT !.mem.leafType = "EDSDelete"], node, leaf, Nothing, ref)
                 EXCEPT !.mem.leafType = "EDSUnset"]

\* GetProfileServerURLL, GetProfileUserNameL, GetProfileServerIdL,
\* GetProfileDisplayNameL.
GetProfileServerURL(r) == r.URL
GetProfileUserName(r) == r.UserName
GetProfileServerId(r) == r.ServerId
GetProfileDisplayName(r) == r.Name
\* GetToNAPIDL, GetProfileIAPIdL: no access point is not found.
GetToNAPID(r) == IF r.IAP = "" THEN "KErrNotFound" ELSE "KErrNone"
GetProfileIAPId(r) == r.IAP
\* GetProfileConnectiontypeL.
GetProfileConnectiontype(r) == IF r.medium = "Internet" THEN "1" ELSE "3"

\* GetDSFieldDataL: what a Get of an account's leaf returns; the password is an
\* error.
GetDSFieldData(r, leaf) ==
    LET value(t) == [err |-> "KErrNone", text |-> t]
    IN  CASE leaf = "Addr" -> value(GetProfileServerURL(r))
          [] leaf = "PortNbr" -> value(IF r.URL = "" \/ r.port = 0 THEN "" ELSE ToString(r.port))
          [] leaf = "ClientUserName" -> value(GetProfileUserName(r))
          [] leaf = "ServerId" -> value(GetProfileServerId(r))
          [] leaf = "Name" -> value(GetProfileDisplayName(r))
          [] leaf = "AddrType" -> value(GetProfileConnectiontype(r))
          [] leaf = "ToNAPID" -> [err |-> GetToNAPID(r), text |-> GetProfileIAPId(r)]
          [] OTHER -> [err |-> "KErrGeneral", text |-> ""]

\* GetContentTypeL, GetClientDataSourceL, GetServerDataSourceL.
GetContentType(q) == Mime[q]
GetClientDataSource(d, p, q) == d[p].tasks[q].local
GetServerDataSource(d, p, q) == d[p].tasks[q].remote
GetTaskLeaf(d, p, q, leaf) ==
    CASE leaf = "CTType" -> GetContentType(q)
      [] leaf = "LDBURI" -> GetClientDataSource(d, p, q)
      [] leaf = "RDBURI" -> GetServerDataSource(d, p, q)

\* FetchObjectL, of which FetchLeafObjectL and FetchLeafObjectSizeL answer EOk.
FetchObject(x, node, leaf) ==
    LET luid == LuidOf(x.map, node)
        y == IF luid = NoLuid /\ IsDSAccUriFormatMatchPredefined(node) THEN ConstructTree(x) ELSE x
        p == LuidOf(y.map, node)
    IN  IF GetDSFieldType(leaf) = "EParam"
            THEN [x |-> Remember(y, node),
                  err |-> IF FindTaskID(y.db, GetProfileIdFromURI(y, node), p)
                              THEN "KErrNone" ELSE "KErrNotFound"]
        ELSE IF ~FindProfileId(y.db, p) THEN [x |-> y, err |-> "KErrNotFound"]
        ELSE [x |-> y, err |-> GetDSFieldData(y.db[p], leaf).err]
FetchLeafObject(x, node, leaf, ref) ==
    LET r == FetchObject(x, node, leaf)
    IN  SetStatus(r.x, ref, CASE r.err = "KErrNone" -> "EOk"
                              [] r.err = "KErrNotFound" -> "ENotFound"
                              [] OTHER -> "EError")

\* ChildURIListL of DSAcc (CreateURIProfileSegmentListL), of an account and of its
\* DB (CreateURITaskSegmentListL): what has no name gets one.
ListAccounts(x, ref) ==
    LET named == {x.map[n] : n \in DOMAIN x.map}
        new == {p \in DOMAIN x.db \ named : TRUE}
    IN  IF DOMAIN x.db = {} THEN SetStatus(x, ref, "ENotFound")
        ELSE SetStatus([x EXCEPT !.map =
                           [n \in {Account(PreName(p)) : p \in new} |->
                               CHOOSE p \in new : PreName(p) = n.acc] @@ @], ref, "EOk")
ListAccount(x, node, ref) ==
    LET p == Luid(x.map, node)
        pre == IsDSAccUriFormatMatchPredefined(node)
        y == IF pre /\ ~FindProfileId(x.db, p) THEN ConstructTree(x) ELSE x
    IN  SetStatus(y, ref, IF FindProfileId(x.db, p) \/ (p = NoLuid /\ Luid(y.map, node) # NoLuid)
                              THEN "EOk" ELSE "ENotFound")
ListTasks(x, acc, ref) ==
    LET p == Luid(x.map, Account(acc))
        named == {x.map[n] : n \in {m \in DOMAIN x.map : m.acc = acc /\ m.task # ""}}
        new == DOMAIN x.db[p].tasks \ named
    IN  IF ~FindProfileId(x.db, p) THEN SetStatus(x, ref, "ENotFound")
        ELSE SetStatus([x EXCEPT !.map =
                           [n \in {Task(acc, PreTask(q)) : q \in new} |->
                               CHOOSE q \in new : PreTask(q) = n.task] @@ @], ref, "EOk")

------------------------------------------------------------------------------
(* The engine's calls, and what else changes profiles. *)

NewMem ==
    [buffer |-> << >>, port |-> << >>, rdb |-> "", prevURI |-> "", prevLUID |-> 0,
     parent |-> 0, leafType |-> "EDSUnset"]

\* The server knows what it added by the names it gave, the rest by the adapter's.
AllAccounts ==
    Names \cup {PreName(p) : p \in Profiles \ {Luid(map, Account(n)) : n \in Names}}
AllTasks(acc) == IF acc \in Names THEN Tasks ELSE {PreTask(q) : q \in Providers}
Below(acc) == {n \in DOMAIN map : n.acc = acc}
\* The tasks it uses: of its own, those it was told are there.
TaskNodes ==
    {n \in DOMAIN map :
        /\ n.acc \in AllAccounts
        /\ n.task \in AllTasks(n.acc)
        /\ n.acc \in Names => <<n, "CTType">> \in DOMAIN told}

\* An id the engine still has a name for is not given again.
Free == Profiles \ (DOMAIN db \cup {map[n] : n \in DOMAIN map})

Init == DmInit(NewMem, << >>, << >>)

AddNode ==
    \/ \E name \in Names, p \in Free :
          Serve({NodeRef(Account(name))}, AddAccount(X, Account(name), p, NodeRef(Account(name))))
    \/ \E name \in Names, task \in Tasks :
          LET node == Task(name, task)
          IN  /\ NodeRef(node) \notin open
              /\ node \notin DOMAIN map
              /\ Cardinality(open) < MaxOpen
              /\ Serve({NodeRef(node)}, AddTask(X, node, NodeRef(node)))
    \/ \E name \in Names : Serve({Now}, AddDB(X, Account(name), Now))

Sendable(node, leaf) ==
    /\ \A r \in open : r.op = "leaf" => <<r.name, r.leaf>> # <<node, leaf>>
    /\ Cardinality(open) < MaxOpen

UpdateLeaf ==
    \/ \E acc \in AllAccounts, leaf \in Leaves : \E obj \in Objects[leaf] :
          LET node == Account(acc)
              ref == LeafRef(node, leaf, obj.text)
          IN  /\ Sendable(node, leaf)
              /\ Serve({ref}, UpdateLeafObject(X, node, leaf, obj, ref))
    \/ \E acc \in AllAccounts, leaf \in TaskLeaves : \E task \in AllTasks(acc), obj \in Objects[leaf] :
          LET node == Task(acc, task)
              ref == LeafRef(node, leaf, obj.text)
          IN  /\ Sendable(node, leaf)
              /\ NodeRef(node) \in open \/ node \in TaskNodes
              /\ Serve({ref}, UpdateLeafObject(X, node, leaf, obj, ref))

Delete ==
    \/ \E acc \in AllAccounts :
          LET ref == DeleteRef(Below(acc) \cup {Account(acc)})
          IN  Serve({ref}, DeleteAccount(X, Account(acc), ref))
    \/ \E node \in TaskNodes :
          Serve({DeleteRef({node})}, DeleteTask(X, node, DeleteRef({node})))
    \/ \E acc \in AllAccounts, leaf \in Leaves :
          LET ref == LeafRef(Account(acc), leaf, "")
          IN  /\ Sendable(Account(acc), leaf)
              /\ Serve({ref}, DeleteLeaf(X, Account(acc), leaf, ref))

List ==
    \/ Serve({Now}, ListAccounts(X, Now))
    \/ \E acc \in AllAccounts : Serve({Now}, ListAccount(X, Account(acc), Now))
    \/ \E acc \in AllAccounts : Serve({Now}, ListTasks(X, acc, Now))

Fetch ==
    \/ \E acc \in AllAccounts, leaf \in Leaves :
          Serve({Now}, FetchLeafObject(X, Account(acc), leaf, Now))
    \/ \E node \in TaskNodes, leaf \in TaskLeaves :
          Serve({Now}, FetchLeafObject(X, node, leaf, Now))

Complete == Serve({}, CompleteOutstandingCmds(X))

EndSession == EndWith(CompleteOutstandingCmds(X), NewMem)

\* The user deletes a profile in the settings.
UserDeletes ==
    \E p \in DOMAIN db :
        LET accs == {n.acc : n \in {m \in DOMAIN map : map[m] = p}}
        IN  Elsewhere(Without(db, {p}), {n \in DOMAIN map : n.acc \in accs})

Next == AddNode \/ UpdateLeaf \/ Delete \/ List \/ Fetch \/ Complete \/ EndSession \/ UserDeletes

Spec == Init /\ [][Next]_dmVars

------------------------------------------------------------------------------
(* The part of the common properties that is this adapter's. *)

\* The references it still has: of buffered nodes and leaves, and of one port.
\* A port that follows another one makes it drop the reference of the first.
Held ==
    (UNION {{mem.buffer[i].ref} \cup
            {mem.buffer[i].leaves[j].ref : j \in DOMAIN mem.buffer[i].leaves} :
               i \in DOMAIN mem.buffer})
        \cup {mem.port[i].ref : i \in DOMAIN mem.port}
Dropped == {r \in open : r.op = "leaf" /\ r.leaf = "PortNbr"}

\* Whether a Get of a leaf of the node returns what the server was told.  Of a
\* task: if its content type was accepted, and the store is the remote one.
Kept(node, leaf) ==
    LET p == Luid(map, Account(node.acc))
        q == Luid(map, node)
    IN  CASE leaf \in {"Addr", "ServerId", "Name", "ClientUserName"} ->
                p \in DOMAIN db /\ GetDSFieldData(db[p], leaf).text = told[<<node, leaf>>]
          [] leaf \in {"CTType", "RDBURI"} /\ <<node, "CTType">> \in DOMAIN told ->
                FindTaskID(db, p, q) /\ GetTaskLeaf(db, p, q, leaf) = told[<<node, leaf>>]
          [] OTHER -> TRUE
==============================================================================
