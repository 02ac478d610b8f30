------------------------------- MODULE DmAcc12 -------------------------------
(***************************************************************************)
(* The DM account adapter for DM 1.2 (CNSmlDMSettingsAdapter12): DMAcc/x   *)
(* is a profile of the SyncML server process (external).  The leaves of a  *)
(* new node are buffered until its four mandatory ones are there; then the *)
(* profile is created and the leaves are written.  Ports and, once a node  *)
(* was added, locks wait in buffers for CompleteOutstandingCmdsL.          *)
(*                                                                         *)
(* A leaf is a pair of the credential node it lies under ("" for the rest) *)
(* and its last segment.  An object is a record: its text, whether it is   *)
(* longer than the field takes, and, where the text is an address or a     *)
(* number, the port or the number in it.                                   *)
(***************************************************************************)
EXTENDS DmAdapter, TLC

CONSTANTS
    Names,     \* names a server gives to the nodes it adds
    Profiles,  \* LUIDs: profile ids less KMaxDataSyncID, from 0
    Leaves,    \* the leaves the server uses
    Objects,   \* leaf -> the objects it is sent
    Deleted,   \* bound: the leaves it deletes
    Rank,      \* bound: the order in which a node's leaves come (equal: any)
    MaxOpen,   \* bound: commands that are unanswered at a time
    MaxLater   \* bound: locks and ports that wait in a session

Srv == "AppAuthSrv"
Cli == "AppAuthCli"
Trans == "AppAuthTransport"

\* DDFStructureL: what the server may do with each leaf.
AccountAccess ==
    [s \in {"AppID"} |-> {"Get"}] @@
    [s \in {"PrefConRef", "AAuthPref", "Name"} |-> {"Add", "Replace", "Get"}] @@
    [s \in {"ServerID"} |-> {"Add", "Get"}] @@
    [s \in {"ProfileLock"} |-> {"Add", "Replace", "Get"}]
AddressAccess ==
    [s \in {"Addr", "PortNbr"} |-> {"Add", "Replace", "Get"}] @@
    [s \in {"AddrType"} |-> {"Get"}]
CredentialAccess ==
    [s \in {"AAuthLevel", "AAuthName"} |-> {"Add", "Replace", "Get"}] @@
    [s \in {"AAuthType"} |-> {"Get"}] @@
    [s \in {"AAuthSecret", "AAuthData"} |-> {"Add", "Replace"}]
Access(leaf) ==
    IF leaf[1] # "" THEN CredentialAccess[leaf[2]]
    ELSE (AccountAccess @@ AddressAccess)[leaf[2]]

\* AcceptDMField: the segments the adapter knows.
AcceptDMField(seg) ==
    seg \in {"AddrType", "Addr", "PortNbr", "AAuthPref", "ServerID", "ServerPW",
             "ServerNonce", "UserName", "ClientPW", "ClientNonce", "Name", "Id",
             "AppID", "PrefConRef", "AAuthLevel", "AAuthType", "AAuthName",
             "AAuthSecret", "AAuthData", "ProfileLock"}

\* GetDMField: the item of the profile a leaf stands for.  An AppID is taken for
\* the access point, a credential under an unknown node for nothing.
PlainField ==
    [AddrType |-> "AddrType", Addr |-> "URL", PortNbr |-> "Port", AAuthPref |-> "AuthPref",
     ServerID |-> "ServerId", ServerPW |-> "SharedSecret", ServerNonce |-> "ServerNonce",
     UserName |-> "UserName", ClientPW |-> "Password", ClientNonce |-> "ClientNonce",
     Name |-> "Name", Id |-> "Id", PrefConRef |-> "IAP", AppID |-> "IAP",
     ProfileLock |-> "Lock"]
CredentialField ==
    [AppAuthSrv |->
        [AAuthLevel |-> "ServerCred", AAuthName |-> "Name",
         AAuthSecret |-> "SharedSecret", AAuthData |-> "ServerNonce"],
     AppAuthCli |->
        [AAuthLevel |-> "ClientCred", AAuthName |-> "UserName",
         AAuthSecret |-> "Password", AAuthData |-> "ClientNonce"],
     AppAuthTransport |->
        [AAuthLevel |-> "Transport", AAuthName |-> "TransportName",
         AAuthSecret |-> "TransportPassword", AAuthData |-> "TransportData"]]
GetDMField(leaf) ==
    IF leaf[2] = "AAuthType" THEN "AAuthType"
    ELSE IF leaf[1] \in DOMAIN CredentialField /\ leaf[2] \in DOMAIN CredentialField[leaf[1]]
        THEN CredentialField[leaf[1]][leaf[2]]
    ELSE IF leaf[2] \in DOMAIN PlainField THEN PlainField[leaf[2]] ELSE "None"

\* GetDMFieldType: every accepted segment has a type.
GetDMFieldType(seg) == IF AcceptDMField(seg) THEN "typed" ELSE "EWrong"

\* NotValidStrLenght: items without a limit, items with one, and the rest, which
\* is always too long.
NotValidStrLenght(field, obj) ==
    IF field \in {"ServerNonce", "ClientNonce", "TransportData", "Transport"} THEN FALSE
    ELSE IF field \in {"Name", "UserName", "TransportName", "TransportPassword",
                       "Password", "SharedSecret", "URL", "ServerId", "IAP",
                       "AuthPref", "AAuthType", "Id", "Port", "AddrType", "Lock"}
        THEN obj.long
        ELSE TRUE

\* The object of a deletion: no text, and no number in it.
Nothing == [text |-> "", long |-> FALSE, num |-> -1]

------------------------------------------------------------------------------
(* The profiles, in the SyncML server. *)

NewProfile ==
    [URL |-> "", port |-> 0, ServerId |-> "", Name |-> "", UserName |-> "",
     Password |-> "", SharedSecret |-> "", IAP |-> "", locked |-> FALSE,
     medium |-> "Internet", HttpName |-> "", HttpPassword |-> "",
     AuthPref |-> "", ServerNonce |-> "", ClientNonce |-> ""]

\* FindProfileIdL, and the first part of OpenSyncSessionAndProfileL.
FindProfileId(d, p) == p \in DOMAIN d

\* IsServerIDExistL looks at the first Count() ids, not at the ids there are.
IsServerIDExist(d, text) ==
    \E p \in DOMAIN d : p < Cardinality(DOMAIN d) /\ d[p].ServerId = text

\* SetPortNrToAddrStr: the port of an address after a port was put into it; there
\* is none in an empty address, and none after a deletion.
WithPort(leafType, url, port) ==
    IF leafType = "EDMDelete" \/ url = "" THEN 0 ELSE port

\* ParseUri: whether a text is an address with a port.
HasPort(obj) == obj.num > 0

\* SetProfileServerURIL: an address without a port keeps the one that was there,
\* or gets 80.
SetProfileServerURI(d, p, obj, leafType) ==
    LET port == IF HasPort(obj) THEN obj.num
                ELSE WithPort(leafType, obj.text, IF d[p].port # 0 THEN d[p].port ELSE 80)
    IN  [d EXCEPT ![p].URL = obj.text, ![p].port = port]

\* SetProfileDisplayNameL, SetProfileUserNameL, SetProfileServerIdL,
\* SetProfileServerPasswordL, SetProfilePasswordL: one item each.
SetProfileDisplayName(d, p, obj) == [d EXCEPT ![p].Name = obj.text]
SetProfileUserName(d, p, obj) == [d EXCEPT ![p].UserName = obj.text]
SetProfileServerId(d, p, obj) == [d EXCEPT ![p].ServerId = obj.text]
SetProfileServerPassword(d, p, obj) == [d EXCEPT ![p].SharedSecret = obj.text]
SetProfilePassword(d, p, obj) == [d EXCEPT ![p].Password = obj.text]

\* SetProfileLockL.
SetProfileLock(d, p, lock) ==
    IF FindProfileId(d, p) THEN [d EXCEPT ![p].locked = (lock = 1)] ELSE d

\* IsProfileLockedL: an error code, KErrNone when it may be changed.
IsProfileLocked(d, p) ==
    IF ~FindProfileId(d, p) THEN "KErrNotFound"
    ELSE IF d[p].locked THEN "KErrAccessDenied" ELSE "KErrNone"

\* SetProfileConnectionPortNrL: without an address there is nothing to put the
\* port into, and no error.
SetProfileConnectionPortNr(d, e, leafType) ==
    IF ~FindProfileId(d, e.id) THEN [err |-> "KErrNotFound", db |-> d]
    ELSE [err |-> "KErrNone",
          db |-> [d EXCEPT ![e.id].port = WithPort(leafType, d[e.id].URL, e.port)]]

\* SetConRefL, SetProfileConnectionPropertyL: an unknown access point is an error,
\* an empty one removes the setting.
SetConRef(d, p, obj) ==
    IF obj.text # "" /\ obj.num = -1 THEN [err |-> "KErrGeneral", db |-> d]
    ELSE [err |-> "KErrNone", db |-> [d EXCEPT ![p].IAP = obj.text]]

\* SetProfileHttpUserNameL, SetProfileHttpPasswordL.
SetProfileHttpUserName(d, p, obj) == [d EXCEPT ![p].HttpName = obj.text]
SetProfileHttpPassword(d, p, obj) == [d EXCEPT ![p].HttpPassword = obj.text]

\* SetProfileAddrTypeL, GetMediumTypeL: without the OBEX feature the medium cannot
\* be changed.
SetProfileAddrType(d, p, obj) ==
    IF obj.text = "HTTP" /\ d[p].medium = "Internet" THEN "KErrNone" ELSE "EInvalidObject"

\* SetAuthInfoL: the lock of the profile is not asked.
SetAuthInfo(d, p, field, obj) ==
    CASE field = "AuthPref"    -> [d EXCEPT ![p].AuthPref = obj.text]
      [] field = "ServerNonce" -> [d EXCEPT ![p].ServerNonce = obj.text]
      [] field = "ClientNonce" -> [d EXCEPT ![p].ClientNonce = obj.text]

------------------------------------------------------------------------------
(* Commands on leaves. *)

AuthFields == {"AuthPref", "ServerNonce", "ClientNonce"}

\* SetDMFieldDataL: the state after it and an error code.
SetLock(x, p, obj) ==
    IF x.mem.newProfile
        THEN [err |-> "KErrNone",
              x |-> [x EXCEPT !.mem.locks =
                        Append(@, [id |-> p, lock |-> IF obj.num = 1 THEN 1 ELSE 0])]]
    ELSE IF obj.num \notin {0, 1} THEN [err |-> "KErrArgument", x |-> x]
    ELSE [err |-> IF FindProfileId(x.db, p) THEN "KErrNone" ELSE "KErrNotFound",
          x |-> [x EXCEPT !.db = SetProfileLock(@, p, obj.num)]]

ValidPort(obj) == obj.num \in 1 .. 65534
PortError(obj) == IF obj.num <= 0 THEN "KErrUnderflow" ELSE "KErrOverflow"
SetPort(x, p, obj) ==
    IF ValidPort(obj)
        THEN [err |-> "KErrNone",
              x |-> [x EXCEPT !.mem.ports = Append(@, [id |-> p, port |-> obj.num])]]
        ELSE [err |-> PortError(obj), x |-> x]

SetItem(x, p, obj, field) ==
    LET put(d) == [err |-> "KErrNone", x |-> [x EXCEPT !.db = d]]
        only(e) == [err |-> e, x |-> x]
    IN  CASE field = "URL" -> put(SetProfileServerURI(x.db, p, obj, x.mem.leafType))
          [] field = "ServerId" -> put(SetProfileServerId(x.db, p, obj))
          [] field = "SharedSecret" -> put(SetProfileServerPassword(x.db, p, obj))
          [] field = "UserName" -> put(SetProfileUserName(x.db, p, obj))
          [] field = "Password" -> put(SetProfilePassword(x.db, p, obj))
          [] field = "Name" -> put(SetProfileDisplayName(x.db, p, obj))
          [] field = "IAP" -> LET r == SetConRef(x.db, p, obj)
                              IN  [err |-> r.err, x |-> [x EXCEPT !.db = r.db]]
          [] field = "TransportName" -> put(SetProfileHttpUserName(x.db, p, obj))
          [] field = "TransportPassword" -> put(SetProfileHttpPassword(x.db, p, obj))
          [] field = "Transport" -> only(SetProfileAddrType(x.db, p, obj))
          [] field \in {"TransportData", "AddrType", "Id"} -> only("KErrNone")
          [] OTHER -> only("KErrNotSupported")

\* Mutant of SetDMFieldData: the lock is asked for ports only.
SetDMFieldDataLocked(x, p, obj, field) ==
    IF field = "Lock" THEN SetLock(x, p, obj)
    ELSE IF field = "Port" /\ IsProfileLocked(x.db, p) # "KErrNone"
        THEN [err |-> IsProfileLocked(x.db, p), x |-> x]
    ELSE IF field = "Port" THEN SetPort(x, p, obj)
    ELSE SetItem(x, p, obj, field)

SetDMFieldData(x, p, obj, field) ==
    IF field = "Lock" THEN SetLock(x, p, obj)
    ELSE IF IsProfileLocked(x.db, p) # "KErrNone"
        THEN [err |-> IsProfileLocked(x.db, p), x |-> x]
    ELSE IF field = "Port" THEN SetPort(x, p, obj)
    ELSE SetItem(x, p, obj, field)

\* Mutant of UpdateStatus: a profile that is locked is no error.
UpdateStatusOfLocked(err) ==
    CASE err \in {"KErrNone", "KErrAccessDenied"} -> "EOk"
      [] err = "KErrNotFound" -> "ENotFound"
      [] err = "KErrArgument" -> "EInvalidObject"
      [] OTHER -> "EError"

\* The answers of UpdateLeafObjectL to an error code.
UpdateStatus(err) ==
    CASE err = "KErrNone" -> "EOk"
      [] err = "KErrNotFound" -> "ENotFound"
      [] err = "KErrAccessDenied" -> "ENotAllowed"
      [] err = "KErrArgument" -> "EInvalidObject"
      [] OTHER -> "EError"

\* ConstructTreeL: profiles that the engine has no name for get the names the
\* adapter would list them under, unless the first of these names is in use.
PreName(p) == <<"DMId", p>>
Predefined(name) == name \in {PreName(p) : p \in Profiles}
ConstructTree(x) ==
    IF PreName(0) \in DOMAIN x.map THEN x
    ELSE [x EXCEPT !.map = [n \in {PreName(p) : p \in DOMAIN x.db} |-> n[2]] @@ @]
TreeLuid(x, name) ==
    IF PreName(0) \in DOMAIN x.map \/ name \in DOMAIN x.map \/ name[2] \notin DOMAIN x.db
        THEN NoLuid ELSE name[2]

\* UpdateLeafObjectL from the point where it knows the profile.
UpdateKnown(x, p, leaf, obj, ref) ==
    LET field == GetDMField(leaf)
        y == [x EXCEPT !.mem.parent = p]
    IN  IF p # x.mem.parent /\ ~FindProfileId(x.db, p)
            THEN SetStatus(x, ref, "ENotFound")
        ELSE IF ~AcceptDMField(leaf[2]) THEN SetStatus(y, ref, "EInvalidObject")
        ELSE IF GetDMFieldType(leaf[2]) = "EWrong" \/ field = "None"
            THEN SetStatus(y, ref, "EError")
        ELSE IF NotValidStrLenght(field, obj) THEN SetStatus(y, ref, "ETooLargeObject")
        ELSE IF field \in AuthFields
            THEN IF FindProfileId(y.db, p)
                     THEN SetStatus([y EXCEPT !.db = SetAuthInfo(@, p, field, obj)], ref, "EOk")
                     ELSE SetStatus(y, ref, "ENotFound")
        ELSE LET r == SetDMFieldData(y, p, obj, field)
             IN  CASE field = "Port" /\ r.err = "KErrNone" ->
                        [r.x EXCEPT !.mem.ports[Len(r.x.mem.ports)] =
                                        [id |-> @.id, port |-> @.port, ref |-> ref]]
                   [] field = "Port" /\ r.err = "KErrOverflow" ->
                        SetStatus(r.x, ref, "ETooLargeObject")
                   [] field = "Port" /\ r.err \notin {"KErrNone", "KErrOverflow"} ->
                        SetStatus(r.x, ref, "EError")
                   [] field = "Lock" /\ x.mem.newProfile -> r.x
                   [] OTHER -> SetStatus(r.x, ref, UpdateStatus(r.err))

\* UpdateLeafObjectL of a node that is not buffered (also of one whose leaves are
\* being replayed).
UpdateStored(x, name, luid, leaf, obj, ref) ==
    LET y == IF luid = NoLuid /\ Predefined(name) THEN ConstructTree(x) ELSE x
        p == IF luid = NoLuid /\ Predefined(name) THEN TreeLuid(x, name) ELSE luid
    IN  IF p = NoLuid THEN SetStatus(y, ref, "ENotFound")
        ELSE UpdateKnown(y, p, leaf, obj, ref)

------------------------------------------------------------------------------
(* The buffer of new nodes. *)

Mandatory == {"addr", "serverId", "uName", "serverName"}

BufferIndex(x, name) == SelectInSeq(x.mem.buffer, LAMBDA e : e.name = name)

\* CreateNewProfileL: the server process gives the profile a free id.
CreateNewProfile(x, p) == [x EXCEPT !.db = With(@, p, NewProfile)]

\* ExecuteBufferL of entry i.  After CompleteOutstandingCmdsL has once found an
\* incomplete node, iComplete stays and no node is created any more.
Replay(x, luid, e) ==
    LET replayed[n \in 0 .. Len(e.leaves)] ==
            IF n = 0 THEN x
            ELSE UpdateStored(replayed[n - 1], e.name, luid, e.leaves[n].leaf,
                              e.leaves[n].obj, e.leaves[n].ref)
    IN  replayed[Len(e.leaves)]
ExecuteBuffer(x, i, p) ==
    LET e == x.mem.buffer[i]
        y == IF x.mem.complete
                 THEN SetStatus(x, NodeRef(e.name), "EError")
                 ELSE SetStatus(SetMapping(CreateNewProfile(x, p), e.name, p),
                                NodeRef(e.name), "EOk")
        z == Replay(y, IF x.mem.complete THEN NoLuid ELSE p, e)
    IN  [z EXCEPT !.mem.buffer = RemoveAt(@, i)]

\* AddLeafBufferL: the mandatory leaf it brings, if any.  A server id that is
\* taken does not count.
Brings(x, leaf, obj) ==
    CASE leaf[2] = "Addr" -> {"addr"}
      [] leaf[2] = "ServerID" -> IF IsServerIDExist(x.db, obj.text) THEN {} ELSE {"serverId"}
      [] leaf[2] = "AAuthName" -> IF leaf[1] = Cli THEN {"uName"} ELSE {}
      [] leaf[2] = "Name" -> {"serverName"}
      [] OTHER -> {}
AddLeafBuffer(x, i, leaf, obj, ref, p) ==
    LET e == x.mem.buffer[i]
        c == [leaf |-> leaf, obj |-> obj, ref |-> ref]
        f == [e EXCEPT !.leaves = Append(e.leaves, c), !.has = e.has \cup Brings(x, leaf, obj)]
        y == [x EXCEPT !.mem.buffer[i] = f]
    IN  IF y.mem.buffer[i].has = Mandatory THEN ExecuteBuffer(y, i, p) ELSE y

\* UpdateLeafObjectL.
UpdateLeafObject(x, name, leaf, obj, ref, p) ==
    LET i == BufferIndex(x, name)
    IN  IF i > 0 THEN AddLeafBuffer(x, i, leaf, obj, ref, p)
        ELSE UpdateStored(x, name, Luid(x.map, name), leaf, obj, ref)

------------------------------------------------------------------------------
(* Other handlers. *)

\* AddNodeBufferL.
AddNodeBuffer(x, name, ref) ==
    IF BufferIndex(x, name) > 0 THEN SetStatus(x, ref, "EAlreadyExists")
    ELSE [x EXCEPT !.mem.buffer = Append(@, [name |-> name, leaves |-> << >>, has |-> {}])]

\* AddNodeObjectL: a mapping to a profile that is gone is removed, one to a profile
\* that exists means the node is there.
AddNodeObject(x, name, ref) ==
    LET p == Luid(x.map, name)
        y == IF p = NoLuid THEN x ELSE [x EXCEPT !.mem.parent = p]
    IN  IF p # NoLuid /\ FindProfileId(x.db, p) THEN SetStatus(y, ref, "EAlreadyExists")
        ELSE AddNodeBuffer([RemoveMapping(y, name) EXCEPT !.mem.newProfile = TRUE], name, ref)

\* DeleteProfileL.
DeleteProfile(x, p) == [x EXCEPT !.db = Without(@, {p})]

\* DeleteObjectL of a node: a profile that does not exist counts as locked.
DeleteNode(x, p, ref) ==
    IF IsProfileLocked(x.db, p) # "KErrNone" THEN SetStatus(x, ref, "ENotAllowed")
    ELSE SetStatus(DeleteProfile(x, p), ref, "EOk")

\* DeleteObjectL of a leaf: the authentication items are those of another id
\* (DeleteDMAuthInfoL gets the LUID where it takes a profile id); the rest is
\* written empty.
DeleteLeaf(x, name, p, leaf, ref) ==
    IF IsProfileLocked(x.db, p) # "KErrNone" THEN SetStatus(x, ref, "ENotAllowed")
    ELSE LET y == [x EXCEPT !.mem.parent = p]
         IN  IF leaf[2] \in {"AAuthPref", "ClientNonce", "ServerNonce"}
                 THEN SetStatus(y, ref, "EOk")
                 ELSE [UpdateStored([y EXCEPT !.mem.leafType = "EDMDelete"],
                                    name, p, leaf, Nothing, ref)
                          EXCEPT !.mem.leafType = "EDMUnset"]

\* CompleteOutstandingCmdsL walks the buffer by index while ExecuteBufferL deletes
\* from it: it skips the entry after each one it executes.
ExecuteEvery(x) ==
    LET last == (Len(x.mem.buffer) + 1) \div 2
        executed[n \in 0 .. last] ==
            IF n = 0 THEN x
            ELSE ExecuteBuffer([executed[n - 1] EXCEPT !.mem.complete = TRUE], n, NoLuid)
    IN  executed[last]
LockedAs(d, locks) ==
    LET locked[n \in 0 .. Len(locks)] ==
            IF n = 0 THEN d ELSE SetProfileLock(locked[n - 1], locks[n].id, locks[n].lock)
    IN  locked[Len(locks)]
ApplyLocks(x) == [x EXCEPT !.db = LockedAs(@, x.mem.locks)]
\* Mutant of ApplyPort: a port that cannot be set is not answered.
ApplyPortThatCan(x, e) ==
    LET r == SetProfileConnectionPortNr(x.db, e, "EDMUnset")
    IN  IF r.err = "KErrNone" THEN SetStatus([x EXCEPT !.db = r.db], e.ref, "EOk") ELSE x
ApplyPort(x, e) ==
    LET r == SetProfileConnectionPortNr(x.db, e, "EDMUnset")
    IN  SetStatus([x EXCEPT !.db = r.db], e.ref, IF r.err = "KErrNone" THEN "EOk" ELSE "EError")
ApplyEveryPort(x) ==
    LET applied[n \in 0 .. Len(x.mem.ports)] ==
            IF n = 0 THEN x ELSE ApplyPort(applied[n - 1], x.mem.ports[n])
    IN  applied[Len(x.mem.ports)]
\* Mutant of ApplyPorts: the list stays.
ApplyPortsAgain(x) == ApplyEveryPort(x)
ApplyPorts(x) == [ApplyEveryPort(x) EXCEPT !.mem.ports = << >>]
CompleteOutstandingCmds(x) == ApplyPorts(ApplyLocks(ExecuteEvery(x)))

\* GetProfileServerURLL, GetProfilePortNumberL.
GetProfileServerURL(r) == r.URL
GetProfilePortNumber(r) == IF r.URL = "" THEN "0" ELSE ToString(r.port)

\* GetServerIdL, GetProfileNameL, GetProfileUserNameL.
GetProfileText(r, field) == r[field]

\* GetConRefL, GetProfileIAPIdL: no access point is an empty value.
GetConRef(r) == r.IAP

\* GetHttpUsernameL: not found until HTTP authentication is on, which
\* SetProfileHttpUserNameL turns on.
GetHttpUsername(r) ==
    IF r.HttpName = "" THEN [err |-> "KErrNotFound", text |-> ""]
                       ELSE [err |-> "KErrNone", text |-> r.HttpName]

\* GetDMAuthInfoL: the preferred scheme or a nonce.
GetDMAuthInfo(r, field) == IF field = "AAuthType" THEN r.AuthPref ELSE r[field]

\* GetObjectL: what a Get of a leaf returns; a secret is an error.
GetObject(r, leaf) ==
    LET field == GetDMField(leaf)
        value(t) == [err |-> "KErrNone", text |-> t]
    IN  CASE leaf[2] = "AppID" -> value("w7")
          [] field = "URL" -> value(GetProfileServerURL(r))
          [] field = "Port" -> value(GetProfilePortNumber(r))
          [] field \in {"Name", "UserName", "ServerId"} -> value(GetProfileText(r, field))
          [] field = "IAP" /\ leaf[2] # "AppID" -> value(GetConRef(r))
          [] field = "TransportName" -> GetHttpUsername(r)
          [] field \in AuthFields \cup {"AAuthType"} -> value(GetDMAuthInfo(r, field))
          [] field = "Lock" -> value(IF r.locked THEN "1" ELSE "0")
          [] field \in {"Password", "SharedSecret"} -> [err |-> "EInvalidObject", text |-> ""]
          [] OTHER -> value("")

\* The statuses of FetchLeafObjectL for an error code.
FetchStatus(err) ==
    CASE err = "KErrNone" -> "EOk" [] err = "KErrNotFound" -> "ENotFound" [] OTHER -> "EError"

\* FetchLeafObjectL.
FetchLeafObject(x, name, luid, leaf, ref) ==
    LET y == IF luid = NoLuid /\ Predefined(name) THEN ConstructTree(x) ELSE x
        p == IF luid = NoLuid /\ Predefined(name) THEN TreeLuid(x, name) ELSE luid
    IN  IF p = NoLuid \/ ~FindProfileId(x.db, p) THEN SetStatus(y, ref, "ENotFound")
        ELSE IF ~AcceptDMField(leaf[2]) THEN SetStatus(y, ref, "EInvalidObject")
        ELSE IF GetDMField(leaf) = "None" THEN SetStatus(y, ref, "EError")
        ELSE SetStatus(y, ref, FetchStatus(GetObject(x.db[p], leaf).err))

\* FetchLeafObjectSizeL knows no predefined names.  An empty value is an error to
\* it, after which it answers once more, with EOk.
FetchLeafObjectSize(x, luid, leaf, ref) ==
    IF luid = NoLuid \/ ~FindProfileId(x.db, luid) THEN SetStatus(x, ref, "ENotFound")
    ELSE IF ~AcceptDMField(leaf[2]) THEN SetStatus(x, ref, "EInvalidObject")
    ELSE LET r == GetObject(x.db[luid], leaf)
         IN  IF r.err = "KErrNone" /\ r.text # "" THEN SetStatus(x, ref, "EOk")
             ELSE SetStatus(SetStatus(x, ref, FetchStatus(r.err)), ref, "EOk")

\* ChildURIListL of DMAcc: a profile without a name gets one.
ListProfiles(x, ref) ==
    LET unnamed == DOMAIN x.db \ {x.map[n] : n \in DOMAIN x.map}
    IN  SetStatus([x EXCEPT !.map = [n \in {PreName(p) : p \in unnamed} |-> n[2]] @@ @],
                  ref, "EOk")

\* ChildURIListL of a profile.
ListProfile(x, name, luid, ref) ==
    LET y == IF luid = NoLuid /\ Predefined(name) THEN ConstructTree(x) ELSE x
        p == IF luid = NoLuid /\ Predefined(name) THEN TreeLuid(x, name) ELSE luid
    IN  SetStatus(y, ref, IF p # NoLuid /\ (luid = NoLuid \/ FindProfileId(x.db, p))
                              THEN "EOk" ELSE "ENotFound")

\* ChildURIListL of the nodes inside a profile: their segments are fixed.
ListInner(x, known, ref) == SetStatus(x, ref, IF known THEN "EOk" ELSE "EInvalidObject")

------------------------------------------------------------------------------
(* The engine's calls, and what else changes profiles. *)

NewMem ==
    [buffer |-> << >>, locks |-> << >>, ports |-> << >>, complete |-> FALSE,
     newProfile |-> FALSE, parent |-> 0, leafType |-> "EDMUnset"]

\* A server uses the name it gave a profile, and the name the adapter would list
\* it under for the others only.
AllNames ==
    Names \cup {PreName(p) : p \in Profiles \ {map[n] : n \in DOMAIN map \cap Names}}

\* An id the engine still has a name for is not given again.
Free == Profiles \ (DOMAIN db \cup {map[n] : n \in DOMAIN map})

Init == DmInit(NewMem, << >>, << >>)

AddNode ==
    \E name \in Names :
        /\ NodeRef(name) \notin open
        /\ Cardinality(open) < MaxOpen
        /\ Serve({NodeRef(name)}, AddNodeObject(X, name, NodeRef(name)))

\* Bounds: few locks and ports wait, and a node's leaves come in order.
RoomFor(leaf) ==
    leaf[2] \in {"ProfileLock", "PortNbr"} =>
        Len(mem.locks) + Len(mem.ports) < MaxLater
InOrder(name, leaf) ==
    LET i == BufferIndex(X, name)
    IN  i > 0 => \A j \in DOMAIN mem.buffer[i].leaves :
                    Rank[mem.buffer[i].leaves[j].leaf] <= Rank[leaf]
Sendable(name, leaf) ==
    /\ \A r \in open : r.op = "leaf" => <<r.name, r.leaf>> # <<name, leaf>>
    /\ Cardinality(open) < MaxOpen
    /\ RoomFor(leaf)
    /\ InOrder(name, leaf)

\* Add or Replace of a leaf.  If it completes a node, the profile needs an id.
UpdateLeaf ==
    \E name \in AllNames, leaf \in Leaves :
        /\ Sendable(name, leaf)
        /\ \E obj \in Objects[leaf], p \in Free \cup {NoLuid} :
              LET ref == LeafRef(name, leaf, obj.text)
                  x == UpdateLeafObject(X, name, leaf, obj, ref, p)
              IN  /\ p \in DOMAIN x.db <=> p \in Free
                  /\ Serve({ref}, x)

Delete ==
    \E name \in AllNames :
        Serve({DeleteRef({name})}, DeleteNode(X, Luid(map, name), DeleteRef({name})))

DeleteOneLeaf ==
    \E name \in AllNames, leaf \in Deleted :
        LET ref == LeafRef(name, leaf, "")
        IN  /\ Sendable(name, leaf)
            /\ Serve({ref}, DeleteLeaf(X, name, Luid(map, name), leaf, ref))

List ==
    \/ Serve({Now}, ListProfiles(X, Now))
    \/ \E name \in AllNames : Serve({Now}, ListProfile(X, name, Luid(map, name), Now))
    \/ \E known \in BOOLEAN : Serve({Now}, ListInner(X, known, Now))

Fetch ==
    \E name \in AllNames, leaf \in Leaves :
        Serve({Now}, FetchLeafObject(X, name, Luid(map, name), leaf, Now))

\* The size of a leaf is asked for when the value is large: never an empty one.
FetchSize ==
    \E name \in Names, leaf \in Leaves :
        LET p == Luid(map, name)
        IN  /\ p \in DOMAIN db => GetObject(db[p], leaf).text \notin {"", "0"}
            /\ Serve({Now}, FetchLeafObjectSize(X, p, leaf, Now))

Complete == Serve({}, CompleteOutstandingCmds(X))

EndSession == EndWith(CompleteOutstandingCmds(X), NewMem)

\* The user deletes a profile in the settings.
UserDeletes ==
    \E p \in DOMAIN db :
        Elsewhere(Without(db, {p}), {n \in DOMAIN map : map[n] = p})

Next == AddNode \/ UpdateLeaf \/ Delete \/ DeleteOneLeaf \/ List \/ Fetch \/ FetchSize
        \/ Complete
        \/ EndSession \/ UserDeletes

Spec == Init /\ [][Next]_dmVars

------------------------------------------------------------------------------
(* The part of the common properties that is this adapter's. *)

\* The references the adapter still has: of buffered nodes and leaves, of ports.
\* It also has those of locks, and never answers them.
Held ==
    (UNION {{NodeRef(mem.buffer[i].name)} \cup
            {mem.buffer[i].leaves[j].ref : j \in DOMAIN mem.buffer[i].leaves} :
               i \in DOMAIN mem.buffer})
        \cup {mem.ports[i].ref : i \in DOMAIN mem.ports}
LockRefs == {r \in open : r.op = "leaf" /\ r.leaf[2] = "ProfileLock"}

\* Whether a Get of a leaf of the node returns what the server was told.
Kept(name, leaf) ==
    LET p == Luid(map, name)
    IN  GetDMField(leaf) \in {"URL", "ServerId", "Name", "UserName", "IAP"} =>
            /\ p \in DOMAIN db
            /\ GetObject(db[p], leaf).text = told[<<name, leaf>>]

\* What the lock of a profile covers.
Covered(r) == [f \in DOMAIN r \ (AuthFields \cup {"locked", "port"}) |-> r[f]]
==============================================================================
