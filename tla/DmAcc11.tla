------------------------------- MODULE DmAcc11 -------------------------------
(***************************************************************************)
(* The DM account adapter for DM 1.1 (CNSmlDMSettingsAdapter): SyncML/     *)
(* DMAcc/x is a profile of the SyncML server process (external).  As in    *)
(* DmAcc12 the leaves of a new node are buffered until the four mandatory  *)
(* ones are there, and ports wait for CompleteOutstandingCmdsL; there are  *)
(* no locks and no predefined names, and a stale mapping is not removed.   *)
(*                                                                         *)
(* A leaf is its last segment.  An object is a record: its text (of an     *)
(* address: without its port), whether it is longer than the field takes,  *)
(* and the number in it, where there is one.                               *)
(***************************************************************************)
EXTENDS DmAdapter, TLC

CONSTANTS
    Names,     \* names a server gives to the nodes it adds
    Profiles,  \* LUIDs: profile ids less KMaxDataSyncID, from 0
    Leaves,    \* the leaves the server uses
    Objects,   \* leaf -> the objects it is sent
    Deleted,   \* bound: the leaves it deletes
    Rank,      \* bound: the order in which a node's leaves come (equal: any)
    MaxOpen,   \* bound: commands that are unanswered at a time
    MaxPorts   \* bound: ports that wait in a session

\* DDFStructureL: what the server may do with each leaf.
Access ==
    [leaf \in {"Addr", "AddrType", "PortNbr", "AuthScheme", "ClientUserName", "Name"} |->
        {"Get", "Add", "Replace", "Delete"}] @@
    [leaf \in {"ServerPW", "ServerNonce", "ClientPW", "ClientNonce"} |->
        {"Add", "Replace", "Delete"}] @@
    [leaf \in {"ConRef"} |-> {"Get", "Add", "Replace"}] @@
    [leaf \in {"ServerId"} |-> {"Get", "Add"}]

\* AcceptDMField: the leaves the adapter knows; Id is in no DDF.
AcceptDMField(leaf) ==
    leaf \in {"AddrType", "Addr", "PortNbr", "AuthScheme", "ServerId", "ServerPW",
              "ServerNonce", "ClientUserName", "ClientPW", "ClientNonce", "Name",
              "ConRef", "Id"}

\* GetDMField: the item of the profile that a leaf stands for.
GetDMField ==
    [AddrType |-> "MediumType", Addr |-> "URL", PortNbr |-> "Port", AuthScheme |-> "AuthPref",
     ServerId |-> "ServerId", ServerPW |-> "SharedSecret", ServerNonce |-> "ServerNonce",
     ClientUserName |-> "UserName", ClientPW |-> "Password", ClientNonce |-> "ClientNonce",
     Name |-> "Name", Id |-> "Id", ConRef |-> "IAP"]

\* GetDMFieldType: every accepted leaf has one, so it refuses none.
GetDMFieldType(leaf) ==
    IF leaf \in {"AddrType", "PortNbr", "AuthScheme", "ConRef", "Id"} THEN "EInt"
    ELSE IF leaf \in {"ServerNonce", "ClientNonce"} THEN "EBin"
    ELSE IF AcceptDMField(leaf) THEN "EStr" ELSE "EWrong"

\* NotValidStrLenght: nonces have no limit.
NotValidStrLenght(field, obj) == field \notin {"ServerNonce", "ClientNonce"} /\ obj.long

Nothing == [text |-> "", long |-> FALSE, num |-> -1]

------------------------------------------------------------------------------
(* The profiles, in the SyncML server. *)

NewProfile ==
    [URL |-> "", port |-> 0, ServerId |-> "", Name |-> "", UserName |-> "",
     Password |-> "", SharedSecret |-> "", IAP |-> "", AuthPref |-> "",
     ServerNonce |-> "", ClientNonce |-> ""]

\* FindProfileIdL; OpenSyncSessionAndProfileL looks for the profile in the same way.
FindProfileId(d, p) == p \in DOMAIN d
OpenSyncSessionAndProfile(d, p) == IF p \in DOMAIN d THEN "KErrNone" ELSE "KErrNotFound"

\* ParseUri: whether there is a port in an address.
ParseUri(obj) == obj.num > 0

\* SetPortNrToAddrStr: the port of an address into which one was put.  An empty
\* address takes none, and one that is being deleted loses its own.
SetPortNrToAddrStr(leafType, url, port) ==
    IF leafType = "EDMDelete" \/ url = "" THEN 0 ELSE port

\* SetProfileServerURIL: an address without a port keeps the port that was there,
\* and 80 is the default.
SetProfileServerURI(d, p, obj, leafType) ==
    LET kept == IF d[p].port = 0 THEN 80 ELSE d[p].port
    IN  [d EXCEPT ![p].URL = obj.text,
                  ![p].port = IF ParseUri(obj) THEN obj.num
                              ELSE SetPortNrToAddrStr(leafType, obj.text, kept)]

\* SetProfileDisplayNameL, SetProfileUserNameL, SetProfileServerIdL,
\* SetProfileServerPasswordL, SetProfilePasswordL.
SetProfileDisplayName(d, p, obj) == [d EXCEPT ![p].Name = obj.text]
SetProfileUserName(d, p, obj) == [d EXCEPT ![p].UserName = obj.text]
SetProfileServerId(d, p, obj) == [d EXCEPT ![p].ServerId = obj.text]
SetProfileServerPassword(d, p, obj) == [d EXCEPT ![p].SharedSecret = obj.text]
SetProfilePassword(d, p, obj) == [d EXCEPT ![p].Password = obj.text]

\* SetConRefL: the URI of an access point is turned into its id; only an empty one
\* may be unknown.
KnownConRef(obj) == obj.text = "" \/ obj.num # -1
\* SetProfileConnectionPropertyL.
SetProfileConnectionProperty(d, p, obj) == [d EXCEPT ![p].IAP = obj.text]

\* SetProfileConnectionPortNrL.
SetProfileConnectionPortNr(d, e, leafType) ==
    [d EXCEPT ![e.id].port = SetPortNrToAddrStr(leafType, d[e.id].URL, e.port)]

\* GetMediumTypeL, SetProfileAddrTypeL: a profile is on the Internet, and without
\* the OBEX feature it stays there; every number but those of HTTP and WSP stands
\* for another medium.
GetMediumType(num) == IF num \in {1, 2} THEN "Internet" ELSE "Obex"
SetProfileAddrType(obj) ==
    IF GetMediumType(IF obj.num < 0 THEN 1 ELSE obj.num) = "Internet"
        THEN "KErrNone" ELSE "EInvalidObject"

\* SetAuthInfoL, DeleteDMAuthInfoL.  The latter gets the LUID where the former
\* gets the profile id, so that what it empties is none of ours.
SetAuthInfo(d, p, field, obj) == [d EXCEPT ![p][field] = obj.text]
DeleteDMAuthInfo(d, p, field) == d

\* SetDMFieldDataL: what it does and its error code.
ValidPort(obj) == obj.num \in 1 .. 65534
PortError(obj) == IF obj.num > 65534 THEN "KErrOverflow" ELSE "KErrUnderflow"
SetPort(x, p, obj) ==
    IF ~ValidPort(obj) THEN [err |-> PortError(obj), x |-> x]
    ELSE [err |-> "KErrNone",
          x |-> [x EXCEPT !.mem.ports = Append(@, [id |-> p, port |-> obj.num])]]
SetDMFieldData(x, p, obj, field) ==
    LET put(d) == [err |-> "KErrNone", x |-> [x EXCEPT !.db = d]]
        only(e) == [err |-> e, x |-> x]
    IN  CASE field = "URL" -> put(SetProfileServerURI(x.db, p, obj, x.mem.leafType))
          [] field = "ServerId" -> put(SetProfileServerId(x.db, p, obj))
          [] field = "SharedSecret" -> put(SetProfileServerPassword(x.db, p, obj))
          [] field = "UserName" -> put(SetProfileUserName(x.db, p, obj))
          [] field = "Password" -> put(SetProfilePassword(x.db, p, obj))
          [] field = "Name" -> put(SetProfileDisplayName(x.db, p, obj))
          [] field = "IAP" -> IF KnownConRef(obj)
                                  THEN put(SetProfileConnectionProperty(x.db, p, obj))
                                  ELSE only("KErrGeneral")
          [] field = "Port" -> SetPort(x, p, obj)
          [] field = "MediumType" -> IF x.mem.leafType = "EDMDelete" THEN only("KErrNone")
                                     ELSE only(SetProfileAddrType(obj))
          [] field = "Id" -> only("KErrGeneral")

------------------------------------------------------------------------------
(* Commands on leaves. *)

AuthFields == {"AuthPref", "ServerNonce", "ClientNonce"}

\* UpdateLeafObjectL once the item is known, and its answers.
Write(x, p, field, obj, ref) ==
    IF field \in AuthFields
        THEN IF FindProfileId(x.db, p)
                 THEN SetStatus([x EXCEPT !.db = SetAuthInfo(@, p, field, obj)], ref, "EOk")
                 ELSE SetStatus(x, ref, "ENotFound")
    ELSE IF field # "Port" /\ OpenSyncSessionAndProfile(x.db, p) # "KErrNone"
        THEN SetStatus(x, ref, "ENotFound")
    ELSE LET r == SetDMFieldData(x, p, obj, field)
         IN  CASE r.err = "KErrNone" /\ field = "Port" ->
                    [r.x EXCEPT !.mem.ports[Len(r.x.mem.ports)] =
                                    [id |-> @.id, port |-> @.port, ref |-> ref]]
               [] r.err = "KErrNone" /\ field # "Port" -> SetStatus(r.x, ref, "EOk")
               [] r.err = "KErrOverflow" -> SetStatus(r.x, ref, "ETooLargeObject")
               [] OTHER -> SetStatus(r.x, ref, "EError")

\* UpdateLeafObjectL of a node that is not buffered, or is being executed.  The
\* profile last used is not looked for again.
UpdateStored(x, luid, leaf, obj, ref) ==
    IF luid = NoLuid \/ (luid # x.mem.parent /\ ~FindProfileId(x.db, luid))
        THEN SetStatus(x, ref, "ENotFound")
    ELSE LET y == [x EXCEPT !.mem.parent = luid]
         IN  IF ~AcceptDMField(leaf) THEN SetStatus(y, ref, "EInvalidObject")
             ELSE IF NotValidStrLenght(GetDMField[leaf], obj)
                 THEN SetStatus(y, ref, "ETooLargeObject")
             ELSE Write(y, luid, GetDMField[leaf], obj, ref)

------------------------------------------------------------------------------
(* The buffer of new nodes. *)

Mandatory == {"Addr", "ServerId", "ClientUserName", "Name"}

BufferIndex(x, name) == SelectInSeq(x.mem.buffer, LAMBDA e : e.name = name)

\* CreateNewProfileL: the server process gives the profile a free id.
CreateNewProfile(x, p) == [x EXCEPT !.db = With(@, p, NewProfile)]

\* The leaves of an entry, the first one first.
Replay(x, luid, e) ==
    LET replayed[n \in 0 .. Len(e.leaves)] ==
            IF n = 0 THEN x
            ELSE UpdateStored(replayed[n - 1], luid, e.leaves[n].leaf, e.leaves[n].obj,
                              e.leaves[n].ref)
    IN  replayed[Len(e.leaves)]

\* ExecuteBufferL of entry i; from CompleteOutstandingCmdsL it creates nothing.
ExecuteBuffer(x, i, p) ==
    LET e == x.mem.buffer[i]
        y == IF x.mem.complete
                 THEN SetStatus(x, NodeRef(e.name), "EError")
                 ELSE SetStatus(SetMapping(CreateNewProfile(x, p), e.name, p),
                                NodeRef(e.name), "EOk")
        luid == IF x.mem.complete THEN NoLuid ELSE p
    IN  [Replay(y, luid, e) EXCEPT !.mem.buffer = RemoveAt(@, i)]

\* AddLeafBufferL.
AddLeafBuffer(x, i, leaf, obj, ref, p) ==
    LET e == x.mem.buffer[i]
        leaves == Append(e.leaves, [leaf |-> leaf, obj |-> obj, ref |-> ref])
        y == [x EXCEPT !.mem.buffer[i].leaves = leaves]
    IN  IF Mandatory \subseteq {leaves[j].leaf : j \in DOMAIN leaves}
            THEN ExecuteBuffer(y, i, p) ELSE y

\* UpdateLeafObjectL.
UpdateLeafObject(x, name, leaf, obj, ref, p) ==
    LET i == BufferIndex(x, name)
    IN  IF i > 0 THEN AddLeafBuffer(x, i, leaf, obj, ref, p)
        ELSE UpdateStored(x, Luid(x.map, name), leaf, obj, ref)

------------------------------------------------------------------------------
(* Other handlers. *)

\* AddNodeBufferL.
AddNodeBuffer(x, name, ref) ==
    IF BufferIndex(x, name) > 0 THEN SetStatus(x, ref, "EAlreadyExists")
    ELSE [x EXCEPT !.mem.buffer = Append(@, [name |-> name, leaves |-> << >>])]

\* AddNodeObjectL.
AddNodeObject(x, name, ref) ==
    LET p == Luid(x.map, name)
        y == IF p = NoLuid THEN x ELSE [x EXCEPT !.mem.parent = p]
    IN  IF p # NoLuid /\ FindProfileId(x.db, p) THEN SetStatus(y, ref, "EAlreadyExists")
        ELSE AddNodeBuffer(y, name, ref)

\* DeleteProfileL.
DeleteProfile(x, p) == [x EXCEPT !.db = Without(@, {p})]

\* DeleteObjectL of a node and of a leaf, which is written empty.
DeleteNode(x, p, ref) ==
    IF ~FindProfileId(x.db, p) THEN SetStatus(x, ref, "ENotFound")
    ELSE SetStatus(DeleteProfile(x, p), ref, "EOk")
DeleteLeaf(x, name, p, leaf, ref) ==
    IF leaf = "ConRef" THEN SetStatus(x, ref, "EError")
    ELSE IF p # x.mem.parent /\ ~FindProfileId(x.db, p) THEN SetStatus(x, ref, "ENotFound")
    ELSE LET y == [x EXCEPT !.mem.parent = p]
         IN  IF leaf \in {"AuthScheme", "ClientNonce", "ServerNonce"}
                 THEN SetStatus([y EXCEPT !.db = DeleteDMAuthInfo(@, p, GetDMField[leaf])],
                                ref, "EOk")
                 ELSE [UpdateLeafObject([y EXCEPT !.mem.leafType = "EDMDelete"],
                                        name, leaf, Nothing, ref, p)
                          EXCEPT !.mem.leafType = "EDMUnset"]

\* CompleteOutstandingCmdsL walks the buffer by index while ExecuteBufferL deletes
\* from it, and so skips the entry after each one.
ExecuteEvery(x) ==
    LET last == (Len(x.mem.buffer) + 1) \div 2
        executed[n \in 0 .. last] ==
            IF n = 0 THEN x
            ELSE ExecuteBuffer([executed[n - 1] EXCEPT !.mem.complete = TRUE], n, NoLuid)
    IN  executed[last]
ApplyPort(x, e) ==
    IF OpenSyncSessionAndProfile(x.db, e.id) # "KErrNone" THEN SetStatus(x, e.ref, "EError")
    ELSE SetStatus([x EXCEPT !.db = SetProfileConnectionPortNr(@, e, "EDMUnset")], e.ref, "EOk")
ApplyPorts(x) ==
    LET applied[n \in 0 .. Len(x.mem.ports)] ==
            IF n = 0 THEN x ELSE ApplyPort(applied[n - 1], x.mem.ports[n])
    IN  applied[Len(x.mem.ports)]
CompleteOutstandingCmds(x) ==
    [ApplyPorts(ExecuteEvery(x)) EXCEPT !.mem.ports = << >>, !.mem.complete = FALSE]

\* GetProfileServerURLL and the port taken out of it; GetProfilePortNumberL.
GetProfileServerURL(r) == r.URL
GetProfilePortNumber(r) == ToString(r.port)

\* GetConRefL, GetProfileIAPIdL: no access point is an empty value.
GetConRef(r) == r.IAP

\* GetProfileConnectiontypeL.
GetProfileConnectiontype == "1"

\* GetServerIdL, GetProfileNameL, GetProfileUserNameL, GetDMAuthInfoL.
GetServerId(r) == r.ServerId
GetProfileName(r) == r.Name
GetProfileUserName(r) == r.UserName
GetDMAuthInfo(r, field) == r[field]

\* GetObjectL: what a Get returns; secrets are an error.
GetObject(r, field) ==
    LET value(t) == [err |-> "KErrNone", text |-> t]
    IN  CASE field = "Name" -> value(GetProfileName(r))
          [] field = "UserName" -> value(GetProfileUserName(r))
          [] field = "URL" -> value(GetProfileServerURL(r))
          [] field = "ServerId" -> value(GetServerId(r))
          [] field = "IAP" -> value(GetConRef(r))
          [] field = "Port" -> value(IF r.URL = "" THEN "" ELSE GetProfilePortNumber(r))
          [] field = "MediumType" -> value(GetProfileConnectiontype)
          [] field \in AuthFields -> value(GetDMAuthInfo(r, field))
          [] field = "Id" -> value("")
          [] OTHER -> [err |-> "EInvalidObject", text |-> ""]

\* FetchLeafObjectL.
FetchLeafObject(x, luid, leaf, ref) ==
    IF luid = NoLuid \/ ~FindProfileId(x.db, luid) THEN SetStatus(x, ref, "ENotFound")
    ELSE IF ~AcceptDMField(leaf) THEN SetStatus(x, ref, "EInvalidObject")
    ELSE SetStatus(x, ref, IF GetObject(x.db[luid], GetDMField[leaf]).err = "KErrNone"
                               THEN "EOk" ELSE "EError")

\* FetchLeafObjectSizeL: an empty value is an error to it, after which it answers
\* once more, with EOk.
FetchLeafObjectSize(x, luid, leaf, ref) ==
    IF luid = NoLuid \/ ~FindProfileId(x.db, luid) THEN SetStatus(x, ref, "ENotFound")
    ELSE IF ~AcceptDMField(leaf) THEN SetStatus(x, ref, "EInvalidObject")
    ELSE LET r == GetObject(x.db[luid], GetDMField[leaf])
         IN  IF r.err = "KErrNone" /\ r.text # "" THEN SetStatus(x, ref, "EOk")
             ELSE SetStatus(SetStatus(x, ref, "EError"), ref, "EOk")

\* ChildURIListL: a profile without a name gets one.
PreName(p) == <<"DMId", p>>
ListProfiles(x, ref) ==
    LET unnamed == DOMAIN x.db \ {x.map[n] : n \in DOMAIN x.map}
    IN  SetStatus([x EXCEPT !.map = [n \in {PreName(p) : p \in unnamed} |-> n[2]] @@ @],
                  ref, "EOk")
ListProfile(x, luid, ref) ==
    SetStatus(x, ref, IF FindProfileId(x.db, luid) THEN "EOk" ELSE "ENotFound")

------------------------------------------------------------------------------
(* The engine's calls, and what else changes profiles. *)

NewMem ==
    [buffer |-> << >>, ports |-> << >>, complete |-> FALSE, parent |-> 0,
     leafType |-> "EDMUnset"]

\* The engine knows a profile by the name the server gave it, if there is one.
AllNames ==
    Names \cup {PreName(p) : p \in Profiles \ {map[n] : n \in DOMAIN map \cap Names}}

\* An id the engine still has a name for is not given again.
Free == Profiles \ (DOMAIN db \cup {map[n] : n \in DOMAIN map})

Init == DmInit(NewMem, << >>, << >>)

AddNode ==
    \E name \in Names :
        /\ NodeRef(name) \notin open
        /\ Cardinality(open) < MaxOpen
        /\ Serve({NodeRef(name)}, AddNodeObject(X, name, NodeRef(name)))

\* Bounds: few ports wait, and a node's leaves come in order.
Sendable(name, leaf) ==
    LET i == BufferIndex(X, name)
    IN  /\ \A r \in open : r.op = "leaf" => <<r.name, r.leaf>> # <<name, leaf>>
        /\ Cardinality(open) < MaxOpen
        /\ leaf = "PortNbr" => Len(mem.ports) < MaxPorts
        /\ i > 0 => \A j \in DOMAIN mem.buffer[i].leaves :
                       Rank[mem.buffer[i].leaves[j].leaf] <= Rank[leaf]

\* Add or Replace of a leaf.  If it completes a node, the profile needs an id.
UpdateLeaf ==
    \E name \in AllNames, leaf \in Leaves :
        /\ Sendable(name, leaf)
        /\ \E obj \in Objects[leaf], p \in Free \cup {NoLuid} :
              LET ref == LeafRef(name, leaf, obj.text)
                  x == UpdateLeafObject(X, name, leaf, obj, ref, p)
              IN  /\ p \in DOMAIN x.db <=> p \in Free
                  /\ Serve({ref}, x)

Delete ==
    \E name \in AllNames :
        Serve({DeleteRef({name})}, DeleteNode(X, Luid(map, name), DeleteRef({name})))

\* A leaf is deleted of a node that exists.
DeleteOneLeaf ==
    \E name \in DOMAIN map, leaf \in Deleted :
        LET ref == LeafRef(name, leaf, "")
        IN  /\ Sendable(name, leaf)
            /\ BufferIndex(X, name) = 0
            /\ Serve({ref}, DeleteLeaf(X, name, map[name], leaf, ref))

List ==
    \/ Serve({Now}, ListProfiles(X, Now))
    \/ \E name \in AllNames : Serve({Now}, ListProfile(X, Luid(map, name), Now))

\* The size of a leaf is asked for when the value is large: never an empty one.
Fetch ==
    \E name \in Names, leaf \in Leaves :
        LET p == Luid(map, name)
        IN  \/ Serve({Now}, FetchLeafObject(X, p, leaf, Now))
            \/ /\ p \in DOMAIN db => GetObject(db[p], GetDMField[leaf]).text # ""
               /\ Serve({Now}, FetchLeafObjectSize(X, p, leaf, Now))

Complete == Serve({}, CompleteOutstandingCmds(X))

EndSession == EndWith(CompleteOutstandingCmds(X), NewMem)

\* The user deletes a profile in the settings.
UserDeletes ==
    \E p \in DOMAIN db :
        Elsewhere(Without(db, {p}), {n \in DOMAIN map : map[n] = p})

Next == AddNode \/ UpdateLeaf \/ Delete \/ DeleteOneLeaf \/ List \/ Fetch \/ Complete
        \/ EndSession \/ UserDeletes

Spec == Init /\ [][Next]_dmVars

------------------------------------------------------------------------------
(* The part of the common properties that is this adapter's. *)

\* The references it still has: of buffered nodes and leaves, and of ports.
Held ==
    (UNION {{NodeRef(mem.buffer[i].name)} \cup
            {mem.buffer[i].leaves[j].ref : j \in DOMAIN mem.buffer[i].leaves} :
               i \in DOMAIN mem.buffer})
        \cup {mem.ports[i].ref : i \in DOMAIN mem.ports}

\* Whether a Get of a leaf of the node returns what the server was told.
Kept(name, leaf) ==
    LET p == Luid(map, name)
    IN  leaf \in {"Addr", "ServerId", "Name", "ClientUserName", "ConRef"} =>
            /\ p \in DOMAIN db
            /\ GetObject(db[p], GetDMField[leaf]).text = told[<<name, leaf>>]
==============================================================================
