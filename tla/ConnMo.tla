------------------------------- MODULE ConnMo -------------------------------
(***************************************************************************)
(* The adapter of the connectivity management objects (CConnMoAdapter):    *)
(* access points (branch NAP) and proxies (branch Proxy).  Both are        *)
(* records of the connection manager (external): a proxy is the part of an *)
(* access point's record that is in use when the record says so.           *)
(* New nodes wait in a buffer (CAddBuffer) that both branches share, until *)
(* CompleteOutstandingCmdsL makes records of the groups that are complete. *)
(*                                                                         *)
(* An object is a record: its text; num, the number it is, -1 for none;    *)
(* and to, the access point that a ConRef names.                           *)
(***************************************************************************)
EXTENDS DmAdapter, FiniteSetsExt, TLC

CONSTANTS
    Naps, Proxies,      \* the names of nodes
    Begins(_, _),       \* whether the second name begins with the first
    IdInName,           \* names made of an id (NAPId001, ProxyId001) -> the id
    Ids,                \* bound: the records there can be
    Used,               \* the names that the server uses
    Leaves,             \* branch -> leaves the server uses
    Objects,            \* leaf -> the objects it is sent
    MaxOpen             \* bound: commands that are unanswered at a time

Branch(name) == IF name \in Naps THEN "NAP" ELSE "Proxy"

\* DDFStructureL and IpBranchDDFStructureL of the branches.
NoDelete == {"Get", "Add", "Replace"}
AccessNap ==
    "ID" :> {"Get"} @@ "AuthSecret" :> {"Add", "Replace", "Delete"} @@
    [leaf \in {"Name", "AddrType", "Addr", "AuthName", "AuthType", "BearerType", "AutoConfig",
               "IPAddr", "NetMask", "Gateway", "AutoDNS", "DNS1", "DNS2"} |-> NoDelete]
AccessProxy ==
    "ProxyId" :> {"Get"} @@
    [leaf \in {"Addr", "ConRef", "PortNbr", "ProxyType", "Startpg"} |-> NoDelete]

\* AddBranchL: proxies cannot be deleted.
Deletable == Naps

\* GetCmIdFromURIL: names of the form NAPId001 say which record they are.
GetCmIdFromURI(name) == IF name \in DOMAIN IdInName THEN IdInName[name] ELSE NoLuid

Record(nap) == [nap |-> nap, proxy |-> << >>, on |-> FALSE]

------------------------------------------------------------------------------
(* CAddBuffer. *)

\* AddNodeToBufferL: a node, a node below it, or a leaf.
Element(name, kind, leaf, obj, ref) ==
    [name |-> name, kind |-> kind, leaf |-> leaf, obj |-> obj, ref |-> ref]
AddNodeToBuffer(x, e) == [x EXCEPT !.mem = Append(@, e)]

NoObject == [text |-> "", num |-> -1, to |-> ""]

\* GetGroup: the elements whose URI begins as that of the first one's node.
GetGroup(buffer, e) == SelectSeq(buffer, LAMBDA f : Begins(e.name, f.name))
\* Mutant of Ungrouped: what is processed stays in the buffer.
UngroupedLeft(buffer, e) == buffer
Ungrouped(buffer, e) == SelectSeq(buffer, LAMBDA f : ~Begins(e.name, f.name))

\* CacheFind of a leaf and CacheFindDynamicNode in a group.
CacheFind(group, leaves) ==
    SelectSeq(group, LAMBDA f : f.kind = "leaf" /\ f.leaf \in leaves)
CacheFindDynamicNode(group) == \E i \in DOMAIN group : group[i].kind = "node"

\* Mutant of RefuseAll: of the nodes only.
RefuseNodes(x, group) ==
    FoldLeft(LAMBDA y, f : IF f.kind = "leaf" THEN y ELSE SetStatus(y, f.ref, "EError"), x, group)

\* Every command of a group is answered with an error.
RefuseAll(x, group) == FoldLeft(LAMBDA y, f : SetStatus(y, f.ref, "EError"), x, group)

------------------------------------------------------------------------------
(* CNapBranch. *)

\* MapUriToCmAttribute: the leaves that are attributes of a record.
NapTexts == {"Name", "Addr", "DNS1", "DNS2", "AuthName", "AuthSecret", "IPAddr", "NetMask", "Gateway"}
NapFlags == {"AutoConfig", "AutoDNS"}

\* GetUnmodifiableFieldAddResult.
Fixed == "AddrType" :> "APN" @@ "AuthType" :> "PAP"
GetUnmodifiableFieldAddResult(leaf, obj) ==
    CASE leaf \notin DOMAIN Fixed -> "ENotFound"
      [] obj.text = Fixed[leaf] -> "EOk"
      [] OTHER -> "EInvalidObject"

\* SetLeafDataL of the branch: a bearer that was set is not looked at again.
SetNapLeafData(x, id, leaf, obj, ref) ==
    LET stored == [x EXCEPT !.db[id].nap = With(@, leaf, obj.text)]
    IN  CASE leaf \in NapTexts -> SetStatus(stored, ref, "EOk")
          [] leaf \in NapFlags /\ obj.text \in {"True", "False"} -> SetStatus(stored, ref, "EOk")
          [] leaf \in NapFlags -> SetStatus(x, ref, "EInvalidObject")
          [] leaf = "BearerType" -> SetStatus(x, ref, "EOk")
          [] OTHER -> SetStatus(x, ref, GetUnmodifiableFieldAddResult(leaf, obj))

\* SetNodeDataL.
SetNodeData(x, id, f) == SetStatus(SetMapping(x, f.name, id), f.ref, "EOk")
SetInnerData(x, f) == SetStatus(x, f.ref, "EOk")

\* FindNewCmType, and AllMandatoryNapFieldsFound: the address of a name server is
\* an address too.
FindNewCmType(group) ==
    LET bearers == CacheFind(group, {"BearerType"})
    IN  bearers # << >> /\ bearers[1].obj.text = "3GPPPS"
AllMandatoryNapFieldsFound(group) ==
    CacheFind(group, {"Addr", "DNS1", "DNS2"}) # << >> /\ CacheFindDynamicNode(group)
Creatable(group) == FindNewCmType(group) /\ AllMandatoryNapFieldsFound(group)

\* A record is made and the group is written to it.
StoreNap(x, id, group) ==
    FoldLeft(LAMBDA y, f :
                 CASE f.kind = "leaf" -> SetNapLeafData(y, id, f.leaf, f.obj, f.ref)
                   [] f.kind = "node" -> SetNodeData(y, id, f)
                   [] f.kind = "inner" -> SetInnerData(y, f),
             [x EXCEPT !.db = With(@, id, Record(<< >>))], group)

\* One round of ProcessBufferL; the connection manager has an id for a new record.
ProcessNap(x, e) ==
    LET group == GetGroup(x.mem, e)
        y == [x EXCEPT !.mem = Ungrouped(@, e)]
    IN  IF Creatable(group) THEN StoreNap(y, CHOOSE i \in Ids \ DOMAIN x.db :
                                                 \A j \in Ids \ DOMAIN x.db : i <= j, group)
        ELSE RefuseAll(y, group)

\* CreateConnectionMethodL leaves when there is no room, and what was not
\* processed stays in the buffer.
Full(x, e) == Creatable(GetGroup(x.mem, e)) /\ Ids \ DOMAIN x.db = {}
Waits(x, e) == Contains(x.mem, e)
IsNap(e) == e.name \in Naps

\* The state after the branch's turn, and whether it left.
NapTurn(s, e) ==
    IF s.left \/ ~Waits(s.x, e) THEN s
    ELSE IF Full(s.x, e) THEN [s EXCEPT !.left = TRUE]
    ELSE [s EXCEPT !.x = ProcessNap(@, e)]
ProcessNapBuffer(x) ==
    FoldLeft(NapTurn, [x |-> x, left |-> FALSE], SelectSeq(x.mem, IsNap))

\* UpdateLeafObjectL of a branch whose record is `id`.
UpdateNapLeaf(x, name, leaf, obj, ref, id) ==
    IF id \in DOMAIN x.db THEN SetNapLeafData(x, id, leaf, obj, ref)
    ELSE AddNodeToBuffer(x, Element(name, "leaf", leaf, obj, ref))

\* AddNodeObjectL: the name of an access point that is gone is taken out of the
\* engine's mapping, which may fail.
AddNapNode(x, name, kind, ref, luid, removed) ==
    LET wait(y) == AddNodeToBuffer(y, Element(name, kind, "", NoObject, ref))
    IN  CASE luid = NoLuid /\ GetCmIdFromURI(name) \in DOMAIN x.db -> SetStatus(x, ref, "EAlreadyExists")
          [] luid = NoLuid -> wait(x)
          [] luid \in DOMAIN x.db -> SetStatus(x, ref, "EAlreadyExists")
          [] ~removed -> SetStatus(x, ref, "EError")
          [] OTHER -> wait(RemoveMapping(x, name))

\* DeleteObjectL: an access point only; in use, it cannot be deleted.
DeleteNap(x, kind, ref, id, inUse) ==
    CASE kind # "node" -> SetStatus(x, ref, "EError")
      [] id \notin DOMAIN x.db -> SetStatus(x, ref, "ENotFound")
      [] inUse -> SetStatus(x, ref, "EError")
      [] OTHER -> SetStatus([x EXCEPT !.db = Without(@, {id})], ref, "EOk")

\* GetLeafDataL, GetUnmodifiableFieldValueL.
GetNapLeafData(leaf) == IF leaf = "AuthSecret" THEN "ENotFound" ELSE "EOk"

\* NapChildURIListL: records without a name get one.
NameOf(id, names) == CHOOSE n \in names : n \in DOMAIN IdInName /\ IdInName[n] = id
NameRecord(x, names, id) ==
    IF \E n \in names : Luid(x.map, n) = id THEN x
    ELSE SetMapping(x, NameOf(id, names), id)
NapChildURIList(x) == FoldSet(LAMBDA id, y : NameRecord(y, Naps, id), x, DOMAIN x.db)

------------------------------------------------------------------------------
(* CProxyBranch. *)

\* MapUriToCmAttribute; CheckForUnmodifiableField: another access point is no error
\* and changes nothing.
ProxyTexts == {"Addr", "Startpg", "ProxyType"}
SetProxyLeafData(x, id, leaf, obj, ref) ==
    LET stored(v) == [x EXCEPT !.db[id].proxy = With(@, leaf, v)]
    IN  CASE leaf \in ProxyTexts -> SetStatus(stored(obj.text), ref, "EOk")
          [] leaf = "PortNbr" /\ obj.num >= 0 -> SetStatus(stored(obj.text), ref, "EOk")
          [] leaf = "PortNbr" -> SetStatus(x, ref, "EInvalidObject")
          [] leaf \in {"Name", "ConRef"} -> SetStatus(x, ref, "EOk")
          [] OTHER -> SetStatus(x, ref, "ENotFound")

\* FindConnectionMethodL: the record of the access point that the ConRef names.
FindConnectionMethod(x, group) ==
    LET refs == CacheFind(group, {"ConRef"})
    IN  IF refs = << >> THEN NoLuid ELSE Luid(x.map, refs[1].obj.to)

\* AllMandatoryProxyFieldsFound.
AllMandatoryProxyFieldsFound(group) ==
    /\ CacheFind(group, {"Addr"}) # << >> /\ CacheFind(group, {"ConRef"}) # << >>
    /\ CacheFindDynamicNode(group)

\* One round of ProcessBufferL: the record is there already.
StoreProxy(x, id, group) ==
    FoldLeft(LAMBDA y, f :
                 CASE f.kind = "leaf" -> SetProxyLeafData(y, id, f.leaf, f.obj, f.ref)
                   [] f.kind = "node" -> SetNodeData(y, id, f)
                   [] f.kind = "inner" -> SetInnerData(y, f),
             [x EXCEPT !.db[id].on = TRUE], group)
ProcessProxy(x, e) ==
    LET group == GetGroup(x.mem, e)
        id == FindConnectionMethod(x, group)
        y == [x EXCEPT !.mem = Ungrouped(@, e)]
    IN  IF AllMandatoryProxyFieldsFound(group) /\ id \in DOMAIN x.db THEN StoreProxy(y, id, group)
        ELSE RefuseAll(y, group)
IsProxy(e) == e.name \in Proxies
ProcessProxyBuffer(x) ==
    FoldLeft(LAMBDA y, e : IF Waits(y, e) THEN ProcessProxy(y, e) ELSE y, x, SelectSeq(x.mem, IsProxy))

\* UpdateLeafObjectL does not ask whether the proxy is in use, AddNodeObjectL does
\* for names made of an id.
UpdateProxyLeaf(x, name, leaf, obj, ref, id) ==
    IF id \in DOMAIN x.db THEN SetProxyLeafData(x, id, leaf, obj, ref)
    ELSE AddNodeToBuffer(x, Element(name, "leaf", leaf, obj, ref))
InUse(x, id) == id \in DOMAIN x.db /\ x.db[id].on
AddProxyNode(x, name, kind, ref, luid) ==
    IF (luid = NoLuid /\ InUse(x, GetCmIdFromURI(name))) \/ luid \in DOMAIN x.db
    THEN SetStatus(x, ref, "EAlreadyExists")
    ELSE AddNodeToBuffer(x, Element(name, kind, "", NoObject, ref))

\* FetchLeafObjectL: a ConRef is the first access point whose name has the record;
\* the list of access points is made for it.
FetchProxyLeaf(x, leaf, ref, id) ==
    LET named == NapChildURIList(x)
    IN  CASE ~InUse(x, id) -> SetStatus(x, ref, "ENotFound")
          [] leaf = "ConRef" ->
                SetStatus(named, ref,
                    IF \E n \in Naps : Luid(named.map, n) = id THEN "EOk" ELSE "EError")
          [] leaf = "Name" -> SetStatus(x, ref, "ENotAllowed")
          [] OTHER -> SetStatus(x, ref, "EOk")

\* GetAllDynamicProxyNodesL.
ProxyChildURIList(x) ==
    FoldSet(LAMBDA id, y : NameRecord(y, Proxies, id), x, {i \in DOMAIN x.db : x.db[i].on})

------------------------------------------------------------------------------
(* CConnMoAdapter: the branch is found by the first part of the URI. *)

\* The record a command is for: an update looks at the name first, the others at
\* the engine's mapping.
ByName(name, luid) == IF GetCmIdFromURI(name) # NoLuid THEN GetCmIdFromURI(name) ELSE luid
ByLuid(name, luid) == IF luid # NoLuid THEN luid ELSE GetCmIdFromURI(name)

UpdateLeafObject(x, name, leaf, obj, ref, luid) ==
    IF name \in Naps THEN UpdateNapLeaf(x, name, leaf, obj, ref, ByName(name, luid))
    ELSE UpdateProxyLeaf(x, name, leaf, obj, ref, ByName(name, luid))
AddNodeObject(x, name, kind, ref, luid, removed) ==
    IF name \in Naps THEN AddNapNode(x, name, kind, ref, luid, removed)
    ELSE AddProxyNode(x, name, kind, ref, luid)
DeleteObject(x, name, kind, ref, luid, inUse) == DeleteNap(x, kind, ref, ByLuid(name, luid), inUse)
FetchLeafObject(x, name, leaf, ref, luid) ==
    CASE name \in Proxies -> FetchProxyLeaf(x, leaf, ref, ByLuid(name, luid))
      [] ByLuid(name, luid) \in DOMAIN x.db -> SetStatus(x, ref, GetNapLeafData(leaf))
      [] OTHER -> SetStatus(x, ref, "ENotFound")
FetchLeafObjectSize(x, name, leaf, ref, luid) == FetchLeafObject(x, name, leaf, ref, luid)

\* ChildURIListL of a branch, and of a node and those below it.
ListBranch(x, branch, ref) ==
    SetStatus(IF branch = "NAP" THEN NapChildURIList(x) ELSE ProxyChildURIList(x), ref, "EOk")
ListNode(x, name, known, ref, id) ==
    SetStatus(x, ref,
        IF known /\ (IF name \in Naps THEN id \in DOMAIN x.db ELSE InUse(x, id))
        THEN "EOk" ELSE "ENotFound")

\* The streams, ExecuteCommandL and CopyCommandL.
Refuse(x, ref) == SetStatus(x, ref, "EError")

\* CompleteOutstandingCmdsL: nothing is forgotten when the first branch leaves.
Completed(s) == IF s.left THEN s.x ELSE [ProcessProxyBuffer(s.x) EXCEPT !.mem = << >>]
CompleteOutstandingCmds(x) == Completed(ProcessNapBuffer(x))

------------------------------------------------------------------------------
(* The engine's calls, and the user. *)

NewMem == << >>
Names == Naps \cup Proxies
NamesOf(id) == {n \in Names : ByLuid(n, Luid(map, n)) = id}
InnerRef(name) == [op |-> "inner", name |-> name]

Init == DmInit(NewMem, 1 :> Record(<< >>), << >>)

\* A server does not make up the name of a record that has another one.
Usable(name) ==
    /\ name \in Used
    /\ \A n \in DOMAIN map :
          Branch(n) = Branch(name) /\ map[n] = GetCmIdFromURI(name) => n = name

New(ref) == Cardinality(open) < MaxOpen /\ \A r \in open : r # ref

UpdateLeaf ==
    \E name \in {n \in Names : Usable(n)} : \E leaf \in Leaves[Branch(name)] : \E obj \in Objects[leaf] :
        LET ref == LeafRef(name, leaf, obj.text)
        IN  New(ref) /\ Serve({ref}, UpdateLeafObject(X, name, leaf, obj, ref, Luid(map, name)))

\* A node, or one below it.
AddNode ==
    \E name \in {n \in Names : Usable(n)}, removed \in BOOLEAN :
        \/ /\ New(NodeRef(name))
           /\ Serve({NodeRef(name)},
                  AddNodeObject(X, name, "node", NodeRef(name), Luid(map, name), removed))
        \/ /\ New(InnerRef(name))
           /\ Serve({InnerRef(name)},
                  AddNodeObject(X, name, "inner", InnerRef(name), Luid(map, name), removed))

\* What is deleted takes its proxy with it; the names of that stay.
Delete ==
    \E name \in {n \in Deletable : Usable(n)}, inUse \in BOOLEAN, kind \in {"node", "leaf"} :
        LET id == ByLuid(name, Luid(map, name))
            ref == IF kind = "node" THEN DeleteWith({name}, NamesOf(id)) ELSE Now
        IN  Serve({ref}, DeleteObject(X, name, kind, ref, Luid(map, name), inUse))

Fetch ==
    \E name \in {n \in Names : Usable(n)} : \E leaf \in Leaves[Branch(name)] :
        \/ Serve({Now}, FetchLeafObject(X, name, leaf, Now, Luid(map, name)))
        \/ Serve({Now}, FetchLeafObjectSize(X, name, leaf, Now, Luid(map, name)))
List ==
    \/ \E branch \in {"NAP", "Proxy"} : Serve({Now}, ListBranch(X, branch, Now))
    \/ \E name \in {n \in Names : Usable(n)}, known \in BOOLEAN :
           Serve({Now}, ListNode(X, name, known, Now, ByLuid(name, Luid(map, name))))
Other == Serve({Now}, Refuse(X, Now))

Complete == Serve({}, CompleteOutstandingCmds(X))
EndSession == EndWith(CompleteOutstandingCmds(X), NewMem)

\* The user deletes an access point, or takes a proxy into use.
UserEdits ==
    \E id \in DOMAIN db :
        \/ Elsewhere(Without(db, {id}), NamesOf(id))
        \/ Elsewhere([db EXCEPT ![id].on = TRUE], NamesOf(id))

Next == UpdateLeaf \/ AddNode \/ Delete \/ Fetch \/ List \/ Other \/ Complete \/ EndSession \/ UserEdits

Spec == Init /\ [][Next]_dmVars

------------------------------------------------------------------------------
(* The part of the common properties that is this adapter's. *)

Held == {mem[i].ref : i \in DOMAIN mem}

\* Whether a Get returns what the server was told.  A proxy that is not in use has
\* no leaves; an update of a name that is made of an id other than the engine's goes
\* to another record than a Get.
Kept(name, leaf, text) ==
    LET id == Luid(map, name)
        moved == name \in DOMAIN IdInName /\ id \notin {NoLuid, IdInName[name]}
    IN  moved \/ ByLuid(name, id) \notin DOMAIN db \/
            LET r == db[ByLuid(name, id)]
            IN  CASE name \in Naps /\ leaf \in NapTexts \cup NapFlags ->
                        leaf \in DOMAIN r.nap /\ r.nap[leaf] = text
                  [] name \in Proxies /\ leaf \in ProxyTexts \cup {"PortNbr"} ->
                        r.on => leaf \in DOMAIN r.proxy /\ r.proxy[leaf] = text
                  [] OTHER -> TRUE
==============================================================================
