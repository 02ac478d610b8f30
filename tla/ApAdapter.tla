------------------------------ MODULE ApAdapter ------------------------------
(***************************************************************************)
(* The adapter of internet access points (CNSmlInternetAdapter): the       *)
(* subtree AP/<name> with one NAPDef (the access point and its service)    *)
(* and one Px (its proxy).  The records are those of CommsDat: an IAP      *)
(* record refers to a service record and to a network; proxies refer to    *)
(* the service; WAP settings to the IAP; the linger time is in a           *)
(* repository.                                                             *)
(*                                                                         *)
(* New access points wait in a buffer, one element per name: as soon as    *)
(* the name, the bearer and the direction have come, the element's         *)
(* commands are run, the last one first, and the record is made in the     *)
(* middle of that; what comes later for the element runs at once.          *)
(* Leaves of known access points wait for CompleteOutstandingCmdsL.        *)
(*                                                                         *)
(* The name of a node is <<access point, node>>; an object is a record:    *)
(* its text; num, the number it is, -1 for none; and host, "v4" or "v6".   *)
(***************************************************************************)
EXTENDS DmAdapter, FiniteSetsExt, TLC

CONSTANTS
    Aps,            \* names of access points
    Predefined,     \* names made of a number (APId001) -> the number
    Leaves,         \* the leaves the server uses,
    Early,          \* and those it sends before the access point is made
    Used,           \* the nodes the server adds, and whose children it lists
    Objects,        \* leaf -> the objects it is sent
    InitialDb,
    Ids,            \* bound: the ids of records
    MaxOpen         \* bound: commands that are unanswered at a time

\* The nodes, each with the one it is below.
Up == [n \in {"NAPDefs", "Pxs"} |-> "AP"] @@ "NAPDef" :> "NAPDefs" @@ "Px" :> "Pxs" @@
      [n \in {"Bearers", "DNSAddrs", "NAPAuthInfs", "Networks"} |-> "NAPDef"] @@
      [n \in {"Ports", "Domains", "NoPxFors", "PxAuthInfs", "ToNAPIDs"} |-> "Px"] @@
      "Bearer" :> "Bearers" @@ "DNSAddr" :> "DNSAddrs" @@ "NAPAuthInf" :> "NAPAuthInfs" @@
      "Network" :> "Networks" @@ "Port" :> "Ports" @@ "Domain" :> "Domains" @@
      "NoPxFor" :> "NoPxFors" @@ "PxAuthInf" :> "PxAuthInfs" @@ "ToNAPID" :> "ToNAPIDs"
Nodes == DOMAIN Up \cup {"AP"}
BelowPx == {"Px", "Ports", "Port", "Domains", "Domain", "NoPxFors", "NoPxFor", "PxAuthInfs",
            "PxAuthInf", "ToNAPIDs", "ToNAPID"}
PxNodes == BelowPx \cup {"Pxs"}
NapNodes == Nodes \ (PxNodes \cup {"AP"})

\* DDFStructureL: the leaves of the nodes.
NapLeafOf ==
    [l \in {"Name", "NAPLinger", "Startpg", "NAPAddr", "NAPAddrTy", "DefGW", "NetworkMask",
            "UsePTxtLog"} |-> "NAPDef"] @@
    [l \in {"BearerL", "Direction"} |-> "Bearer"] @@ [l \in {"DNSAddrL", "DNSPriority"} |-> "DNSAddr"] @@
    [l \in {"AuthName", "AuthSecr"} |-> "NAPAuthInf"] @@ [l \in {"NwName", "NwID"} |-> "Network"]
IpLeafOf ==
    [l \in {"PPPComp", "GPRSPDP", "IPAddrFromServer", "IPAddr", "DNSAddrFromServer",
            "IPv6DNSAddrFromServer", "IfNetworks", "IAPService", "IAPSeamlessness",
            "IAPMetaData"} |-> "NAPDef"]
PxLeafOf ==
    [l \in {"PxName", "PxId", "PxPW", "PxAddr", "PxStartpg"} |-> "Px"] @@ "PortNbr" :> "Port" @@
    "DomainL" :> "Domain" @@ "NoPxForL" :> "NoPxFor" @@ [l \in {"PxAuthId", "PxAuthPW"} |-> "PxAuthInf"]
LeafOf == NapLeafOf @@ IpLeafOf @@ PxLeafOf
AddOnly == {"BearerL", "Direction"}

\* LUIDs: of an access point and below, the number of a record; of a proxy, above
\* ProxyBase (KNSmlApProxyLowerBase); of a name server, above DnsBase.  A negative
\* one is given to commands of the buffer that are only to be answered.
ProxyBase == 100
DnsBase == 200
Incomplete == -2

\* IntLUID.
IntLUID(luid) ==
    CASE luid = NoLuid -> 0
      [] luid > ProxyBase /\ luid < DnsBase -> luid - ProxyBase
      [] OTHER -> luid

\* DnsToLuid, LuidToDns.
Kinds == <<"v4", "v6">>
DnsToLuid(host, pri) == DnsBase + 10 * (IF host = "v4" THEN 0 ELSE 1) + pri
IsDns(luid) == \E host \in {"v4", "v6"}, pri \in {1, 2} : luid = DnsToLuid(host, pri)
LuidToDns(luid) ==
    [host |-> Kinds[(luid - DnsBase) \div 10 + 1], pri |-> (luid - DnsBase) % 10]
Server(host, pri) == "DNS" \o ToString(pri + IF host = "v4" THEN 0 ELSE 2)

\* The engine passes the LUID of a node, or the one it inherits from those above.
Inherited(m, name) ==
    LET luid[n \in Nodes] ==
            IF <<name[1], n>> \in DOMAIN m THEN m[<<name[1], n>>]
            ELSE IF n = "AP" THEN NoLuid ELSE luid[Up[n]]
    IN  luid[name[2]]

NamesOf(ap) == {ap} \X Nodes
RemoveTree(x, ap) == [x EXCEPT !.map = Without(@, NamesOf(ap))]

------------------------------------------------------------------------------
(* Records. *)

Iap(name, type, isp) == [name |-> name, type |-> type, isp |-> isp, net |-> 0, more |-> << >>]
NewId(f) == Min((1 .. Cardinality(DOMAIN f) + 1) \ DOMAIN f)
Room(f) == Ids \ DOMAIN f # {}
Gprs == {"OutgoingGPRS", "IncomingGPRS"}

\* APExistsL, NAPDefExistsL, PxExistsL, WapAPExistsL, NetworkExistsL.
APExists(x, id) == id \in DOMAIN x.db.iap
NAPDefExists(x, id) ==
    \E i \in DOMAIN x.db.iap : x.db.iap[i].isp = id /\ <<x.db.iap[i].type, id>> \in DOMAIN x.db.svc
PxExists(x, id) == id \in DOMAIN x.db.px
WapAPExists(x, id) == id \in DOMAIN x.db.wap
NetworkExists(x, id) == id \in DOMAIN x.db.nets

\* The proxies that refer to the service of an access point.
ProxiesOf(x, id) ==
    {p \in DOMAIN x.db.px : x.db.px[p].type = x.db.iap[id].type /\ x.db.px[p].isp = x.db.iap[id].isp}

\* ConstructTreeL: the access points that have no name get one, with what is below.
Names == Aps \X Nodes
NameOf(id) == CHOOSE ap \in DOMAIN Predefined : Predefined[ap] = id
Servers(x, id) ==
    {luid \in {DnsToLuid(host, pri) : host \in {"v4", "v6"}, pri \in {1, 2}} :
        Server(LuidToDns(luid).host, LuidToDns(luid).pri) \in DOMAIN x.db.svc[<<x.db.iap[id].type, x.db.iap[id].isp>>]}
Below(x, ap, id) ==
    (<<ap, "NAPDef">> :> x.db.iap[id].isp) @@
    (IF NetworkExists(x, x.db.iap[id].net) THEN <<ap, "Network">> :> x.db.iap[id].net ELSE << >>) @@
    (IF NetworkExists(x, x.db.iap[id].isp) THEN <<ap, "Bearer">> :> x.db.iap[id].isp ELSE << >>) @@
    (IF ProxiesOf(x, id) # {} THEN <<ap, "Px">> :> ProxyBase + Min(ProxiesOf(x, id))
                                   @@ <<ap, "Port">> :> 1 ELSE << >>)
ConstructOne(x, id) ==
    IF <<NameOf(id), "AP">> \in DOMAIN x.map THEN x
    ELSE [x EXCEPT !.map = (<<NameOf(id), "AP">> :> id) @@ Below(x, NameOf(id), id) @@ @]
ConstructTree(x) == FoldSet(LAMBDA id, y : ConstructOne(y, id), x, DOMAIN x.db.iap)

\* GetAPIdFromURIL: the last access point that was found is cached.
Cached(x, ap) == x.mem.prev.ap = ap
APId(x, ap) ==
    IF Cached(x, ap) THEN x.mem.prev.luid ELSE IntLUID(Luid(x.map, <<ap, "AP">>))
GetAPId(x, ap) ==
    IF APId(x, ap) = 0 THEN x ELSE [x EXCEPT !.mem.prev = [ap |-> ap, luid |-> APId(x, ap)]]
NoPrev == [ap |-> "", luid |-> 0]
Forget(x) == [x EXCEPT !.mem.prev = NoPrev]

\* An access point with a name made of a number may be there without the engine
\* knowing it (IsAPUriFormatMatchPredefined).
Found(x, ap) ==
    GetAPId(IF APId(x, ap) = 0 /\ ap \in DOMAIN Predefined THEN ConstructTree(x) ELSE x, ap)

\* GetProxyIdL, on a state in which the access point was looked for.
ProxyOf(x, ap) ==
    IF APExists(x, APId(x, ap)) /\ ProxiesOf(x, APId(x, ap)) # {} THEN Min(ProxiesOf(x, APId(x, ap)))
    ELSE 0

------------------------------------------------------------------------------
(* The buffer. *)

\* NextAPNameL: a name that no access point has.
NextName(x, ap) == IF \E i \in DOMAIN x.db.iap : x.db.iap[i].name = ap THEN ap \o "(1)" ELSE ap

\* A command: a node (without a leaf), or a leaf with an object.
NoObject == [text |-> "", num |-> -1, host |-> ""]
Command(name, leaf, obj, ref, luid) ==
    [name |-> name, leaf |-> leaf, obj |-> obj, ref |-> ref, luid |-> luid]
NodeCommand(name, ref, luid) == Command(name, "", NoObject, ref, luid)

\* An element: dns says that a leaf made it; bearer, dir and named, what has come;
\* luid, what the record that was made is known by.
Element(ap, name, dns) ==
    [ap |-> ap, name |-> name, dns |-> dns, bearer |-> FALSE, dir |-> FALSE, named |-> FALSE,
     luid |-> 0, cmds |-> << >>]
IndexOf(x, ap) == SelectInSeq(x.mem.buf, LAMBDA e : e.ap = ap)
HasElement(x, ap) == IndexOf(x, ap) # 0
NoServers == [host \in {"v4", "v6"} |-> 0]
NewElement(x, ap, dns) ==
    [x EXCEPT !.mem.buf = Append(@, Element(ap, NextName(x, ap), dns)), !.mem.name = NextName(x, ap),
              !.mem.dns = IF dns THEN NoServers ELSE @]

\* AddNodeBufferL.
AddToElement(x, k, c) == [x EXCEPT !.mem.buf[k].cmds = Append(@, c)]
WithElement(x, ap, dns) == IF HasElement(x, ap) THEN x ELSE NewElement(x, ap, dns)
AddNodeTo(x, c) == AddToElement(x, IndexOf(x, c.name[1]), c)
AddNodeBuffer(x, c) == AddNodeTo(WithElement(x, c.name[1], FALSE), c)

\* AddLeafBufferL makes an element when there is none, and then puts the leaf into
\* the first one, whichever that is.
BufferIndex(x, ap) == IF HasElement(x, ap) THEN IndexOf(x, ap) ELSE 1
Bearers == {"GSM-GPRS", "3GPPPS", "VPN", "WLAN"}
Flags(x, k, c) ==
    CASE c.leaf = "BearerL" /\ c.obj.text \in Bearers -> [x EXCEPT !.mem.buf[k].bearer = TRUE]
      [] c.leaf = "Direction" -> [x EXCEPT !.mem.buf[k].dir = TRUE]
      [] c.leaf = "Name" ->
            [x EXCEPT !.mem.buf[k].named = TRUE, !.mem.buf[k].name = c.obj.text,
                      !.mem.name = c.obj.text, !.mem.exists = FALSE]
      [] OTHER -> x

\* A name for an access point that has another one ends the engine's mapping of it,
\* when a leaf was written before; else it is an update.
Renames(x, c, id) == x.db.iap[id].name # c.obj.text /\ x.mem.isAdd
NameComes(x, c, id) ==
    CASE c.leaf # "Name" \/ ~APExists(x, id) -> x
      [] Renames(x, c, id) -> Forget(RemoveTree(x, c.name[1]))
      [] OTHER -> [x EXCEPT !.mem.exists = TRUE, !.mem.leafType = "Update"]
PutLeaf(x, k, c) ==
    NameComes(Flags(AddToElement(x, k, c), k, c), c, IntLUID(Luid(x.map, <<c.name[1], "AP">>)))
BufferLeaf(x, c) ==
    PutLeaf(WithElement(x, c.name[1], TRUE), BufferIndex(x, c.name[1]), c)

\* The three values that make a new access point.
Whole(e) == e.dir /\ e.bearer /\ e.named

------------------------------------------------------------------------------
(* AddLeafObjectL, the fields. *)

\* GetAPFieldType and GetAPField: some have a column only in services of a kind.
Kind ==
    [l \in {"AuthName", "NwName", "PxName", "NAPAddr", "PxAddr", "DNSAddrL", "DNSPriority", "AuthSecr",
            "PxPW", "DefGW", "NetworkMask", "DomainL", "IPAddr", "IfNetworks"} |-> "Str"] @@
    [l \in {"PxId", "NAPAddrTy", "NwID", "GPRSPDP", "IAPSeamlessness", "IAPMetaData"} |-> "Int"] @@
    [l \in {"Startpg", "PxStartpg", "PxAuthId", "PxAuthPW"} |-> "Wap"] @@
    [l \in {"DNSAddrFromServer", "IPv6DNSAddrFromServer", "UsePTxtLog", "PPPComp",
            "IPAddrFromServer"} |-> "Bool"] @@
    [l \in {"Name", "BearerL", "Direction", "NoPxForL", "IAPService"} |-> "Spec"]
HasColumn(leaf, type) ==
    CASE leaf \in {"AuthName", "AuthSecr", "UsePTxtLog", "PPPComp", "GPRSPDP"} -> type \in Gprs
      [] leaf = "NAPAddr" -> type \in Gprs \cup {"LAN"}
      [] leaf \in {"NAPAddrTy", "PxPW"} -> FALSE
      [] OTHER -> TRUE

\* IsWapPort.
IsWapPort(c) == c.leaf = "PortNbr" /\ c.obj.num \in 9200 .. 9203
KindOf(c) ==
    CASE c.leaf = "PortNbr" -> IF IsWapPort(c) THEN "Wap" ELSE "Int"
      [] c.leaf \in DOMAIN Kind -> Kind[c.leaf]
      [] OTHER -> "Wrong"

EOk(x, c) == SetStatus(x, c.ref, "EOk")

\* AddNetworkL.
AddNetwork(x, id, text) == [x EXCEPT !.db.nets = With(@, id, text)]

\* The name of the network: that of the access point, or a new one, which an access
\* point that is made later gets.
NetworkOf(x, ap) ==
    IF APExists(x, APId(x, ap)) /\ NetworkExists(x, x.db.iap[APId(x, ap)].net)
    THEN x.db.iap[APId(x, ap)].net ELSE NewId(x.db.nets)
Belongs(x, id, net) == IF APExists(x, id) THEN [x EXCEPT !.db.iap[id].net = net] ELSE x
SetNetworkName(x, c, id, net) ==
    EOk([Belongs(AddNetwork(x, net, c.obj.text), id, net) EXCEPT !.mem.net = net], c)

\* The texts of a proxy.
Protocols == {"", "http", "https", "ftp", "ftps"}
SetProxyText(x, c, p) ==
    CASE ~PxExists(x, p) -> SetStatus(x, c.ref, "ENotFound")
      [] c.leaf = "DomainL" /\ c.obj.text \notin Protocols -> SetStatus(x, c.ref, "EError")
      [] c.leaf = "PxName" -> EOk(x, c)
      [] OTHER -> EOk([x EXCEPT !.db.px[p].f = With(@, c.leaf, c.obj.text)], c)

\* UpdateIAPnameL: the access point, and its WAP settings, which are made if there
\* are none.  A network is made for one that has none.
NamedWap(x, id, text) ==
    IF WapAPExists(x, id) THEN [x EXCEPT !.db.wap[id] = With(@, "Name", text)]
    ELSE [x EXCEPT !.db.wap = With(@, id, "Name" :> text), !.mem.isp = id]
NamedNet(x, id, text) ==
    IF x.db.iap[id].net # 0 THEN x
    ELSE [AddNetwork(x, NewId(x.db.nets), text) EXCEPT !.db.iap[id].net = NewId(x.db.nets)]
UpdateIAPname(x, id, text) ==
    NamedWap(IF APExists(x, id) THEN [NamedNet(x, id, text) EXCEPT !.db.iap[id].name = text] ELSE x,
             id, text)

\* A name server: its place is that of the LUID, or the next one of its kind.
\* (No priority waits in the buffer: the server does not send any.)
Place(x, c, luid) ==
    IF IsDns(luid) THEN LuidToDns(luid).pri ELSE (x.mem.dns[c.obj.host] % 2) + 1
SetServer(x, c, svc, luid) ==
    IF c.obj.host \notin {"v4", "v6"} THEN SetStatus(x, c.ref, "EError")
    ELSE EOk(SetMapping(
            [x EXCEPT !.db.svc[svc] = With(@, Server(c.obj.host, Place(x, c, luid)), c.obj.text),
                      !.mem.dns[c.obj.host] = IF IsDns(luid) THEN @ ELSE Place(x, c, luid)],
            c.name, DnsToLuid(c.obj.host, Place(x, c, luid))), c)

\* The texts of the service.  Those that are written when they are added, too:
Added == {"AuthName", "NAPAddr", "GPRSPDP", "DNSAddrL", "AuthSecr", "DefGW", "NetworkMask", "IPAddr",
          "NAPAddrTy"}
PdpTypes == {"IPv4", "IPv6", "PPP"}
SetServiceText(x, c, svc, luid) ==
    CASE svc \notin DOMAIN x.db.svc -> SetStatus(x, c.ref, "ENotFound")
      [] c.leaf = "GPRSPDP" /\ c.obj.text \notin PdpTypes -> SetStatus(x, c.ref, "EError")
      [] c.leaf = "DNSAddrL" -> SetServer(x, c, svc, luid)
      [] c.leaf = "NAPAddr" /\ svc[1] = "LAN" /\ c.obj.host # "v4" -> SetStatus(x, c.ref, "EInvalidObject")
      [] OTHER -> EOk([x EXCEPT !.db.svc[svc] = With(@, c.leaf, c.obj.text)], c)
ServiceOf(x, id) == <<x.db.iap[id].type, x.db.iap[id].isp>>
WithService(x, id) == [x EXCEPT !.mem.isp = x.db.iap[id].isp]
SetService(x, c, id, luid) ==
    IF APExists(x, id) THEN SetServiceText(WithService(x, id), c, ServiceOf(x, id), luid)
    ELSE SetStatus(x, c.ref, "ENotFound")

\* Texts, and the types of the packet data protocol.
SetStr(x, c, id, p, luid) ==
    CASE c.leaf = "NwName" -> SetNetworkName(x, c, id, NetworkOf(x, c.name[1]))
      [] c.leaf \in {"PxAddr", "DomainL"} \/ (c.leaf = "PxName" /\ x.mem.leafType = "Update") ->
            SetProxyText(x, c, p)
      [] x.mem.leafType = "Update" \/ c.leaf \in Added -> SetService(x, c, id, luid)
      [] OTHER -> EOk(x, c)

\* Flags of the service.
IsTrue(c) == c.obj.text = "True"
Flag(c) == IF IsTrue(c) = (c.leaf # "UsePTxtLog") THEN "True" ELSE "False"
SetBool(x, c, id) ==
    CASE ~APExists(x, id) -> SetStatus(x, c.ref, "ENotFound")
      [] ServiceOf(x, id) \notin DOMAIN x.db.svc -> SetStatus(WithService(x, id), c.ref, "EError")
      [] OTHER ->
            EOk([WithService(x, id) EXCEPT !.db.svc[ServiceOf(x, id)] = With(@, c.leaf, Flag(c))], c)

\* Numbers: attributes of the connection manager (SetIAPSeamlessnessL,
\* SetIAPMetaDataL; GetIAPSeamlessnessL, GetIAPMetaDataL), which the record has, and
\* the port of the proxy.  The transaction is committed before and begun again.
Attributes == {"IAPSeamlessness", "IAPMetaData"}
SetAttribute(x, id, c) == EOk([x EXCEPT !.db.iap[id].more = With(@, c.leaf, c.obj.text)], c)
SetInt(x, c, id) ==
    CASE c.leaf \in Attributes /\ APExists(x, id) -> SetAttribute(x, id, c)
      [] c.leaf = "PortNbr" /\ ProxyOf(x, c.name[1]) # 0 ->
            EOk([x EXCEPT !.db.px[ProxyOf(x, c.name[1])].f = With(@, "PortNbr", c.obj.text)], c)
      [] OTHER -> SetStatus(x, c.ref, "EError")

\* WAP settings: until the access point is made they wait in the buffer.
Page(leaf) == IF leaf = "PxStartpg" THEN "Startpg" ELSE leaf
StoreWap(x, c, id) == EOk([x EXCEPT !.db.wap[id] = With(@, Page(c.leaf), c.obj.text)], c)
NewWap(x, c, id) ==
    EOk([x EXCEPT !.mem.isp = id,
                  !.db.wap = With(@, id, ("Name" :> x.mem.name) @@
                                         (IF c.leaf = "PortNbr" THEN << >> ELSE Page(c.leaf) :> c.obj.text))], c)
SetWap(x, c, id) ==
    CASE id < 1 -> BufferLeaf(x, c)
      [] WapAPExists(x, id) -> StoreWap(x, c, id)
      [] OTHER -> NewWap(x, c, id)

------------------------------------------------------------------------------
(* AddLeafObjectL, a new access point. *)

\* Direction, bearer and name are kept, the name of a known access point is written.
Incoming(x, text) == text # "Outgoing"
Type(x, text) ==
    CASE text \in {"GSM-GPRS", "3GPPPS"} -> IF x.mem.dir = "In" THEN "IncomingGPRS" ELSE "OutgoingGPRS"
      [] text = "VPN" -> "VPN"
      [] text = "WLAN" -> "LAN"
SetDirection(x, c) ==
    IF ~Incoming(x, c.obj.text) THEN [x EXCEPT !.mem.dir = "Out"]
    ELSE [x EXCEPT !.mem.dir = "In", !.mem.bearer = IF @ = "OutgoingGPRS" THEN "IncomingGPRS" ELSE @]
SetName(x, c, id) ==
    IF id > 0 THEN UpdateIAPname([x EXCEPT !.mem.name = c.obj.text], id, c.obj.text)
    ELSE [x EXCEPT !.mem.name = c.obj.text]
SetSpec(x, c, id) ==
    CASE c.leaf = "Direction" -> SetDirection(x, c)
      [] c.leaf = "BearerL" -> [x EXCEPT !.mem.bearer = Type(x, c.obj.text)]
      [] c.leaf = "Name" -> SetName(x, c, id)

\* What ends the command already: an unknown bearer, a service, and the hosts
\* without the proxy.
SetNoPxFor(x, c, p) ==
    IF p = 0 THEN SetStatus(x, c.ref, "EError")
    ELSE EOk([x EXCEPT !.db.px[p].f = With(@, "NoPxForL", c.obj.text)], c)
Ends(c) ==
    \/ c.leaf \in {"IAPService", "NoPxForL"}
    \/ c.leaf = "BearerL" /\ c.obj.text \notin Bearers
EndSpec(x, c) ==
    IF c.leaf = "NoPxForL" THEN SetNoPxFor(x, c, ProxyOf(x, c.name[1]))
    ELSE SetStatus(x, c.ref, "EError")

\* IsInsertAllowedL: no service of the bearer has the name.
IsInsertAllowed(x) ==
    /\ x.mem.name # "" /\ x.mem.bearer # "" /\ x.mem.dir # ""
    /\ \A s \in DOMAIN x.db.svc : s[1] = x.mem.bearer => x.db.svc[s]["Name"] # x.mem.name

\* GetMaxIdL.
MaxId(x) == Max({s[2] : s \in {s \in DOMAIN x.db.svc : s[1] = x.mem.bearer}} \cup {0})

\* SaveIAPDataL: the record of the access point that is known (and is there), or a
\* new one.
Networked(x, id) == IF x.mem.net = 0 THEN x ELSE [x EXCEPT !.db.iap[id].net = x.mem.net]
Rewrite(x, id, isp) ==
    Networked([x EXCEPT !.db.iap[id].name = x.mem.name, !.db.iap[id].isp = isp,
                        !.db.iap[id].type = x.mem.bearer], id)
SaveIAPData(x, ap, id, isp) ==
    SetMapping(Networked([x EXCEPT !.db.iap = With(@, id, Iap(x.mem.name, x.mem.bearer, isp)),
                                   !.mem.exists = TRUE, !.mem.iapId = id], id), <<ap, "AP">>, id)
SaveIAP(x, ap, isp) ==
    IF x.mem.exists THEN Rewrite(x, x.mem.iapId, isp)
    ELSE SaveIAPData(x, ap, NewId(x.db.iap), isp)

\* InitializeVPNServiceL, InitializeLANServiceL; InitializeGPRSL.
NewNamed(x) == "Name" :> x.mem.name
NewService(x) ==
    IF x.mem.bearer \in Gprs THEN [l \in {"Name", "NAPAddr"} |-> x.mem.name] @@ "GPRSPDP" :> "IPv4"
    ELSE NewNamed(x)
Insert(x, c, isp) ==
    LET saved == GetAPId(SaveIAP(x, c.name[1], isp), c.name[1])
        made == [saved EXCEPT !.db.svc = With(@, <<x.mem.bearer, isp>>, NewService(x)), !.mem.isp = isp]
        named == UpdateIAPname(made, APId(made, c.name[1]), x.mem.name)
    IN  EOk([named EXCEPT
                !.map = (<<c.name[1], "NAPDef">> :> isp) @@
                        (IF c.name[2] = "Bearer" THEN <<c.name[1], "Bearer">> :> isp ELSE << >>) @@ @], c)
EndOfSpec(x, c) ==
    IF IsInsertAllowed(x) /\ x.mem.leafType = "Add" THEN Insert(x, c, MaxId(x) + 1) ELSE EOk(x, c)

------------------------------------------------------------------------------
(* AddLeafObjectL from the check of the LUID on. *)

\* The linger time (LingerValueL, DeleteLingerL): AddLingerL and UpdateLingerL do
\* the same.
AddLinger(x, id, text) == [x EXCEPT !.db.linger = With(@, id, text)]
SetLinger(x, c, id) ==
    CASE c.obj.text = "" -> EOk([x EXCEPT !.db.linger = Without(@, {id})], c)
      [] c.obj.num >= 0 -> EOk(AddLinger(x, id, c.obj.text), c)
      [] OTHER -> SetStatus(x, c.ref, "EError")

\* The proxy a text is for: the LUID's, or that of the access point; else the LUID
\* itself is taken for its number.
ProxyFor(x, c, luid) ==
    CASE luid > ProxyBase /\ luid < DnsBase -> luid - ProxyBase
      [] luid = NoLuid -> ProxyOf(x, c.name[1])
      [] OTHER -> IntLUID(luid)

Field(x, c, id, luid, kind) ==
    CASE kind = "Str" \/ c.leaf = "GPRSPDP" -> SetStr(x, c, id, ProxyFor(x, c, luid), luid)
      [] kind = "Bool" -> SetBool(x, c, id)
      [] kind = "Int" -> SetInt(x, c, id)
      [] kind = "Wap" -> SetWap(x, c, id)
      [] Ends(c) -> EndSpec(x, c)
      [] OTHER -> EndOfSpec(SetSpec(x, c, id), c)

\* Every leaf is an addition but the updates.
AsLeafType(x) ==
    IF x.mem.leafType = "Update" /\ ~x.mem.stale THEN x ELSE [x EXCEPT !.mem.leafType = "Add"]
TypeOf(x, id, parent) == IF parent > 0 THEN x.db.iap[id].type ELSE ""
Typed(x, c, id, luid, parent) ==
    CASE parent > 0 /\ ~APExists(x, id) -> SetStatus(x, c.ref, "ENotFound")
      [] KindOf(c) = "Wrong" -> SetStatus(x, c.ref, "EError")
      [] ~HasColumn(c.leaf, TypeOf(x, id, parent)) -> EOk(x, c)
      [] OTHER -> Field([x EXCEPT !.mem.isp = parent], c, id, luid, KindOf(c))
WriteLeaf(x, c, luid, parent) ==
    CASE parent = Incomplete -> SetStatus(x, c.ref, "EError")
      [] c.leaf = "NAPLinger" -> SetLinger(x, c, APId(x, c.name[1]))
      [] OTHER -> Typed(AsLeafType(GetAPId(x, c.name[1])), c, APId(x, c.name[1]), luid, parent)

\* The access point of a leaf without a LUID is looked for.
Sought(x, c, luid) ==
    LET y == [x EXCEPT !.mem.isAdd = TRUE] IN IF luid = NoLuid THEN Found(y, c.name[1]) ELSE y
Parent(x, c, luid) == IF luid = NoLuid THEN APId(x, c.name[1]) ELSE IntLUID(luid)

\* A leaf of the buffer.
WriteSought(x, c, luid) == WriteLeaf(x, c, luid, Parent(x, c, luid))
RunLeaf(x, c, luid) == WriteSought(Sought(x, c, luid), c, luid)
------------------------------------------------------------------------------
(* ExecuteBufferL. *)

\* A proxy (InitializeProxyL): it refers to the service of the access point.
InsertProxy(x, c, id) ==
    IF ~Room(x.db.px) THEN SetStatus(x, c.ref, "EError")
    ELSE EOk(SetMapping(
            [x EXCEPT !.db.px = With(@, NewId(x.db.px),
                [type |-> x.db.iap[id].type, isp |-> x.db.iap[id].isp, f |-> << >>])],
            c.name, ProxyBase + NewId(x.db.px)), c)

\* AddNodeObjectL of a command of the buffer.  A node below an access point that is
\* gone is put into the buffer again, which is cleared.
Again(x, c) == [AddNodeBuffer(x, c) EXCEPT !.mem.stale = TRUE]
OfRecord == {"AP", "NAPDefs", "NAPDef", "Bearers", "Bearer"}
RunProxy(x, c, id) ==
    CASE ProxyOf(x, c.name[1]) # 0 -> SetStatus(x, c.ref, "EAlreadyExists")
      [] APExists(x, id) -> InsertProxy(x, c, id)
      [] id > 0 -> Again(x, c)
      [] OTHER -> SetStatus(x, c.ref, "ENotFound")
RunOfRecord(x, c, id) ==
    CASE APExists(x, id) -> SetStatus(x, c.ref, "EAlreadyExists")
      [] id = 0 -> SetStatus(x, c.ref, "ENotFound")
      [] OTHER -> Again(x, c)
RunFound(x, c, luid, id) ==
    CASE luid < 0 -> EOk(x, c)
      [] c.name[2] \in OfRecord -> RunOfRecord(x, c, id)
      [] c.name[2] = "Px" -> RunProxy(x, c, id)
      [] c.name[2] = "Pxs" /\ luid = 0 -> SetStatus(x, c.ref, "EError")
      [] c.name[2] \in PxNodes /\ id > 0 /\ ~APExists(x, id) -> Again(x, c)
      [] OTHER -> EOk(x, c)
RunNode(x, c, luid) ==
    IF x.mem.leafType = "Update" THEN SetStatus(x, c.ref, "EAlreadyExists")
    ELSE RunFound(GetAPId(x, c.name[1]), c, luid, APId(x, c.name[1]))

\* A node is run with a LUID that says whether there is a record; a leaf with the
\* record, its own LUID (of an element that a leaf made), or as one too early.
NodeLuid(e) == IF e.luid > 0 THEN Incomplete ELSE 0
LeafLuid(e, c) == CASE e.dns -> c.luid [] Whole(e) -> e.luid [] OTHER -> Incomplete
Recorded(x, k) == IF x.mem.buf[k].luid = 0 THEN [x EXCEPT !.mem.buf[k].luid = x.mem.isp] ELSE x
Run(x, k, c, luid) ==
    IF c.leaf = "" THEN RunNode(x, c, luid) ELSE Recorded(RunLeaf(x, c, luid), k)
LuidOf(e, c) == IF c.leaf = "" THEN NodeLuid(e) ELSE LeafLuid(e, c)

\* The first pass, backwards, over what is not a proxy's: it leaves the names of
\* networks to the second one, forwards, when there was no record yet.
Late(c, luid) == c.leaf = "NAPAddr" /\ IntLUID(luid) = 0
First(s, k, i) ==
    LET c == s.x.mem.buf[k].cmds[i]
        luid == LuidOf(s.x.mem.buf[k], c)
    IN  IF c.name[2] \in PxNodes THEN s
        ELSE [x |-> Run(s.x, k, c, luid), done |-> IF Late(c, luid) THEN s.done ELSE s.done \cup {i}]
SecondLuid(e, c) ==
    CASE c.leaf = "" -> NodeLuid(e) [] e.dir /\ e.bearer -> e.luid [] OTHER -> Incomplete
Second(x, k, c) ==
    Run(IF c.leaf = "" THEN x ELSE [x EXCEPT !.mem.name = x.mem.buf[k].name], k, c,
        SecondLuid(x.mem.buf[k], c))

\* Backwards, then forwards.
Backwards(x, k) ==
    FoldLeft(LAMBDA s, i : First(s, k, Len(x.mem.buf[k].cmds) + 1 - i), [x |-> x, done |-> {}],
             [i \in 1 .. Len(x.mem.buf[k].cmds) |-> i])
Forwards(s, k) ==
    FoldLeft(LAMBDA y, i : IF i \in s.done THEN y ELSE Second(y, k, y.mem.buf[k].cmds[i]), s.x,
             [i \in 1 .. Len(s.x.mem.buf[k].cmds) |-> i])
Executed(x, k, completing) ==
    [x EXCEPT !.mem.stale = FALSE,
              !.mem.buf = IF completing THEN RemoveAt(@, k) ELSE [@ EXCEPT ![k].cmds = << >>]]
ExecuteBuffer(x, k, completing) ==
    Executed(Forwards(Backwards([x EXCEPT !.mem.isp = 0], k), k), k, completing)

\* AddLeafBufferL, when no command of the buffer runs.
ExecuteWhole(x, k) ==
    IF Whole(x.mem.buf[k]) THEN ExecuteBuffer([x EXCEPT !.mem.bearer = "", !.mem.dir = ""], k, FALSE) ELSE x
AddLeafBuffer(x, c) == ExecuteWhole(BufferLeaf(x, c), BufferIndex(x, c.name[1]))

------------------------------------------------------------------------------
(* The commands of the server. *)

\* AddLeafObjectL.  A leaf of a proxy that is not there gets no answer; the names
\* of servers, and what is for an access point that is not there, wait.
Drop(x, c) == [x EXCEPT !.mem.dropped = @ \cup {c.ref}]
AddSought(x, c, luid, parent) ==
    CASE parent = 0 \/ c.leaf \in {"DNSAddrL", "DNSPriority"} ->
            AddLeafBuffer([x EXCEPT !.mem.leafType = "Unset"], c)
      [] parent > 0 /\ ~APExists(x, APId(x, c.name[1])) ->
            [AddLeafBuffer(x, c) EXCEPT !.mem.stale = TRUE]
      [] OTHER -> WriteLeaf(x, c, luid, parent)
AddLeafObject(x, c, luid) ==
    IF luid = NoLuid /\ c.name[2] \in BelowPx /\ ProxyOf(x, c.name[1]) = 0 THEN Drop(x, c)
    ELSE LET y == Sought(x, c, luid) IN AddSought(y, c, luid, Parent(y, c, luid))

\* UpdateLeafObjectL: unless the database stays locked (`locked`).
UpdateLeafObject(x, c, luid, locked) ==
    CASE locked -> SetStatus(x, c.ref, "EError")
      [] luid # NoLuid /\ c.name[2] \in NapNodes -> AddLeafBuffer(x, c)
      [] OTHER ->
            [AddLeafObject([x EXCEPT !.mem.leafType = "Update"], c, luid) EXCEPT !.mem.leafType = "Unset"]

\* AddNodeObjectL, for a node whose LUID is known (the others wait): the nodes that
\* need no record are made at once.
AddOfRecord(x, c, id) ==
    CASE APExists(x, id) -> AddNodeBuffer(x, c)
      [] id = 0 -> SetStatus(x, c.ref, "ENotFound")
      [] OTHER -> Again(x, c)
AddKnown(x, c, luid, id) ==
    CASE c.name[2] \in OfRecord -> AddOfRecord(x, c, id)
      [] c.name[2] \in PxNodes /\ luid = NoLuid -> AddNodeBuffer(x, c)
      [] OTHER -> RunFound(x, c, luid, id)
AddNode(x, c, luid) ==
    IF luid = NoLuid /\ c.name[2] \in OfRecord THEN AddNodeBuffer(x, c)
    ELSE AddKnown(x, c, luid, APId(x, c.name[1]))

\* The mapping of an access point that is gone is removed first; `full` says that
\* the disk has no room for a new one.
Gone(x, ap, luid) == IntLUID(luid) > 0 /\ ~APExists(x, APId(x, ap))
AddUnmapped(x, c, full) == IF full THEN SetStatus(x, c.ref, "EDiskFull") ELSE AddNode(x, c, NoLuid)
AddNodeObject(x, c, luid, full) ==
    CASE Gone(GetAPId(x, c.name[1]), c.name[1], luid) -> AddUnmapped(Forget(RemoveTree(x, c.name[1])), c, full)
      [] luid = NoLuid -> AddUnmapped(GetAPId(x, c.name[1]), c, full)
      [] OTHER -> AddNode(GetAPId(x, c.name[1]), c, luid)

\* DeleteObjectL (DeleteAPL, DeleteProxyL); `fails`: the connection manager refuses.
\* The connection manager deletes the service and the WAP settings, too (external).
RemoveAP(x, id) ==
    [x EXCEPT !.db.iap = Without(@, {id}), !.db.wap = Without(@, {id}), !.db.linger = Without(@, {id}),
              !.db.svc = Without(@, {<<x.db.iap[id].type, x.db.iap[id].isp>>}),
              !.db.px = Without(@, ProxiesOf(x, id))]
DeleteAP(x, id, ref, fails) ==
    CASE ~APExists(x, id) -> SetStatus(x, ref, "ENotFound")
      [] fails -> SetStatus(Forget(x), ref, "EError")
      [] OTHER -> SetStatus(Forget(RemoveAP(x, id)), ref, "EOk")
DeleteProxy(x, p, ref, fails) ==
    CASE ~PxExists(x, p) -> SetStatus(x, ref, "ENotFound")
      [] fails -> SetStatus(x, ref, "EError")
      [] OTHER -> SetStatus([x EXCEPT !.db.px = Without(@, {p})], ref, "EOk")
DeleteObject(x, node, luid, ref, fails) ==
    IF node = "AP" THEN DeleteAP(x, IntLUID(luid), ref, fails) ELSE DeleteProxy(x, IntLUID(luid), ref, fails)

\* CompleteOutstandingCmdsL: every element, the last one first.
Completed(x) == [x EXCEPT !.mem.buf = << >>, !.mem.dns = NoServers, !.mem.net = 0]
CompleteOutstandingCmds(x, locked) ==
    IF locked THEN x
    ELSE Completed(FoldLeft(
            LAMBDA y, e : IF HasElement(y, e.ap) THEN ExecuteBuffer(y, IndexOf(y, e.ap), TRUE) ELSE y,
            [x EXCEPT !.mem.dns = NoServers], Reverse(x.mem.buf)))
------------------------------------------------------------------------------
(* FetchLeafObjectL. *)

Read(ok, text, status) == IF ok THEN [status |-> "EOk", text |-> text] ELSE [status |-> status, text |-> ""]
Value(f, leaf) == IF leaf \in DOMAIN f THEN f[leaf] ELSE ""
GetAttribute(x, id, leaf) == Value(x.db.iap[id].more, leaf)

\* Texts: of the network, of the proxy, of a name server by its LUID, of the service.
FetchService(x, leaf, svc) == Read(svc \in DOMAIN x.db.svc, Value(x.db.svc[svc], leaf), "ENotFound")
FetchServer(x, luid, svc) ==
    Read(svc \in DOMAIN x.db.svc /\ IsDns(luid),
         Value(x.db.svc[svc], Server(LuidToDns(luid).host, LuidToDns(luid).pri)), "ENotFound")
FetchProxy(x, leaf, p) ==
    Read(PxExists(x, p), IF leaf = "PxName" THEN "" ELSE Value(x.db.px[p].f, leaf), "ENotFound")
FetchStr(x, name, leaf, luid, id) ==
    CASE leaf = "NwName" ->
            Read(NetworkExists(x, x.db.iap[id].net), x.db.nets[x.db.iap[id].net], "ENotFound")
      [] leaf \in {"PxName", "PxAddr", "DomainL"} -> FetchProxy(x, leaf, ProxyOf(x, name[1]))
      [] leaf = "DNSAddrL" -> FetchServer(x, luid, ServiceOf(x, id))
      [] OTHER -> FetchService(x, leaf, ServiceOf(x, id))

\* Flags, numbers and the WAP settings.  The LUID of a network is taken for that of
\* an access point.
FetchBool(x, leaf, svc) ==
    Read(svc \in DOMAIN x.db.svc, IF Value(x.db.svc[svc], leaf) = "True" THEN "True" ELSE "False", "EError")
FetchPort(x, p) == Read(PxExists(x, p), Value(x.db.px[p].f, "PortNbr"), "ENotFound")
FetchInt(x, name, leaf, luid, id) ==
    CASE leaf \in Attributes -> Read(TRUE, GetAttribute(x, id, leaf), "")
      [] leaf = "PortNbr" -> FetchPort(x, ProxyOf(x, name[1]))
      [] leaf = "NwID" -> Read(TRUE, IF APExists(x, luid) THEN ToString(x.db.iap[luid].net) ELSE "", "")
      [] leaf = "PxId" -> Read(TRUE, "", "")
      [] OTHER -> FetchService(x, leaf, ServiceOf(x, id))
FetchWap(x, leaf, id) ==
    CASE ~WapAPExists(x, id) -> Read(FALSE, "", "ENotFound")
      [] leaf = "PortNbr" -> Read("PortNbr" \in DOMAIN x.db.wap[id], Value(x.db.wap[id], "PortNbr"), "ENotFound")
      [] OTHER -> Read(TRUE, Value(x.db.wap[id], Page(leaf)), "")

\* The name, and what the kind of the service says.
DirectionOf(type) == IF type = "IncomingGPRS" THEN "Incoming" ELSE "Outgoing"
BearerOf(type) == CASE type \in Gprs -> "GSM-GPRS" [] type = "VPN" -> "VPN" [] OTHER -> "WLAN"
FetchSpec(x, name, leaf, id) ==
    CASE leaf = "Name" -> Read(TRUE, x.db.iap[id].name, "")
      [] leaf = "IAPService" -> Read(TRUE, ToString(x.db.iap[id].isp), "")
      [] leaf = "NoPxForL" ->
            Read(PxExists(x, ProxyOf(x, name[1])), Value(x.db.px[ProxyOf(x, name[1])].f, leaf), "ENotFound")
      [] leaf = "Direction" -> Read(TRUE, DirectionOf(x.db.iap[id].type), "")
      [] leaf = "BearerL" -> Read(TRUE, BearerOf(x.db.iap[id].type), "")

\* `wap`: the port is below a node of the name WAP.
FetchKind(leaf, wap) ==
    CASE leaf = "PortNbr" -> IF wap THEN "Wap" ELSE "Int"
      [] leaf \in DOMAIN Kind -> Kind[leaf]
      [] OTHER -> "Wrong"
FetchField(x, name, leaf, luid, id, kind) ==
    CASE kind = "Str" -> FetchStr(x, name, leaf, luid, id)
      [] kind = "Bool" -> FetchBool(x, leaf, ServiceOf(x, id))
      [] kind = "Int" -> FetchInt(x, name, leaf, luid, id)
      [] kind = "Wap" -> FetchWap(x, leaf, id)
      [] kind = "Spec" -> FetchSpec(x, name, leaf, id)
FetchLinger(x, id) == Read(id \in DOMAIN x.db.linger, x.db.linger[id], "ENotFound")
FetchFound(x, name, leaf, luid, id, kind) ==
    CASE leaf = "NAPLinger" -> FetchLinger(x, id)
      [] kind = "Wrong" -> Read(FALSE, "", "EError")
      [] ~APExists(x, id) -> Read(FALSE, "", "ENotFound")
      [] HasColumn(leaf, x.db.iap[id].type) -> FetchField(x, name, leaf, luid, id, kind)
      [] OTHER -> Read(leaf = "NAPAddrTy", IF x.db.iap[id].type \in Gprs THEN "APN" ELSE "", "EError")
ProxyMissing(x, name) == name[2] \in BelowPx /\ ProxyOf(x, name[1]) = 0
FetchLeafObject(x, name, leaf, luid, wap) ==
    IF ProxyMissing(x, name) THEN Read(FALSE, "", "ENotFound")
    ELSE FetchFound(x, name, leaf, luid, APId(x, name[1]), FetchKind(leaf, wap))

\* Before that the access point is looked for; a leaf without a LUID is not found
\* unless an earlier call has left one (`known`).
Answer(x, ref, read) == SetStatus(x, ref, read.status)
Fetched(x, name, leaf, luid, ref, wap, known) ==
    IF luid = NoLuid /\ ~known THEN SetStatus(x, ref, "ENotFound")
    ELSE Answer(x, ref, FetchLeafObject(x, name, leaf, luid, wap))
FetchStatus(x, name, leaf, luid, ref, wap, known) ==
    IF ProxyMissing(x, name) THEN SetStatus(GetAPId(x, name[1]), ref, "ENotFound")
    ELSE Fetched(Found(x, name[1]), name, leaf, luid, ref, wap, known)

------------------------------------------------------------------------------
(* ChildURIListL. *)

\* A list gives names to what has none.
Named(x, name, luid) == IF name \in DOMAIN x.map THEN x ELSE SetMapping(x, name, luid)
Status(x, ref, ok, status) == SetStatus(x, ref, IF ok THEN "EOk" ELSE status)

\* The access points.
NamedAP(x, id) == IF \E ap \in Aps : Luid(x.map, <<ap, "AP">>) = id THEN x
                  ELSE SetMapping(x, <<NameOf(id), "AP">>, id)
ListAPs(x, ref) == SetStatus(FoldSet(LAMBDA id, y : NamedAP(y, id), x, DOMAIN x.db.iap), ref, "EOk")

\* The service, below NAPDefs; and one service.
ListNAPDefs(x, ap, luid, ref) ==
    IF APExists(x, luid)
    THEN SetStatus(IF ServiceOf(x, luid) \in DOMAIN x.db.svc THEN Named(x, <<ap, "NAPDef">>, x.db.iap[luid].isp)
                   ELSE x, ref, "EOk")
    ELSE SetStatus(x, ref, "EError")
ListNAPDef(x, ap, luid, ref) ==
    IF Inherited(x.map, <<ap, "NAPDefs">>) > 0 THEN Status(x, ref, NAPDefExists(x, luid), "ENotFound")
    ELSE SetStatus(x, ref, "EError")

\* The proxies.
NamedProxy(x, ap, P) == IF P = {} THEN x ELSE Named(x, <<ap, "Px">>, ProxyBase + Min(P))
ListPxs(x, ap, luid, ref) ==
    IF APExists(x, luid)
    THEN Status(NamedProxy(x, ap, ProxiesOf(x, luid)), ref, ProxiesOf(x, luid) # {}, "ENotFound")
    ELSE SetStatus(x, ref, "EError")

\* The name servers: the LUID, which is that of the service, is taken for that of
\* the access point.
NamedServer(x, ap, S) ==
    IF S = {} THEN x ELSE SetMapping(x, <<ap, "DNSAddr">>, Min(S))
ListServers(x, ap, luid, ref) ==
    IF APExists(x, luid) /\ ServiceOf(x, luid) \in DOMAIN x.db.svc
    THEN SetStatus(NamedServer(x, ap, Servers(x, luid)), ref, "EOk")
    ELSE SetStatus(x, ref, "EError")

\* The network: it gets the LUID of the access point.
ListNetworks(x, ap, id, ref) ==
    IF NetworkExists(x, x.db.iap[id].net) THEN SetStatus(Named(x, <<ap, "Network">>, id), ref, "EOk")
    ELSE SetStatus(x, ref, "EError")

\* Below an access point that is there.
ListBelow(x, name, check, ref) ==
    CASE name[2] = "AP" -> Status(x, ref, APExists(x, check), "ENotFound")
      [] name[2] = "NAPDefs" -> ListNAPDefs(x, name[1], check, ref)
      [] name[2] = "NAPDef" -> ListNAPDef(x, name[1], check, ref)
      [] name[2] = "Pxs" -> ListPxs(x, name[1], check, ref)
      [] name[2] \in BelowPx /\ ~PxExists(x, check) -> SetStatus(x, ref, "ENotFound")
      [] name[2] = "Bearers" -> SetStatus(Named(x, <<name[1], "Bearer">>, check), ref, "EOk")
      [] name[2] = "DNSAddrs" -> ListServers(x, name[1], check, ref)
      [] name[2] = "NAPAuthInfs" -> SetStatus(SetMapping(x, <<name[1], "NAPAuthInf">>, check), ref, "EOk")
      [] name[2] = "Networks" -> ListNetworks(x, name[1], APId(x, name[1]), ref)
      [] OTHER -> SetStatus(x, ref, "EOk")

\* The access point is looked for; the mapping of one that is gone is removed.
Check(node, luid) ==
    IF node \in BelowPx /\ ~(luid > ProxyBase /\ luid < DnsBase) THEN 0 ELSE IntLUID(luid)
ListFound(x, name, luid, ref) ==
    IF APExists(x, APId(x, name[1])) THEN ListBelow(x, name, Check(name[2], luid), ref)
    ELSE SetStatus(IF luid = NoLuid THEN x ELSE RemoveTree(x, name[1]), ref, "ENotFound")
ChildURIList(x, name, luid, ref) ==
    IF Check(name[2], luid) = 0 THEN SetStatus(x, ref, "ENotFound")
    ELSE ListFound(GetAPId(x, name[1]), name, luid, ref)

\* The streams, ExecuteCommandL and CopyCommandL.
Refuse(x, ref) == SetStatus(x, ref, "EError")
------------------------------------------------------------------------------
(* The engine's calls, and the user. *)

\* ConstructL.
NewMem ==
    [buf |-> << >>, leafType |-> "Unset", isAdd |-> FALSE, bearer |-> "", dir |-> "", name |-> "",
     exists |-> FALSE, iapId |-> 0, isp |-> 0, net |-> 0, prev |-> NoPrev, stale |-> FALSE,
     dns |-> NoServers, dropped |-> {}]

Init == DmInit(NewMem, InitialDb, << >>)

\* What no later call reads before it writes it.
Rest(x) == [x EXCEPT !.mem.isp = 0]

\* What is taken for granted of the server: it works on one access point between two
\* completions, writes no leaf twice in that time, adds the node of an access point
\* or a proxy before the leaves, and sends only some of them before the record is
\* made; it renames a known access point first (what waits would lose it), and
\* nobody removes one while its linger time waits (it would be stored as that of the
\* access point 0).  The access point that is cached is still the one that its name
\* is mapped to.
Mapped(ap) == <<ap, "AP">> \in DOMAIN map
IsGone(ap) == Mapped(ap) /\ map[<<ap, "AP">>] \notin DOMAIN db.iap
Alone(ap) == \A i \in DOMAIN mem.buf : mem.buf[i].ap = ap
Fresh(ap) == Cached(X, ap) => mem.prev.luid = IntLUID(Luid(map, <<ap, "AP">>))
MayServe(ap) == Alone(ap) /\ Fresh(ap) /\ Cardinality(open) < MaxOpen
Lingers(r, ap) == r.op = "leaf" /\ r.name[1] = ap /\ r.leaf = "NAPLinger"
Untouched(name, leaf) == \A r \in open : r.op = "leaf" => <<r.name, r.leaf>> # <<name, leaf>>
MayWrite(name, leaf) ==
    /\ MayServe(name[1]) /\ Untouched(name, leaf)
    /\ IF Mapped(name[1])
       THEN /\ leaf \notin AddOnly
            /\ (name[2] \in BelowPx => <<name[1], "Px">> \in DOMAIN map)
            /\ (leaf = "Name" => mem.buf = << >>)
            /\ (leaf = "NAPLinger" => ~IsGone(name[1]))
       ELSE leaf \in Early /\ NodeRef(<<name[1], "AP">>) \in open /\ Room(db.iap)
    /\ leaf \in Early \cup {"Name", "NwName"} => Room(db.nets)

Write(c, luid, locked) == Serve({c.ref}, Rest(UpdateLeafObject(X, c, luid, locked)))
UpdateLeaf ==
    \E ap \in Aps, leaf \in Leaves, locked \in BOOLEAN : \E obj \in Objects[leaf] :
        LET name == <<ap, LeafOf[leaf]>>
            luid == Inherited(map, name)
        IN  /\ MayWrite(name, leaf)
            /\ Write(Command(name, leaf, obj, LeafRef(name, leaf, obj), luid), luid, locked)

\* A node is added when it has no LUID or the access point is gone.
MayAdd(name) == MayServe(name[1]) /\ (name \notin DOMAIN map \/ IsGone(name[1])) /\ NodeRef(name) \notin open
Add(name, luid, full) == Serve({NodeRef(name)}, Rest(AddNodeObject(X, NodeCommand(name, NodeRef(name), luid), luid, full)))
AddNodes ==
    \E name \in Aps \X Used, full \in BOOLEAN : MayAdd(name) /\ Add(name, Inherited(map, name), full)

BelowOf(name) == IF name[2] = "AP" THEN NamesOf(name[1]) ELSE {name[1]} \X BelowPx
Delete ==
    \E name \in Aps \X {"AP", "Px"}, fails \in BOOLEAN :
        LET ref == DeleteRef(BelowOf(name))
        IN  /\ name \in DOMAIN map /\ MayServe(name[1])
            /\ \A r \in open : ~Lingers(r, name[1])
            /\ Serve({ref}, DeleteObject(X, name[2], map[name], ref, fails))

Fetch ==
    \E ap \in Aps, leaf \in Leaves \cup {"NAPID"}, wap \in BOOLEAN, known \in BOOLEAN :
        LET name == <<ap, IF leaf = "NAPID" THEN "NAPDef" ELSE LeafOf[leaf]>>
        IN  Fresh(ap) /\ Serve({Now}, FetchStatus(X, name, leaf, Inherited(map, name), Now, wap, known))
List ==
    \/ Serve({Now}, ListAPs(X, Now))
    \/ \E name \in Aps \X Used : Fresh(name[1]) /\ Serve({Now}, ChildURIList(X, name, Inherited(map, name), Now))
Other == Serve({Now}, Refuse(X, Now))

Complete == \E locked \in BOOLEAN : Serve({}, Rest(CompleteOutstandingCmds(X, locked)))
EndSession == EndWith(X, NewMem)

\* The user removes an access point, or makes one; what the server knows of it ends.
\* (None is removed of which a node waits, that would be lost.  No record gets the
\* number of one that the engine still knows, and each has WAP settings:
\* without them a WAP port would be taken for stored and lost.)
Known(id) == {ap \in Aps : Luid(map, <<ap, "AP">>) = id} \cup {NameOf(id)}
Awaited(id) ==
    \E r \in open, ap \in Known(id) : (r.op = "node" /\ r.name[1] = ap) \/ Lingers(r, ap)
UserRemoves ==
    \E id \in DOMAIN db.iap : ~Awaited(id) /\ Elsewhere(RemoveAP(X, id).db, Known(id) \X Nodes)
UserMakes ==
    LET id == NewId(db.iap)
    IN  /\ Cardinality(Ids \ DOMAIN db.iap) > (IF mem.buf = << >> THEN 0 ELSE 1)
        /\ \A ap \in Aps : Luid(map, <<ap, "AP">>) # id
        /\ Elsewhere([db EXCEPT !.iap = With(@, id, Iap("u", "OutgoingGPRS", id)),
                                !.svc = With(@, <<"OutgoingGPRS", id>>, "Name" :> "u"),
                                !.wap = With(@, id, "Name" :> "u")], Known(id) \X Nodes)
UserEdits == UserRemoves \/ UserMakes

Next ==
    UpdateLeaf \/ AddNodes \/ Delete \/ Fetch \/ List \/ Other \/ Complete \/ EndSession \/ UserEdits

Spec == Init /\ [][Next]_dmVars

------------------------------------------------------------------------------
(* The part of the common properties that is this adapter's. *)

\* A leaf of a proxy that is not there is never answered.
CommandsOf(e) == {e.cmds[i].ref : i \in DOMAIN e.cmds}
Held == (UNION {CommandsOf(mem.buf[i]) : i \in DOMAIN mem.buf}) \cup mem.dropped

\* A NAPAddr that ran without a record was answered, and is when it runs again.
Twice == {r \in wrong : r.op = "leaf" /\ r.leaf = "NAPAddr"}

\* The port is read below the node that is named for its kind.  UsePTxtLog is stored
\* negated and read as it is; an empty linger time is none.
\* (A new name ends the mapping of the access point, and with it of its name server.)
Expected(read, leaf, obj) ==
    CASE leaf = "UsePTxtLog" -> TRUE
      [] leaf = "NAPLinger" /\ obj.text = "" -> read.status = "ENotFound"
      [] OTHER -> read = Read(TRUE, obj.text, "")
Reachable(name) == Mapped(name[1]) /\ (name[2] = "DNSAddr" => name \in DOMAIN map)
Kept(name, leaf, obj) ==
    Reachable(name) =>
        Expected(FetchLeafObject(Forget(X), name, leaf, Inherited(map, name), obj.num \in 9200 .. 9203),
                 leaf, obj)
=============================================================================
