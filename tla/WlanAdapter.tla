----------------------------- MODULE WlanAdapter -----------------------------
(***************************************************************************)
(* The part of the internet adapter that serves AP/x/NAPDef/x/WLAN         *)
(* (CNSmlWLanAdapter and CWlanSettings).  A WLAN is the record of settings *)
(* of a LAN service; secondary SSIDs are records of their own, and the     *)
(* settings of an EAP type are kept by its plug-in (external).             *)
(*                                                                         *)
(* Leaves of the record are stored at once.  The nodes of WEP keys wait    *)
(* for the leaf that says which key they are, new secondary SSIDs and all  *)
(* of EAP wait for CompleteOutstandingCmdsL.                               *)
(*                                                                         *)
(* A node is <<WLAN, kind, id>>; an object is a record: its text; num, the *)
(* number it is (0 for none); bad, that it cannot be converted.            *)
(***************************************************************************)
EXTENDS DmAdapter, FiniteSetsExt, TLC

CONSTANTS
    LuidOf,     \* WLAN -> the LUID of its NAPDef
    ServiceOf,  \* id of an IAP -> its service
    Numbers,    \* ids of WEP keys and secondary SSIDs -> the number in them, 0 for none
    EapTypes,   \* ids of EAP nodes
    EapOf,      \* id of a certificate -> the EAP node above it
    Used,       \* the nodes the server adds and lists, but for their WLAN
    Leaves,     \* kind -> the leaves the server uses
    Objects,    \* leaf -> the objects it is sent
    Keys,       \* id of a WEP key -> the numbers the server gives it
    MaxSec,     \* bound: secondary SSIDs made
    MaxOpen     \* bound: commands that are unanswered at a time

Wlans == DOMAIN LuidOf

\* DDFStructureL.
WlanLeaves ==
    {"SSID", "UsedSSID", "SSIDHidden", "NetworkMode", "SecurityMode", "UseWPAPSK",
     "WPAPreSharedKey", "EAPList", "WEPKeyIndex", "AuthMode"}
EapLeaves ==
    {"EAPType", "Username", "Password", "Realm", "UsePseudonym", "Encapsulation", "VerifyCertRealm",
     "RequireClientAuth", "SessionValidityTime", "CipherSuite", "PEAPv0", "PEAPv1", "PEAPv2",
     "AuthProv", "UnauthProv", "PACGroup", "WarnNoPAC", "WarnNoMatchPAC", "WarnNotDefaultSrv"}
EapFlags ==
    {"UsePseudonym", "VerifyCertRealm", "RequireClientAuth", "PEAPv0", "PEAPv1", "PEAPv2",
     "AuthProv", "UnauthProv", "WarnNoPAC", "WarnNoMatchPAC", "WarnNotDefaultSrv"}

Root(w) == <<w, "WLAN", "">>
EapRoot(w) == <<w, "EAPs", "">>
NamesOf(w) == {<<w, k, "">> : k \in {"WLANs", "WLAN", "WEPKeys", "Secs", "EAPs"}} \cup
              {w} \X {"WEPKey", "Id", "Data", "Sec"} \X DOMAIN Numbers \cup
              {w} \X {"EAP", "Certs"} \X EapTypes \cup {w} \X {"Cert"} \X DOMAIN EapOf

\* LUIDs: the one of the NAPDef, with the number of a WEP key times 1000.
KeyLuid(key, luid) == IF key < 0 THEN key * 1000 - luid ELSE key * 1000 + luid
GetIdFromLuid(luid) == IF luid < 1000 THEN luid ELSE luid % 1000
GetWepKeyIdFromLuid(luid) == IF luid > 1000 THEN luid \div 1000 ELSE 0

\* The LUID the engine passes: that of the leaf, of the node or of one above.
Above(name, leaf) ==
    << <<name[1], leaf, name[3]>>, name >> \o
    (IF name[2] \in {"EAP", "Certs", "Cert"} THEN << EapRoot(name[1]) >> ELSE << >>) \o
    << Root(name[1]), <<name[1], "WLANs", "">> >>
Base(d, w) == IF w \in d.aps THEN LuidOf[w] ELSE NoLuid
Inherited(m, d, name, leaf) ==
    IF \E i \in DOMAIN Above(name, leaf) : Above(name, leaf)[i] \in DOMAIN m
    THEN m[SelectSeq(Above(name, leaf), LAMBDA n : n \in DOMAIN m)[1]]
    ELSE Base(d, name[1])

EapOfNode(name) == IF name[2] = "Cert" THEN EapOf[name[3]] ELSE name[3]

------------------------------------------------------------------------------
(* Settings: CWlanSettings.  mem.last is what was read last (iSettings).   *)

Texts == {"SSID", "UsedSSID", "WPAPreSharedKey", "EAPList", "key1", "key2", "key3", "key4"}
Defaults ==
    [f \in Texts |-> ""] @@ [f \in {"SSIDHidden", "UseWPAPSK"} |-> "False"] @@
    [f \in {"WEPKeyIndex", "AuthMode"} |-> "0"] @@ "NetworkMode" :> "ADHOC" @@
    "SecurityMode" :> "allow unsecure"
KeyField(key) == "key" \o ToString(key)

RecordExists(x, svc) == svc \in DOMAIN x.db.wlan
NoSettings == [svc |-> 0, f |-> << >>]
GetWlanSettings(x, svc) ==
    IF RecordExists(x, svc) THEN [x EXCEPT !.mem.last = [svc |-> svc, f |-> x.db.wlan[svc]]] ELSE x

\* There is no column for the EAP list.
WriteDataToRecord(f) == [f EXCEPT !["EAPList"] = ""]
WriteWlanSettings(x, s, ok) ==
    IF ok THEN [x EXCEPT !.db.wlan = With(@, s.svc, WriteDataToRecord(s.f))] ELSE x
Answer(x, ref, ok) == SetStatus(x, ref, IF ok THEN "EOk" ELSE "EError")
WriteLast(x, ref, ok) == Answer(WriteWlanSettings(x, x.mem.last, ok), ref, ok)
SetLast(x, field, text) == [x EXCEPT !.mem.last.f[field] = text]

\* GetSecondarySSIDListL: the records of a service.
Ssid(svc, f) == [svc |-> svc, f |-> f]
SecondaryIds(x, svc) == {id \in DOMAIN x.db.sec : x.db.sec[id].svc = svc}
Gone == Ssid(0, << >>)
NoSec(x, svc) ==
    [x EXCEPT !.db.sec = [id \in DOMAIN @ |-> IF @[id].svc = svc THEN Gone ELSE @[id]]]

\* GetEAPSettings makes the interface of the type, which stays (iEapType).
NoType == << >>
GetEAPInterface(x, svc, type) == IF svc < 0 THEN x ELSE [x EXCEPT !.mem.type = <<svc, type>>]

\* DeleteWlanSettings.  The errors of UpdateRecord and PutRecordChanges stay in an
\* inner variable: the answer only says whether the record was found.  Of EAP, the
\* settings of the type that was used last go.
DeleteEAPSettings(x) == [x EXCEPT !.db.eap = Without(@, {x.mem.type})]
Emptied(x, svc) == DeleteEAPSettings(NoSec([x EXCEPT !.db.wlan = Without(@, {svc})], svc))
DeleteWlanSettings(x, svc, ok) == IF RecordExists(x, svc) /\ ok THEN Emptied(x, svc) ELSE x

------------------------------------------------------------------------------
(* AddLeafObjectL. *)

Drop(x, ref) == [x EXCEPT !.mem.dropped = @ \cup {ref}]

\* A leaf of the record: what it is refused with, and what is stored.
Modes == [NetworkMode |-> {"ADHOC", "Infrastructure"}, SecurityMode |-> {"NONE", "WEP", "8021X", "WPA", "WPA2"}]
Refusal(leaf, obj) ==
    CASE leaf \notin WlanLeaves -> "ENotFound"
      [] leaf = "SSID" /\ obj.bad -> "EError"
      [] leaf \in DOMAIN Modes /\ obj.text \notin Modes[leaf] -> "EInvalidObject"
      [] leaf = "WPAPreSharedKey" /\ obj.bad -> "ETooLargeObject"
      [] leaf = "WEPKeyIndex" /\ obj.num > 3 -> "ETooLargeObject"
      [] leaf = "WEPKeyIndex" /\ obj.num < 0 -> "EError"
      [] OTHER -> ""
Bool(text) == IF text = "True" THEN "True" ELSE "False"
Stored(leaf, text) ==
    CASE leaf \in {"SSIDHidden", "UseWPAPSK"} -> Bool(text)
      [] leaf = "AuthMode" -> IF text = "1" THEN "1" ELSE "0"
      [] leaf = "SecurityMode" /\ text = "NONE" -> "allow unsecure"
      [] leaf = "SecurityMode" /\ text = "8021X" -> "802.1X"
      [] OTHER -> text
AddWlanLeaf(x, leaf, obj, ref, ok) ==
    IF Refusal(leaf, obj) # "" THEN SetStatus(x, ref, Refusal(leaf, obj))
    ELSE WriteLast(SetLast(x, leaf, Stored(leaf, obj.text)), ref, ok)

\* A leaf of a WEP key whose number is known.  Its Id is taken as it is.
AddKeyLeaf(x, leaf, key, obj, ref, ok) ==
    CASE leaf = "Id" -> SetStatus(x, ref, "EOk")
      [] leaf = "Data" /\ key \in 1 .. 4 -> WriteLast(SetLast(x, KeyField(key), obj.text), ref, ok)
      [] OTHER -> SetStatus(x, ref, "ENotFound")

\* The element of a node, the first one that has its name.
WepIndex(x, name) == SelectInSeq(x.mem.wep, LAMBDA e : e.name = name)

\* One that waits keeps one reference of each leaf; the one before is dropped.
Replace(x, k, slot, ref) ==
    [x EXCEPT !.mem.dropped = @ \cup x.mem.wep[k][slot], !.mem.wep[k][slot] = {ref}]
BufferKeyLeaf(x, k, leaf, obj, ref) ==
    CASE leaf = "Id" -> [Replace(x, k, "id", ref) EXCEPT !.mem.wep[k].key = obj.num]
      [] leaf = "Data" -> [Replace(x, k, "data", ref) EXCEPT !.mem.wep[k].text = <<obj.text>>]
      [] OTHER -> SetStatus(x, ref, "ENotFound")

AddWepLeaf(x, name, leaf, obj, ref, luid, ok) ==
    CASE GetWepKeyIdFromLuid(luid) # 0 -> AddKeyLeaf(x, leaf, GetWepKeyIdFromLuid(luid), obj, ref, ok)
      [] GetWepKeyIdFromLuid(luid) = 0 /\ WepIndex(x, name) = 0 ->
            AddKeyLeaf(SetMapping(x, <<name[1], leaf, name[3]>>, KeyLuid(Numbers[name[3]], luid)),
                       leaf, Numbers[name[3]], obj, ref, ok)
      [] OTHER -> BufferKeyLeaf(x, WepIndex(x, name), leaf, obj, ref)

\* A secondary SSID that is new waits, and its leaf is answered; one that is there is
\* written and answered.  Both go on and write the record, which is answered.
SecIndex(x, name) == SelectInSeq(x.mem.sec, LAMBDA e : e.name = name)
BufferSecLeaf(x, k, leaf, obj, ref, ok) ==
    IF leaf = "SSID" /\ obj.bad THEN SetStatus(x, ref, "EError")
    ELSE WriteLast([x EXCEPT !.mem.sec[k].f = With(@, leaf, obj.text)], ref, ok)
WriteSecondarySSID(x, id, leaf, obj, ref, ok) ==
    Answer(IF ok THEN [x EXCEPT !.db.sec[id].f = With(@, leaf, obj.text)] ELSE x, ref, ok)

AddSecLeaf(x, name, leaf, obj, ref, svc, ok) ==
    CASE Numbers[name[3]] \in SecondaryIds(x, svc) ->
            WriteLast(WriteSecondarySSID(x, Numbers[name[3]], leaf, obj, ref, ok), ref, ok)
      [] Numbers[name[3]] \notin SecondaryIds(x, svc) /\ SecIndex(x, name) = 0 ->
            SetStatus(x, ref, "ENotFound")
      [] OTHER -> BufferSecLeaf(x, SecIndex(x, name), leaf, obj, ref, ok)

AddRecordLeaf(x, name, leaf, obj, ref, luid, ok) ==
    CASE name[2] = "WEPKey" -> AddWepLeaf(x, name, leaf, obj, ref, luid, ok)
      [] name[2] = "WLAN" -> AddWlanLeaf(x, leaf, obj, ref, ok)
      [] name[2] = "Sec" -> AddSecLeaf(x, name, leaf, obj, ref, GetIdFromLuid(luid), ok)

\* EAP.  An element is found by the type, which the service is not part of.
EapIndex(x, type) == SelectInSeq(x.mem.eap, LAMBDA e : e.type = type)
NewElement(svc, type, refs) ==
    [svc |-> svc, type |-> type, f |-> << >>, certs |-> << >>, refs |-> refs]
Append1(x, e) == [x EXCEPT !.mem.eap = Append(@, e)]
Await(x, k, ref) == [x EXCEPT !.mem.eap[k].refs = @ \cup {ref}]

EapValue(leaf, text) == IF leaf \in EapFlags THEN Bool(text) ELSE text
SetEapField(x, k, leaf, text) == [x EXCEPT !.mem.eap[k].f = With(@, leaf, text)]
AddEapLeaf(x, k, leaf, obj, ref) ==
    CASE leaf \in {"Username", "Password"} /\ obj.bad ->
            SetStatus(IF leaf \in DOMAIN x.mem.eap[k].f THEN SetEapField(x, k, leaf, "") ELSE x, ref, "EError")
      [] leaf = "SessionValidityTime" /\ obj.bad -> SetStatus(x, ref, "EInvalidObject")
      [] leaf \in {"Realm", "PACGroup"} /\ obj.bad -> Await(x, k, ref)
      [] leaf \notin EapLeaves \/ leaf \in {"EAPType", "Encapsulation"} -> Await(x, k, ref)
      [] OTHER -> Await(SetEapField(x, k, leaf, EapValue(leaf, obj.text)), k, ref)

\* A certificate is found by its LUID, the index it was added at.
Grown(x, k, index) ==
    IF Len(x.mem.eap[k].certs) - 1 < index THEN [x EXCEPT !.mem.eap[k].certs = Append(@, << >>)] ELSE x
CertIndex(x, k, index) == IF Len(x.mem.eap[k].certs) - 1 < index THEN Len(x.mem.eap[k].certs) + 1 ELSE index + 1
AddCertLeaf(x, k, index, leaf, obj, ref) ==
    IF leaf = "SubjectKeyId" /\ obj.bad THEN SetStatus(Grown(x, k, index), ref, "EError")
    ELSE Await([Grown(x, k, index) EXCEPT !.mem.eap[k].certs[CertIndex(x, k, index)] =
                    With(@, leaf, obj.text)], k, ref)

AddElementLeaf(x, k, name, leaf, obj, ref) ==
    IF name[2] = "EAP" THEN AddEapLeaf(x, k, leaf, obj, ref)
    ELSE AddCertLeaf(x, k, GetIdFromLuid(Luid(x.map, name)), leaf, obj, ref)

\* GetServiceIdFromUriL.
GetServiceId(x, w) == GetIdFromLuid(Luid(x.map, EapRoot(w)))
AddBelowEap(x, name, leaf, obj, ref, type) ==
    CASE EapIndex(x, type) # 0 -> AddElementLeaf(x, EapIndex(x, type), name, leaf, obj, ref)
      [] EapIndex(x, type) = 0 /\ GetServiceId(x, name[1]) = NoLuid -> SetStatus(x, ref, "ENotFound")
      [] OTHER ->
            AddElementLeaf(Append1(x, NewElement(GetServiceId(x, name[1]), type, {})),
                           Len(x.mem.eap) + 1, name, leaf, obj, ref)

AddLeafObject(x, name, leaf, obj, ref, luid, ok) ==
    CASE name[2] \in {"EAP", "Cert"} -> AddBelowEap(x, name, leaf, obj, ref, EapOfNode(name))
      [] name[2] \notin {"EAP", "Cert"} /\ luid = NoLuid -> Drop(x, ref)
      [] OTHER ->
            IF RecordExists(x, GetIdFromLuid(luid))
            THEN AddRecordLeaf(GetWlanSettings(x, GetIdFromLuid(luid)), name, leaf, obj, ref, luid, ok)
            ELSE SetStatus(x, ref, "ENotFound")

------------------------------------------------------------------------------
(* DeleteObjectL and AddNodeObjectL. *)

\* DeleteOneSecondarySSIDL goes on behind the one it deletes, and ends with not found.
DeleteSec(x, id, svc, ref) ==
    SetStatus(IF id \in SecondaryIds(x, svc) THEN [x EXCEPT !.db.sec[id] = Gone] ELSE x, ref, "ENotFound")
DeleteRecord(x, svc, ref, ok) ==
    IF svc = NoLuid THEN Drop(x, ref)
    ELSE Answer(DeleteWlanSettings(x, svc, ok), ref, RecordExists(x, svc))
DeleteObject(x, name, luid, ref, ok) ==
    CASE luid = NoLuid -> SetStatus(x, ref, "ENotFound")
      [] luid # NoLuid /\ name[2] = "WLAN" -> DeleteRecord(x, GetIdFromLuid(luid), ref, ok)
      [] luid # NoLuid /\ name[2] = "Sec" -> DeleteSec(x, Numbers[name[3]], GetIdFromLuid(luid), ref)
      [] OTHER -> SetStatus(x, ref, "EError")

\* AddNodeObjectL: the node WLAN makes the record, of the service of the IAP.
AddWlan(x, name, luid, ref, ok) ==
    IF luid \notin DOMAIN ServiceOf THEN SetStatus(x, ref, "EError")
    ELSE Answer(WriteWlanSettings([x EXCEPT !.mem.last = [svc |-> ServiceOf[luid], f |-> Defaults],
                                            !.map = IF ok THEN With(@, name, luid) ELSE @],
                                  [svc |-> ServiceOf[luid], f |-> Defaults], ok), ref, ok)
WepNode(name, luid, ref) ==
    [name |-> name, luid |-> luid, node |-> {ref}, id |-> {}, data |-> {}, key |-> 0, text |-> << >>,
     done |-> FALSE]
AddWepKey(x, name, luid, ref) ==
    IF WepIndex(x, name) # 0 THEN SetStatus(x, ref, "EAlreadyExists")
    ELSE [x EXCEPT !.mem.wep = Append(@, WepNode(name, luid, ref))]

\* A new secondary SSID waits, but its command is never answered.
AddSec(x, name, luid, ref) ==
    [Drop(x, ref) EXCEPT !.mem.sec =
        Append(@, [name |-> name, svc |-> GetIdFromLuid(luid), f |-> << >>, done |-> FALSE])]

\* An EAP node of which an element is there is mapped and never answered.
EapAdded(x, type, svc, ref) ==
    IF EapIndex(x, type) # 0 THEN Drop(x, ref) ELSE Append1(x, NewElement(svc, type, {ref}))
MapLast(x, name) == SetMapping(x, name, Len(x.mem.eap) - 1)
AddEap(x, name, svc, ref) ==
    IF svc = NoLuid THEN SetStatus(x, ref, "EError") ELSE MapLast(EapAdded(x, name[3], svc, ref), name)
AddCert(x, name, k, ref) ==
    SetMapping(Await([x EXCEPT !.mem.eap[k].certs = Append(@, << >>)], k, ref),
               name, Len(x.mem.eap[k].certs))

AddNodeObject(x, name, luid, ref, ok) ==
    CASE name[2] \in {"WLANs", "EAPs", "Certs"} -> SetStatus(SetMapping(x, name, luid), ref, "EOk")
      [] name[2] = "WLAN" -> AddWlan(x, name, luid, ref, ok)
      [] name[2] = "WEPKeys" -> SetStatus(x, ref, "EOk")
      [] name[2] = "WEPKey" -> AddWepKey(x, name, luid, ref)
      [] name[2] = "Secs" -> Drop(x, ref)
      [] name[2] = "Sec" -> AddSec(x, name, luid, ref)
      [] name[2] = "EAP" -> AddEap(x, name, GetServiceId(x, name[1]), ref)
      [] name[2] = "Cert" ->
            AddCert(x, name, GetIdFromLuid(Luid(x.map, <<name[1], "EAP", EapOf[name[3]]>>)) + 1, ref)

\* Streams, ExecuteCommandL and CopyCommandL.
Refuse(x, ref) == SetStatus(x, ref, "EError")

------------------------------------------------------------------------------
(* FetchLeafObjectL and ChildURIListL. *)

Read(status, text) == [status |-> status, text |-> text]
OrNotFound(found, text) == IF found THEN Read("EOk", text) ELSE Read("ENotFound", "")
Field(f, leaf, none) == IF leaf \in DOMAIN f THEN f[leaf] ELSE none

\* The number of a key comes from its LUID, or from its name.
KeyOf(id, luid) == IF GetWepKeyIdFromLuid(luid) # 0 THEN GetWepKeyIdFromLuid(luid) ELSE Numbers[id]
FetchKey(f, leaf, key) ==
    CASE leaf = "Id" /\ key > 0 -> Read("EOk", ToString(key))
      [] leaf = "Data" /\ key \in 1 .. 4 -> Read("EOk", f[KeyField(key)])
      [] OTHER -> Read("EError", "")
FetchSec(x, id, svc, leaf) ==
    OrNotFound(id \in SecondaryIds(x, svc), IF id \in SecondaryIds(x, svc) THEN Field(x.db.sec[id].f, leaf, "") ELSE "")

EapText(f, leaf) == Field(f, leaf, IF leaf \in EapFlags THEN "False" ELSE "")
FetchCert(certs, n, leaf) ==
    OrNotFound(n \in DOMAIN certs /\ leaf \in DOMAIN certs[n], IF n \in DOMAIN certs THEN Field(certs[n], leaf, "") ELSE "")
FetchEap(x, key, name, leaf) ==
    CASE key \notin DOMAIN x.db.eap -> Read("EError", "")
      [] key \in DOMAIN x.db.eap /\ name[2] = "Cert" -> FetchCert(x.db.eap[key].certs, Numbers[name[3]], leaf)
      [] OTHER -> IF leaf \in {"EAPType", "Encapsulation"} THEN Read("EOk", name[3])
                  ELSE OrNotFound(leaf \in EapLeaves, EapText(x.db.eap[key].f, leaf))

ReadLeaf(x, name, leaf, luid, svc) ==
    CASE ~RecordExists(x, svc) -> Read("ENotFound", "")
      [] RecordExists(x, svc) /\ name[2] = "WLAN" -> OrNotFound(leaf \in WlanLeaves, Field(x.db.wlan[svc], leaf, ""))
      [] RecordExists(x, svc) /\ name[2] = "WEPKey" -> FetchKey(x.db.wlan[svc], leaf, KeyOf(name[3], luid))
      [] RecordExists(x, svc) /\ name[2] = "Sec" -> FetchSec(x, Numbers[name[3]], svc, leaf)
      [] OTHER -> FetchEap(x, <<svc, EapOfNode(name)>>, name, leaf)

\* The service: below EAP, that of the mapped root.
ServiceFor(x, name, luid) ==
    IF name[2] \in {"EAP", "Cert"} THEN GetServiceId(x, name[1]) ELSE GetIdFromLuid(luid)
FetchLeafObject(x, name, leaf, luid) ==
    IF luid = NoLuid THEN Read("ENotFound", "") ELSE ReadLeaf(x, name, leaf, luid, ServiceFor(x, name, luid))

\* What a fetch leaves behind: the settings and the EAP type, and the LUID of a key.
Fetched(x, name, leaf, luid, svc) ==
    CASE luid = NoLuid \/ ~RecordExists(x, svc) -> x
      [] luid # NoLuid /\ RecordExists(x, svc) /\ name[2] \in {"EAP", "Cert"} ->
            GetEAPInterface(GetWlanSettings(x, svc), svc, EapOfNode(name))
      [] luid # NoLuid /\ RecordExists(x, svc) /\ name[2] = "WEPKey" /\ GetWepKeyIdFromLuid(luid) = 0 ->
            SetMapping(GetWlanSettings(x, svc), <<name[1], leaf, name[3]>>, KeyLuid(Numbers[name[3]], luid))
      [] OTHER -> GetWlanSettings(x, svc)
FetchStatus(x, name, leaf, luid, ref) ==
    SetStatus(Fetched(x, name, leaf, luid, ServiceFor(x, name, luid)), ref,
              FetchLeafObject(x, name, leaf, luid).status)

\* The children of a node are listed if the record is there.
Exists(x, svc, ref) == SetStatus(x, ref, IF RecordExists(x, svc) THEN "EOk" ELSE "ENotFound")
ListOfRecord(x, svc, ref) == IF svc = NoLuid THEN Drop(x, ref) ELSE Exists(x, svc, ref)
MapWlan(x, w, svc) == IF RecordExists(x, svc) THEN SetMapping(x, Root(w), svc) ELSE x
MapKey(x, name, luid) ==
    IF RecordExists(x, GetIdFromLuid(luid)) /\ GetWepKeyIdFromLuid(luid) = 0
    THEN SetMapping(x, name, KeyLuid(Numbers[name[3]], luid)) ELSE x
HasCerts(x, key) == key \in DOMAIN x.db.eap /\ x.db.eap[key].certs # << >>
ListCerts(x, svc, type, ref) ==
    SetStatus(GetEAPInterface(x, svc, type), ref, IF HasCerts(x, <<svc, type>>) THEN "EOk" ELSE "ENotFound")

ListEap(x, name, svc, ref) ==
    CASE name[2] = "EAPs" -> ListOfRecord(x, svc, ref)
      [] name[2] = "EAP" -> Exists(x, svc, ref)
      [] name[2] = "Certs" /\ ~RecordExists(x, svc) -> SetStatus(x, ref, "ENotFound")
      [] OTHER -> ListCerts(x, svc, EapOfNode(name), ref)
ChildURIList(x, name, luid, ref) ==
    CASE name[2] = "NAPDef" -> IF luid = NoLuid THEN Drop(x, ref) ELSE SetStatus(x, ref, "EOk")
      [] name[2] = "WLANs" -> IF Root(name[1]) \in DOMAIN x.map THEN SetStatus(x, ref, "EOk")
                              ELSE ListOfRecord(MapWlan(x, name[1], GetIdFromLuid(luid)), GetIdFromLuid(luid), ref)
      [] name[2] = "WEPKeys" -> SetStatus(x, ref, "EOk")
      [] name[2] = "WEPKey" -> ListOfRecord(MapKey(x, name, luid), GetIdFromLuid(luid), ref)
      [] name[2] \in {"WLAN", "Secs", "Sec"} -> ListOfRecord(x, GetIdFromLuid(luid), ref)
      [] OTHER -> ListEap(x, name, GetServiceId(x, name[1]), ref)

------------------------------------------------------------------------------
(* ExecuteBufferL, from CompleteOutstandingCmdsL. *)

SetStatuses(x, refs, status) == FoldSet(LAMBDA ref, y : SetStatus(y, ref, status), x, refs)
Done(x, k) == [x EXCEPT !.mem.wep[k].node = {}, !.mem.wep[k].id = {}, !.mem.wep[k].done = TRUE]

\* A key whose number never came, or is none: its Id is forgotten without an answer.
RefuseKey(x, k, e) ==
    Done([SetStatuses(x, e.data \cup e.node, "EError") EXCEPT
            !.mem.dropped = @ \cup e.id, !.mem.wep[k].data = {}], k)

\* The settings are read again; if they are gone, those that were read last are written.
StoreKey(x, k, e, ok) ==
    [SetStatuses(WriteWlanSettings(x, x.mem.last, ok), e.data, IF ok THEN "EOk" ELSE "EError")
        EXCEPT !.mem.wep[k].data = {}]
KeyData(x, k, e, ok) ==
    IF e.text # << >> /\ e.key > 0
    THEN StoreKey(SetLast(GetWlanSettings(x, e.luid), KeyField(e.key), e.text[1]), k, e, ok)
    ELSE x
RunKey(x, k, e, ok) ==
    Done(SetStatuses(SetMapping(KeyData(x, k, e, ok), e.name, KeyLuid(e.key, e.luid)),
                     e.id \cup e.node, "EOk"), k)
RunWep(x, k, ok) ==
    CASE x.mem.wep[k].done -> x
      [] ~x.mem.wep[k].done /\ (x.mem.wep[k].key = 0 \/ x.mem.wep[k].key > 4) -> RefuseKey(x, k, x.mem.wep[k])
      [] OTHER -> RunKey(x, k, x.mem.wep[k], ok)

\* Those that are done are taken out by index: the one behind each is passed over.
Removed(wep) ==
    LET gone[k \in 0 .. Len(wep)] == IF k = 0 THEN FALSE ELSE wep[k].done /\ ~gone[k - 1]
    IN  {k \in DOMAIN wep : gone[k]}
Compressed(x, gone) ==
    [x EXCEPT !.mem.wep = [i \in 1 .. Len(@) - Cardinality(gone) |->
                               @[SetToSortSeq(DOMAIN @ \ gone, <)[i]]],
              !.mem.dropped = @ \cup UNION {x.mem.wep[k].data : k \in gone}]
ExecuteWep(x, ok) ==
    LET y == FoldLeft(LAMBDA z, k : RunWep(z, k, ok), x, [k \in DOMAIN x.mem.wep |-> k])
    IN  Compressed(y, Removed(y.mem.wep))

\* New secondary SSIDs get the ids of their records; the buffer is not emptied.
RunSec(x, k, ok) ==
    IF x.mem.sec[k].done THEN x
    ELSE [x EXCEPT !.mem.sec[k].done = TRUE,
                   !.db.sec = IF ok THEN Append(@, Ssid(x.mem.sec[k].svc, x.mem.sec[k].f)) ELSE @]
ExecuteSec(x, ok) == FoldLeft(LAMBDA y, k : RunSec(y, k, ok), x, [k \in DOMAIN x.mem.sec |-> k])

\* The plug-in of the type keeps what it is not given.
Before(x, key) == IF key \in DOMAIN x.db.eap THEN x.db.eap[key] ELSE [f |-> << >>, certs |-> << >>]
Config(e, old) == [f |-> e.f @@ old.f, certs |-> IF e.certs = << >> THEN old.certs ELSE e.certs]
WriteEAPSettings(x, e, status) ==
    IF status = "EOk" THEN [x EXCEPT !.db.eap = With(@, <<e.svc, e.type>>, Config(e, Before(x, <<e.svc, e.type>>)))]
    ELSE x

RunEap(x, e, status) ==
    SetStatuses(WriteEAPSettings(GetEAPInterface(x, e.svc, e.type), e, status), e.refs, status)
ExecuteEap(x, status) ==
    [FoldLeft(LAMBDA y, e : RunEap(y, e, status), x, x.mem.eap) EXCEPT !.mem.eap = << >>]

ExecuteBuffer(x, ok, status) == ExecuteEap(ExecuteSec(ExecuteWep(x, ok), ok), status)

------------------------------------------------------------------------------
(* The engine's calls, and the user. *)

NewMem == [wep |-> << >>, sec |-> << >>, eap |-> << >>, last |-> NoSettings, type |-> NoType, dropped |-> {}]
Init == DmInit(NewMem, [aps |-> {}, wlan |-> << >>, sec |-> << >>, eap |-> << >>], << >>)

\* The last settings matter as long as the data of a key waits.
Waits(x) == \E k \in DOMAIN x.mem.wep : ~x.mem.wep[k].done /\ x.mem.wep[k].text # << >>
Rest(x) == IF Waits(x) THEN x ELSE [x EXCEPT !.mem.last = NoSettings]

\* What is taken for granted of the server.  It gives a key the number in its name
\* and keeps to it, adds a key when the access point is made (its settings would be those of the
\* service 0), and one whose name has no number before it uses the key's leaves; it
\* reads them only when that is complete (the LUID of a leaf that was read before would
\* hide that of the key for good).  It writes no leaf of EAP twice in a round, and
\* those of a certificate in the round that adds it, behind its EAP node: otherwise
\* the index is that of another element, or of none, which is a panic.
Number(name, luid) ==
    CASE GetWepKeyIdFromLuid(luid) # 0 -> {GetWepKeyIdFromLuid(luid)}
      [] GetWepKeyIdFromLuid(luid) = 0 /\ WepIndex(X, name) = 0 -> {Numbers[name[3]]}
      [] OTHER -> Keys[name[3]]
KeyUsable(name, luid) == Numbers[name[3]] # 0 \/ GetWepKeyIdFromLuid(luid) # 0
MayUseKey(name, leaf, obj, luid) ==
    /\ KeyUsable(name, luid) \/ WepIndex(X, name) # 0
    /\ leaf = "Id" => obj.num \in Number(name, luid)
Untouched(name, leaf) == \A r \in open : r.op = "leaf" => <<r.name, r.leaf>> # <<name, leaf>>
MayWrite(name, leaf, obj, luid) ==
    CASE name[2] = "WEPKey" -> MayUseKey(name, leaf, obj, luid)
      [] name[2] = "EAP" -> Untouched(name, leaf)
      [] name[2] = "Cert" -> Untouched(name, leaf) /\ name \in DOMAIN map /\ NodeRef(name) \in open
      [] OTHER -> TRUE

\* A leaf of a new secondary SSID is answered at once and stored later, under an id
\* that the database chooses: no Get will find it by its name, and the answer tells
\* nothing.
EarlyRef(name, leaf, text) == [op |-> "early", name |-> name, leaf |-> leaf, text |-> text]
IsNewSec(name, luid) == name[2] = "Sec" /\ Numbers[name[3]] \notin SecondaryIds(X, GetIdFromLuid(luid))
RefOf(name, leaf, obj, luid) ==
    IF IsNewSec(name, luid) THEN EarlyRef(name, leaf, obj.text) ELSE LeafRef(name, leaf, obj.text)

New(ref) == Cardinality(open) < MaxOpen /\ \A r \in open : r # ref
NamesUsed == {<<w, u[1], u[2]>> : w \in Wlans, u \in Used \cup {<<"WLAN", "">>}}

Write(name, leaf, obj, luid, ok, ref) ==
    /\ New(ref)
    /\ MayWrite(name, leaf, obj, luid)
    /\ Serve({ref}, Rest(AddLeafObject(X, name, leaf, obj, ref, luid, ok)))
UpdateLeaf ==
    \E name \in {n \in NamesUsed : n[2] \in DOMAIN Leaves}, ok \in BOOLEAN :
        \E leaf \in Leaves[name[2]] : \E obj \in Objects[leaf] :
            Write(name, leaf, obj, Inherited(map, db, name, leaf), ok,
                  RefOf(name, leaf, obj, Inherited(map, db, name, leaf)))

\* A node is added when it is not there.
Room == Len(db.sec) + Len(mem.sec) < MaxSec
MayAdd(name, luid) ==
    CASE name[2] = "WLAN" -> ~RecordExists(X, luid)
      [] name[2] = "Sec" -> IsNewSec(name, luid) /\ Room
      [] name[2] = "WEPKey" -> luid # NoLuid /\ name \notin DOMAIN map
      [] name[2] = "Cert" -> /\ name \notin DOMAIN map
                             /\ GetIdFromLuid(Luid(map, <<name[1], "EAP", EapOf[name[3]]>>)) + 1 \in DOMAIN mem.eap
      [] OTHER -> name \notin DOMAIN map
AddNodes ==
    \E name \in NamesUsed, ok \in BOOLEAN :
        /\ New(NodeRef(name))
        /\ MayAdd(name, Inherited(map, db, name, ""))
        /\ Serve({NodeRef(name)}, Rest(AddNodeObject(X, name, Inherited(map, db, name, ""), NodeRef(name), ok)))

\* The settings of EAP are deleted through the plug-in that was used last: without
\* one the code uses a null pointer.
Deletable(name, luid) ==
    name[2] = "WLAN" /\ RecordExists(X, GetIdFromLuid(luid)) => mem.type # NoType
BelowOf(name) == IF name[2] = "WLAN" THEN NamesOf(name[1]) \ {<<name[1], "WLANs", "">>} ELSE {name}
Delete ==
    \E name \in NamesUsed, ok \in BOOLEAN :
        /\ New(DeleteRef(BelowOf(name)))
        /\ Deletable(name, Inherited(map, db, name, ""))
        /\ Serve({DeleteRef(BelowOf(name))},
                 Rest(DeleteObject(X, name, Inherited(map, db, name, ""), DeleteRef(BelowOf(name)), ok)))

Fetch ==
    \E name \in {n \in NamesUsed : n[2] \in DOMAIN Leaves} : \E leaf \in Leaves[name[2]] :
        /\ name[2] = "WEPKey" => KeyUsable(name, Inherited(map, db, name, leaf))
        /\ Serve({Now}, Rest(FetchStatus(X, name, leaf, Inherited(map, db, name, leaf), Now)))
ListRef(name) == [op |-> "list", name |-> name]
List ==
    \E name \in NamesUsed \cup {<<w, "NAPDef", "">> : w \in Wlans} :
        /\ New(ListRef(name))
        /\ Serve({ListRef(name)}, ChildURIList(X, name, Inherited(map, db, name, ""), ListRef(name)))
Other == Serve({Now}, Refuse(X, Now))

Complete ==
    \E ok \in BOOLEAN, status \in {"EOk", "ENotFound", "EError"} : Serve({}, Rest(ExecuteBuffer(X, ok, status)))
EndSession == EndWith(X, NewMem)

\* The user makes an access point, with settings of WLAN or not yet, or removes it.
UserMakes(w) ==
    \E made \in BOOLEAN :
        /\ w \notin db.aps /\ LuidOf[w] \notin DOMAIN db.wlan
        /\ Elsewhere([db EXCEPT !.aps = @ \cup {w},
                                !.wlan = IF made THEN With(@, LuidOf[w], Defaults) ELSE @], NamesOf(w))
UserRemoves(w) ==
    /\ w \in db.aps
    /\ Elsewhere([NoSec(X, LuidOf[w]).db EXCEPT
                    !.aps = @ \ {w}, !.wlan = Without(@, {LuidOf[w]}),
                    !.eap = Without(@, {LuidOf[w]} \X EapTypes)], NamesOf(w))
UserEdits == \E w \in Wlans : UserMakes(w) \/ UserRemoves(w)

Next ==
    UpdateLeaf \/ AddNodes \/ Delete \/ Fetch \/ List \/ Other \/ Complete \/ EndSession \/ UserEdits

Spec == Init /\ [][Next]_dmVars

------------------------------------------------------------------------------
(* The part of the common properties that is this adapter's. *)

InWep(e) == e.node \cup e.id \cup e.data
Held == (UNION {InWep(mem.wep[k]) : k \in DOMAIN mem.wep}) \cup
        (UNION {mem.eap[k].refs : k \in DOMAIN mem.eap}) \cup mem.dropped

\* The leaf of a secondary SSID that is there is answered for itself and once more
\* for the record.
Twice == {r \in wrong : r.op = "leaf" /\ r.name[2] = "Sec"}

\* The EAP list has no column; the settings of EAP are found below the mapped root,
\* while the settings of WLAN are there, as is the number of a key; a secondary SSID that was deleted was
\* reported not to be there.
Reachable(name, leaf) ==
    CASE leaf = "Id" -> RecordExists(X, GetIdFromLuid(Inherited(map, db, name, leaf)))
      [] name[2] = "Sec" -> Numbers[name[3]] \in DOMAIN db.sec /\ db.sec[Numbers[name[3]]] # Gone
      [] name[2] \in {"EAP", "Cert"} -> RecordExists(X, GetServiceId(X, name[1]))
      [] OTHER -> TRUE
Kept(name, leaf, text) ==
    leaf # "EAPList" /\ Reachable(name, leaf) =>
        FetchLeafObject(X, name, leaf, Inherited(map, db, name, leaf)) = Read("EOk", Stored(leaf, text))
=============================================================================
