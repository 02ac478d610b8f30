------------------------------ MODULE Streaming ------------------------------
(***************************************************************************)
(* The streaming adapter (CNSmlDmStreamingAdapter): one object with fixed  *)
(* leaves.  Its name is in the central repository, the rest in the         *)
(* settings model of the media player (external): the adapter loads a copy *)
(* when it is created, and every command that succeeds stores the whole    *)
(* copy.                                                                   *)
(*                                                                         *)
(* An object is a record: text, what it is as a text; long, whether that   *)
(* is too long; num, the number it is, -1 for none; and for the leaves of  *)
(* NetInfo own, whether it begins with the name of the leaf, and sus and   *)
(* max, its bandwidths.                                                    *)
(***************************************************************************)
EXTENDS DmAdapter, TLC

CONSTANTS
    Leaves,     \* leaves the server uses
    Objects,    \* leaf -> the objects it is sent
    Points,     \* the access points there are
    Ports       \* the pairs of ports that the user may choose

KMinPort == 1024
KMaxPort == 65535
KPortDiff == 5

\* The bandwidths of a bearer: least and largest maximum, least and largest
\* sustained one.
Range4(a, b, c, d) == [mnMax |-> a, mxMax |-> b, mnSus |-> c, mxSus |-> d]
NetInfo ==
    "GPRS" :> Range4(9050, 40200, 6335, 28140) @@
    "EGPRS" :> Range4(44800, 108800, 26880, 65280) @@
    "WCDMA" :> Range4(64000, 384000, 44800, 268800) @@
    "HSDPA" :> Range4(600000, 3600000, 420000, 2520000) @@
    "WLAN" :> Range4(64000, 3000000, 44800, 2100000) @@
    "CDMA" :> Range4(9050, 40200, 6335, 28140) @@
    "CDMA2000" :> Range4(9050, 40200, 6335, 28140)

\* DDFStructureL: nothing can be added or deleted.
Access ==
    [leaf \in {"Name", "To-Proxy", "To-NapID", "MIN-UDP-PORT", "MAX-UDP-PORT"} \cup DOMAIN NetInfo |->
        {"Get", "Replace"}]

\* StoreSettingsL: the whole copy.
StoreSettings(x) == [x EXCEPT !.db.model = x.mem]

\* A setter of the model, which may fail (`ok`), and the copy is stored.
Store(x, m, ref, ok, error) ==
    IF ok THEN SetStatus(StoreSettings([x EXCEPT !.mem = m]), ref, "EOk")
    ELSE SetStatus(x, ref, error)

\* SetNetInfoL: the maximum is in the copy before the rest is looked at, and both
\* are before they are compared with the ranges.
SetBandwidths(x, obj, ref, ok, range, y, z) ==
    CASE ~obj.own -> SetStatus(x, ref, "EInvalidObject")
      [] obj.max <= 0 -> SetStatus(x, ref, "EError")
      [] obj.sus <= 0 \/ ~ok -> SetStatus(y, ref, "EError")
      [] obj.max \notin range.mnMax .. range.mxMax \/ obj.sus \notin range.mnSus .. range.mxSus ->
            SetStatus(z, ref, "EError")
      [] OTHER -> SetStatus(StoreSettings(z), ref, "EOk")
SetNetInfo(x, bearer, obj, ref, ok) ==
    SetBandwidths(x, obj, ref, ok, NetInfo[bearer],
        [x EXCEPT !.mem.band[bearer].max = obj.max],
        [x EXCEPT !.mem.band[bearer] = [max |-> obj.max, sus |-> obj.sus]])

\* SetDefaultApL.
SetDefaultAp(x, obj, ref, ok) ==
    IF obj.num \notin Points THEN SetStatus(x, ref, "EInvalidObject")
    ELSE Store(x, [x.mem EXCEPT !.ap = obj.num], ref, ok, "EInvalidObject")

\* Mutant of SetMinUDPPort: it is compared with the bounds only.
SetMinUDPPortAlone(x, obj, ref, ok) ==
    IF obj.num \notin KMinPort .. KMaxPort - 1 THEN SetStatus(x, ref, "EInvalidObject")
    ELSE Store(x, [x.mem EXCEPT !.min = obj.num], ref, ok, "EError")

\* SetMinUDPPortL and SetMaxUDPPortL: the one is compared with the other.
MinFits(m, n) == n < m.max - KPortDiff /\ n \in KMinPort .. KMaxPort - 1
MaxFits(m, n) == n > m.min + KPortDiff /\ n \in KMinPort .. KMaxPort
SetMinUDPPort(x, obj, ref, ok) ==
    IF obj.num < 0 THEN SetStatus(x, ref, "EError")
    ELSE IF ~MinFits(x.mem, obj.num) THEN SetStatus(x, ref, "EInvalidObject")
    ELSE Store(x, [x.mem EXCEPT !.min = obj.num], ref, ok, "EError")
SetMaxUDPPort(x, obj, ref, ok) ==
    IF obj.num < 0 THEN SetStatus(x, ref, "EError")
    ELSE IF ~MaxFits(x.mem, obj.num) THEN SetStatus(x, ref, "EInvalidObject")
    ELSE Store(x, [x.mem EXCEPT !.max = obj.num], ref, ok, "EError")

\* UpdateLeafObjectL.
UpdateName(x, obj, ref, ok) ==
    CASE obj.long -> SetStatus(x, ref, "ETooLargeObject")
      [] ~ok -> SetStatus(x, ref, "EError")
      [] OTHER -> SetStatus(StoreSettings([x EXCEPT !.db.name = obj.text]), ref, "EOk")
UpdateProxy(x, obj, ref, ok) ==
    IF obj.long THEN SetStatus(x, ref, "ETooLargeObject")
    ELSE Store(x, [x.mem EXCEPT !.proxy = obj.text], ref, ok, "EError")
UpdateLeafObject(x, leaf, obj, ref, ok) ==
    CASE leaf = "Name" -> UpdateName(x, obj, ref, ok)
      [] leaf = "To-Proxy" -> UpdateProxy(x, obj, ref, ok)
      [] leaf = "To-NapID" -> SetDefaultAp(x, obj, ref, ok)
      [] leaf \in DOMAIN NetInfo -> SetNetInfo(x, leaf, obj, ref, ok)
      [] leaf = "MIN-UDP-PORT" -> SetMinUDPPort(x, obj, ref, ok)
      [] leaf = "MAX-UDP-PORT" -> SetMaxUDPPort(x, obj, ref, ok)

\* FetchLeafObjectL: the access point's own result is not looked at (GetDefaultApL),
\* the bearers' is (GetNetInfoL).
FetchLeafObject(x, leaf, ref, ok) ==
    SetStatus(x, ref,
        CASE leaf = "Name" -> IF ok /\ x.db.name # "" THEN "EOk" ELSE "EError"
          [] leaf = "To-NapID" -> "EOk"
          [] OTHER -> IF ok THEN "EOk" ELSE "EError")

\* FetchLeafObjectSizeL writes the size to a buffer of two characters: the sizes of
\* the names and proxies here have no more.
FetchLeafObjectSize(x, leaf, ref, ok) == FetchLeafObject(x, leaf, ref, ok)

\* ChildURIListL.
ChildURIList(x, node, ref) ==
    SetStatus(x, ref, IF node \in {"Streaming", "NetInfo"} THEN "EOk" ELSE "EError")

\* DeleteObjectL, AddNodeObjectL; the streams, ExecuteCommandL and CopyCommandL.
Refuse(x, ref) == SetStatus(x, ref, "ENotAllowed")
Unsupported(x, ref) == SetStatus(x, ref, "EError")

------------------------------------------------------------------------------
(* The engine's calls, and the user. *)

Object == "Streaming"
NoText == ""
Model ==
    [proxy |-> NoText, ap |-> CHOOSE p \in Points : TRUE, min |-> 6970, max |-> 32000,
     band |-> [b \in DOMAIN NetInfo |-> [max |-> NetInfo[b].mxMax, sus |-> NetInfo[b].mxSus]]]

\* ConstructL: the adapter loads the user's settings.
NewMem(d) == d.model

Init == DmInit(Model, [name |-> NoText, model |-> Model], << >>)

UpdateLeaf ==
    \E leaf \in Leaves, ok \in BOOLEAN : \E obj \in Objects[leaf] :
        LET ref == LeafRef(Object, leaf, obj)
        IN  Serve({ref}, UpdateLeafObject(X, leaf, obj, ref, ok))

Fetch ==
    \E leaf \in Leaves, ok \in BOOLEAN :
        \/ Serve({Now}, FetchLeafObject(X, leaf, Now, ok))
        \/ Serve({Now}, FetchLeafObjectSize(X, leaf, Now, ok))
List == \E node \in {"Streaming", "NetInfo", "Name"} : Serve({Now}, ChildURIList(X, node, Now))
Other == Serve({Now}, Refuse(X, Now)) \/ Serve({Now}, Unsupported(X, Now))

EndSession == EndWith(X, NewMem(db))

\* The user chooses ports, a session may be running.
UserEdits ==
    \E p \in Ports :
        /\ p[1] \in 0 .. KMaxPort /\ p[2] \in 0 .. KMaxPort
        /\ p[1] + KPortDiff < p[2]
        /\ Elsewhere([db EXCEPT !.model.min = p[1], !.model.max = p[2]], {Object})

Next == UpdateLeaf \/ Fetch \/ List \/ Other \/ EndSession \/ UserEdits

Spec == Init /\ [][Next]_dmVars

------------------------------------------------------------------------------
(* The part of the common properties that is this adapter's. *)

Held == {}

\* Whether a Get returns what the server was told; bandwidths are left out, for
\* a refused one may be stored in the place of the one before.
Kept(leaf, obj) ==
    CASE leaf = "Name" -> db.name = obj.text
      [] leaf = "To-Proxy" -> db.model.proxy = obj.text
      [] leaf = "To-NapID" -> db.model.ap = obj.num
      [] leaf = "MIN-UDP-PORT" -> db.model.min = obj.num
      [] leaf = "MAX-UDP-PORT" -> db.model.max = obj.num
      [] OTHER -> TRUE
===============================================================================
