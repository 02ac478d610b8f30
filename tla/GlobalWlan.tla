------------------------------ MODULE GlobalWlan ------------------------------
(***************************************************************************)
(* The adapter of the settings of the WLAN device (CGlobalWLANAdapter).    *)
(* Most are keys of the central repository, some are columns of the user's *)
(* record in the communications database (both external).  A command that  *)
(* writes or reads a leaf fills the leaf's slot and is answered when       *)
(* CompleteOutstandingCmdsL stores and then reads.  There is one slot of   *)
(* each kind for a leaf: a second command takes it over, and the first is  *)
(* never answered.                                                         *)
(*                                                                         *)
(* An object is a record: its text, the number that DesToInt makes of it   *)
(* (an error when negative), and long, whether it is too long.             *)
(***************************************************************************)
EXTENDS DmAdapter, FiniteSetsExt, TLC

CONSTANTS
    Leaves,     \* leaves the server uses
    Objects,    \* leaf -> the objects it is sent
    Faults,     \* the parts that may fail: "CenRep", "CommsDb", "Put", "Set"
    MaxOpen     \* bound: commands that are unanswered at a time

\* The leaves, as AddLeafObjectL takes them one after the other.
General == {"InternetConnectivityTest", "UseDefaultSettings"}
Transmission == {"LongRetryLimit", "ShortRetryLimit", "RTSThreshold", "TXPowerLevel", "PowerSaving"}
Scanning ==
    {"BackgroundScanInterval", "ScanRate", "RCPITrigger", "MinActiveChannelTime",
     "MaxActiveChannelTime", "MaxTxMSDULifeTime"}
Roaming ==
    {"ScanExpirationTimer", "UnloadDriverTimer", "RoamTimer", "RCPIDifference",
     "ConnRegainTimer", "MaxTriesToFindNw"}
Measuring ==
    {"DelayBetweenFindNw", "AllowRadioMeasurements", "MinPassiveChannelTime",
     "MaxPassiveChannelTime", "MaxApFailureCount", "LongBeaconFindCount"}
Service == {"QosNullFrameInterval", "QosNullFrameTimeout", "MTU"}
Settings == General \cup Transmission \cup Scanning \cup Roaming \cup Measuring \cup Service

Flags == {"UseDefaultSettings", "PowerSaving", "AllowRadioMeasurements"}

\* Where they are stored.
UserRecord ==
    {"BackgroundScanInterval", "UseDefaultSettings", "LongRetryLimit", "ShortRetryLimit",
     "RTSThreshold", "TXPowerLevel", "AllowRadioMeasurements", "PowerSaving"}
Connectivity == {"InternetConnectivityTest"}
Device == Settings \ (UserRecord \cup Connectivity)

\* DDFStructureL.
Access == [leaf \in Settings |-> {"Get", "Add", "Replace"}]

------------------------------------------------------------------------------
(* The buffer: slot of a leaf -> what fills it.  `dropped` is what the     *)
(* adapter no longer refers to and never answers.                          *)

\* InitMemberVariables: all slots are free; what was not answered is dropped.
NewMem(dropped) == [write |-> << >>, read |-> << >>, dropped |-> dropped]
RefsIn(slots) == {slots[leaf].ref : leaf \in DOMAIN slots}

Taken(slots, leaf) == IF leaf \in DOMAIN slots THEN {slots[leaf].ref} ELSE {}
BufferWrite(x, leaf, obj, ref) ==
    [x EXCEPT !.mem.dropped = @ \cup Taken(x.mem.write, leaf),
              !.mem.write = With(@, leaf, [text |-> obj.text, ref |-> ref])]
BufferRead(x, leaf, ref) ==
    [x EXCEPT !.mem.dropped = @ \cup Taken(x.mem.read, leaf),
              !.mem.read = With(@, leaf, [ref |-> ref])]
Drop(x, ref) == [x EXCEPT !.mem.dropped = @ \cup {ref}]

\* The end of AddLeafObjectL: an error it does not list is not answered.
KErrNotFound == -1
KErrGeneral == -2
KErrArgument == -6
KErrOverflow == -9
Answer(x, ref, err) ==
    CASE err \in {KErrNotFound, KErrArgument, KErrOverflow} -> SetStatus(x, ref, "EInvalidObject")
      [] err = KErrGeneral -> SetStatus(x, ref, "EError")
      [] OTHER -> Drop(x, ref)

\* AddLeafObjectL, and UpdateLeafObjectL calls it.
AddLeafObject(x, leaf, obj, ref) ==
    CASE leaf \notin Settings -> Answer(x, ref, KErrNotFound)
      [] leaf \in Settings /\ obj.long -> SetStatus(x, ref, "ETooLargeObject")
      [] leaf \in Flags /\ ~obj.long ->
            IF obj.text \in {"True", "False"} THEN BufferWrite(x, leaf, obj, ref)
            ELSE Answer(x, ref, KErrArgument)
      [] OTHER ->
            IF obj.num >= 0 THEN BufferWrite(x, leaf, obj, ref) ELSE Answer(x, ref, obj.num)

\* FetchLeafObjectL waits; FetchLeafObjectSizeL returns and says nothing.
FetchLeafObject(x, leaf, ref) ==
    IF leaf \in Settings THEN BufferRead(x, leaf, ref) ELSE SetStatus(x, ref, "ENotFound")
FetchLeafObjectSize(x, leaf, ref) == Drop(x, ref)

\* ChildURIListL and AddNodeObjectL know the node WLAN.
ChildURIList(x, node, ref) == SetStatus(x, ref, IF node = "WLAN" THEN "EOk" ELSE "ENotFound")
AddNodeObject(x, node, ref) == SetStatus(x, ref, IF node = "WLAN" THEN "EOk" ELSE "EError")

\* DeleteObjectL, the streams, ExecuteCommandL and CopyCommandL.
Refuse(x, ref) == SetStatus(x, ref, "EError")

------------------------------------------------------------------------------
(* CompleteOutstandingCmdsL.  `bad` is the leaves that cannot be set.      *)

\* Mutant of StoreLeaf: the answer is not about this leaf's own store.
StoreLeafUnseen(x, leaf, bad) ==
    IF leaf \in bad THEN SetStatus(x, x.mem.write[leaf].ref, "EOk")
    ELSE SetStatus([x EXCEPT !.db.value = With(@, leaf, x.mem.write[leaf].text)],
                   x.mem.write[leaf].ref, "EOk")

StoreLeaf(x, leaf, bad) ==
    IF leaf \in bad THEN SetStatus(x, x.mem.write[leaf].ref, "EError")
    ELSE SetStatus([x EXCEPT !.db.value = With(@, leaf, x.mem.write[leaf].text)],
                   x.mem.write[leaf].ref, "EOk")
StoreLeaves(x, leaves, bad) ==
    FoldSet(LAMBDA leaf, y : StoreLeaf(y, leaf, bad), x, leaves \cap DOMAIN x.mem.write)

\* StoreCenRepParamsL: the leaf of the other repository first.
StoreCenRepParams(x, fault, bad) ==
    IF fault = "CenRep" THEN StoreLeaves(x, Connectivity, bad)
    ELSE StoreLeaves(StoreLeaves(x, Connectivity, bad), Device, bad)

\* StoreCommsDBParamsL: the user's record is made if there is none, whether there is
\* something to store or not.  The columns are answered before the record is
\* saved (PutRecordChanges).
Unsaved(x, old) ==
    [x EXCEPT !.db.value = [leaf \in (DOMAIN x.db.value \ UserRecord) \cup DOMAIN old |->
                                IF leaf \in UserRecord THEN old[leaf] ELSE x.db.value[leaf]]]
StoreCommsDBParams(x, fault, bad) ==
    LET stored == StoreLeaves([x EXCEPT !.db.record = TRUE], UserRecord, bad)
    IN  CASE fault = "CommsDb" -> x
          [] fault = "Put" -> Unsaved(stored, x.db.value)
          [] OTHER -> stored

\* UpdateStatusAndResultL.
UpdateStatusAndResult(x, leaf, found) ==
    SetStatus(x, x.mem.read[leaf].ref, IF found THEN "EOk" ELSE "EError")
ReadLeaves(x, leaves, found) ==
    FoldSet(LAMBDA leaf, y : UpdateStatusAndResult(y, leaf, found), x, leaves \cap DOMAIN x.mem.read)

\* ReadCenRepParamsL and ReadCommsDBParamsL.
ReadCenRepParams(x, fault) ==
    IF fault = "CenRep" THEN ReadLeaves(x, Connectivity, TRUE)
    ELSE ReadLeaves(ReadLeaves(x, Connectivity, TRUE), Device, TRUE)
ReadCommsDBParams(x, fault) ==
    IF fault = "CommsDb" THEN x ELSE ReadLeaves(x, UserRecord, x.db.record)

\* ExecuteBufferL: each part is tried, and the slots are freed whatever happened.
Freed(x) ==
    LET answered == {x.said[i].ref : i \in DOMAIN x.said}
    IN  [x EXCEPT !.mem = NewMem(x.mem.dropped \cup
                              ((RefsIn(x.mem.write) \cup RefsIn(x.mem.read)) \ answered))]
ExecuteBuffer(x, fault, bad) ==
    Freed(ReadCommsDBParams(ReadCenRepParams(
        StoreCommsDBParams(StoreCenRepParams(x, fault, bad), fault, bad), fault), fault))

------------------------------------------------------------------------------
(* The engine's calls, and the user. *)

Object == "WLAN"
SizeRef(leaf) == [op |-> "size", leaf |-> leaf]

Init == DmInit(NewMem({}), [value |-> << >>, record |-> FALSE], << >>)

New(ref) == Cardinality(open) < MaxOpen /\ \A r \in open : r # ref

UpdateLeaf ==
    \E leaf \in Leaves : \E obj \in Objects[leaf] :
        LET ref == LeafRef(Object, leaf, obj.text)
        IN  New(ref) /\ Serve({ref}, AddLeafObject(X, leaf, obj, ref))
AddNode == \E node \in {"WLAN", "x"} : Serve({Now}, AddNodeObject(X, node, Now))
Fetch ==
    \E leaf \in Leaves :
        \/ /\ New(GetRef(Object, leaf))
           /\ Serve({GetRef(Object, leaf)}, FetchLeafObject(X, leaf, GetRef(Object, leaf)))
        \/ /\ New(SizeRef(leaf))
           /\ Serve({SizeRef(leaf)}, FetchLeafObjectSize(X, leaf, SizeRef(leaf)))
List == \E node \in {"WLAN", "x"} : Serve({Now}, ChildURIList(X, node, Now))
Other == Serve({Now}, Refuse(X, Now))

Bad == IF "Set" \in Faults THEN SUBSET DOMAIN mem.write ELSE {{}}
Complete ==
    \E fault \in {"none"} \cup (Faults \ {"Set"}), bad \in Bad : Serve({}, ExecuteBuffer(X, fault, bad))
EndSession == \E bad \in Bad : EndWith(ExecuteBuffer(X, "none", bad), NewMem({}))

\* The user restores the settings of the record.
UserEdits ==
    /\ db.record
    /\ Elsewhere([value |-> Without(db.value, UserRecord), record |-> FALSE], {Object})

Next == UpdateLeaf \/ AddNode \/ Fetch \/ List \/ Other \/ Complete \/ EndSession \/ UserEdits

Spec == Init /\ [][Next]_dmVars

------------------------------------------------------------------------------
(* The part of the common properties that is this adapter's. *)

Held == RefsIn(mem.write) \cup RefsIn(mem.read) \cup mem.dropped

Kept(leaf, text) == leaf \in DOMAIN db.value /\ db.value[leaf] = text
==============================================================================
