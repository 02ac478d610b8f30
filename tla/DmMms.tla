-------------------------------- MODULE DmMms --------------------------------
(***************************************************************************)
(* The multimedia messaging adapter (CNSmlDmMMSAdapter): one account with  *)
(* fixed nodes.  The adapter copies the settings of the messaging client   *)
(* (external) when it first needs them, and writes the whole copy back     *)
(* after every command.  The address of the message centre is in the       *)
(* access point, and waits for CompleteOutstandingCmdsL.                   *)
(*                                                                         *)
(* An object is a record: its text, and in num the access point that an    *)
(* URI stands for, -1 for none.                                            *)
(***************************************************************************)
EXTENDS DmAdapter, TLC

CONSTANTS
    Leaves,     \* leaves the server uses
    Objects,    \* leaf -> the objects it is sent
    Points,     \* the access points there are
    MaxOpen     \* bound: commands that are unanswered at a time

\* DDFStructureL: no leaf can be deleted.
Access ==
    [leaf \in {"MMRecep", "CreMode", "AMsg", "RcvAds", "ImgSize", "DRepSnd", "RcvRep",
               "MsgVal", "MMSSAddr", "MToNapIDL"} |-> {"Get", "Add", "Replace"}]

\* ValidateUriL: the leaves there are, with the right parents.
ValidateUri(leaf) == leaf \in DOMAIN Access

NoPoint == -1
NoText == ""
NoCopy == << >>
Settings ==
    [mode |-> "Always on", creation |-> "Warning", anonymous |-> "True", adverts |-> "True",
     image |-> "Small", sending |-> "True", report |-> "False", expiry |-> "3 days",
     point |-> NoPoint]

\* CreateMMSClientL: the copy is made once.
CreateMMSClient(x) ==
    IF x.mem.copy # NoCopy THEN x ELSE [x EXCEPT !.mem.copy = <<x.db.settings>>]

\* The field a leaf stands for, and what it may be; of a truth value everything
\* but the true one is false.
Field ==
    "MMRecep" :> "mode" @@ "CreMode" :> "creation" @@ "AMsg" :> "anonymous" @@
    "RcvAds" :> "adverts" @@ "ImgSize" :> "image" @@ "DRepSnd" :> "sending" @@
    "RcvRep" :> "report" @@ "MsgVal" :> "expiry"
Known ==
    "MMRecep" :> {"Always on", "Off", "Automatic at home", "Always manual"} @@
    "CreMode" :> {"Free", "Restricted", "Warning"} @@ "ImgSize" :> {"Large", "Small"} @@
    "MsgVal" :> {"1 hour", "6 hours", "1 day", "3 days", "1 week", "Max"}

\* ReplaceAPL.
ReplaceAP(s, point) == [s EXCEPT !.point = point]

\* UpdateDataL of everything but the address: the new copy and the status.
UpdateData(s, leaf, obj) ==
    LET refuse(status) == [s |-> s, status |-> status]
        accept(t) == [s |-> t, status |-> "EOk"]
    IN  CASE leaf \in DOMAIN Known /\ obj.text \notin Known[leaf] -> refuse("EInvalidObject")
          [] leaf = "ImgSize" /\ obj.text = "Large" /\ s.creation = "Restricted" ->
                refuse("EInvalidObject")
          [] leaf = "CreMode" /\ obj.text = "Restricted" ->
                accept([s EXCEPT !.image = "Small", !.creation = "Restricted"])
          [] leaf \in DOMAIN Known -> accept([s EXCEPT ![Field[leaf]] = obj.text])
          [] leaf = "DRepSnd" ->
                accept([s EXCEPT !.sending = IF obj.text = "False" THEN "False" ELSE "True"])
          [] leaf \in {"AMsg", "RcvAds", "RcvRep"} ->
                accept([s EXCEPT ![Field[leaf]] = IF obj.text = "True" THEN "True" ELSE "False"])
          [] leaf = "MToNapIDL" ->
                IF obj.num \notin Points THEN refuse("EInvalidObject")
                ELSE accept(ReplaceAP(s, obj.num))
          [] OTHER -> refuse("ENotFound")

\* Mutant of UpdateAddress: the one that waited is dropped.
UpdateAddressOnly(x, obj, ref) ==
    [x EXCEPT !.mem.addr = <<[text |-> obj.text, ref |-> ref]>>]

\* UpdateDataL of the address: one that waits already is an error now.
UpdateAddress(x, obj, ref) ==
    LET y == IF x.mem.addr = << >> THEN x ELSE SetStatus(x, x.mem.addr[1].ref, "EError")
    IN  [y EXCEPT !.mem.addr = <<[text |-> obj.text, ref |-> ref]>>]

\* Mutant of StoreSettings: the copy is not saved while the address waits.
StoreSettingsUnlessWaiting(x) ==
    IF x.mem.copy = NoCopy \/ x.mem.addr # << >> THEN x
    ELSE [x EXCEPT !.db.settings = x.mem.copy[1]]

\* StoreSettingsL.
StoreSettings(x) ==
    IF x.mem.copy = NoCopy THEN x ELSE [x EXCEPT !.db.settings = x.mem.copy[1]]

\* UpdateLeafObjectL.  `mtm` says whether the messaging client can be had.
UpdateLeafObject(x, leaf, obj, ref, mtm) ==
    LET y == CreateMMSClient(x)
        r == UpdateData(y.mem.copy[1], leaf, obj)
    IN  IF ~ValidateUri(leaf) THEN SetStatus(StoreSettings(x), ref, "ENotFound")
        ELSE IF x.mem.copy = NoCopy /\ ~mtm THEN SetStatus(x, ref, "EError")
        ELSE IF ~x.db.service THEN SetStatus(StoreSettings(y), ref, "ENotFound")
        ELSE IF leaf = "MMSSAddr" THEN UpdateAddress(y, obj, ref)
        ELSE SetStatus(StoreSettings([y EXCEPT !.mem.copy = <<r.s>>]), ref, r.status)

------------------------------------------------------------------------------
(* The address. *)

\* IsWAPAccessPointRecordLockedL, DoProtectWAPAccessRecordL.
IsWAPAccessPointRecordLocked(d, point) == point \in DOMAIN d.wap /\ d.wap[point].locked
DoProtectWAPAccessRecord(d, point, protect) ==
    IF point \in DOMAIN d.wap THEN [d EXCEPT !.wap[point].locked = protect] ELSE d

\* Mutant of UpdateMMSAddr: it does not protect again.
UpdateMMSAddrOpen(x) ==
    LET point == x.mem.copy[1].point
        locked == IsWAPAccessPointRecordLocked(x.db, point)
        open0 == IF locked THEN DoProtectWAPAccessRecord(x.db, point, FALSE) ELSE x.db
        found == point \in DOMAIN x.db.wap
    IN  [status |-> IF found THEN "EOk" ELSE "EError",
         db |-> IF found THEN [open0 EXCEPT !.wap[point].page = x.mem.addr[1].text] ELSE open0]

\* UpdateMMSAddrL: a protected access point is opened for the change.
UpdateMMSAddr(x) ==
    LET point == x.mem.copy[1].point
        locked == IsWAPAccessPointRecordLocked(x.db, point)
        open0 == IF locked THEN DoProtectWAPAccessRecord(x.db, point, FALSE) ELSE x.db
        written == [open0 EXCEPT !.wap[point].page = x.mem.addr[1].text]
        found == point \in DOMAIN x.db.wap
        closed(d) == IF locked THEN DoProtectWAPAccessRecord(d, point, TRUE) ELSE d
    IN  [status |-> IF found THEN "EOk" ELSE "EError",
         db |-> closed(IF found THEN written ELSE open0)]

\* Mutant of CompleteOutstandingCmds: the address is answered and kept.
CompleteOutstandingCmdsAgain(x) ==
    LET r == UpdateMMSAddr(x)
    IN  IF x.mem.addr = << >> THEN StoreSettings(x)
        ELSE StoreSettings(SetStatus([x EXCEPT !.db = r.db], x.mem.addr[1].ref, r.status))

\* CompleteOutstandingCmdsL.
CompleteOutstandingCmds(x) ==
    LET r == UpdateMMSAddr(x)
    IN  IF x.mem.addr = << >> THEN StoreSettings(x)
        ELSE StoreSettings([SetStatus([x EXCEPT !.db = r.db], x.mem.addr[1].ref, r.status)
                               EXCEPT !.mem.addr = << >>])

------------------------------------------------------------------------------
(* Reading. *)

\* FetchObjectL.
FetchObject(s, d, leaf) ==
    LET ok(t) == [status |-> "EOk", text |-> t]
        fail(e) == [status |-> e, text |-> ""]
    IN  CASE leaf \in DOMAIN Field -> ok(s[Field[leaf]])
          [] leaf = "MToNapIDL" -> ok(IF s.point = NoPoint THEN "" ELSE ToString(s.point))
          [] leaf = "MMSSAddr" ->
                IF s.point \in DOMAIN d.wap THEN ok(d.wap[s.point].page) ELSE fail("EError")
          [] OTHER -> fail("ENotFound")

\* FetchLeafObjectL, FetchLeafObjectSizeL.
FetchLeafObject(x, leaf, ref, mtm) ==
    LET y == CreateMMSClient(x)
    IN  IF x.mem.copy = NoCopy /\ ~mtm THEN SetStatus(x, ref, "EError")
        ELSE IF ~x.db.service THEN SetStatus(y, ref, "ENotFound")
        ELSE SetStatus(y, ref, FetchObject(y.mem.copy[1], y.db, leaf).status)
FetchLeafObjectSize(x, leaf, ref, mtm) == FetchLeafObject(x, leaf, ref, mtm)

\* ChildURIListL: the nodes are fixed.
ChildURIList(x, known, ref, mtm) ==
    IF x.mem.copy = NoCopy /\ ~mtm THEN SetStatus(x, ref, "EError")
    ELSE SetStatus(CreateMMSClient(x), ref, IF known THEN "EOk" ELSE "ENotFound")

\* DeleteObjectL, AddNodeObjectL, ExecuteCommandL and CopyCommandL.
Refuse(x, ref) == SetStatus(x, ref, "EError")

------------------------------------------------------------------------------
(* The engine's calls, and what else changes the settings. *)

NewMem == [copy |-> NoCopy, addr |-> << >>]
Account == "MMSAcc"
Wap(locked) == [p \in Points |-> [page |-> NoText, locked |-> p \in locked]]

Init ==
    \E service \in BOOLEAN, locked \in SUBSET Points :
        DmInit(NewMem, [settings |-> Settings, service |-> service, wap |-> Wap(locked)], << >>)

UpdateLeaf ==
    \E leaf \in Leaves, mtm \in BOOLEAN : \E obj \in Objects[leaf] :
        LET ref == LeafRef(Account, leaf, obj.text)
        IN  /\ Cardinality(open) < MaxOpen
            /\ \A r \in open : r # ref
            /\ Serve({ref}, UpdateLeafObject(X, leaf, obj, ref, mtm))

Fetch ==
    \E leaf \in Leaves, mtm \in BOOLEAN :
        \/ Serve({Now}, FetchLeafObject(X, leaf, Now, mtm))
        \/ Serve({Now}, FetchLeafObjectSize(X, leaf, Now, mtm))
List == \E known, mtm \in BOOLEAN : Serve({Now}, ChildURIList(X, known, Now, mtm))
Other == Serve({Now}, Refuse(X, Now))

Complete == Serve({}, CompleteOutstandingCmds(X))
EndSession == EndWith(CompleteOutstandingCmds(X), NewMem)

\* The user changes a setting.
UserEdits ==
    \E leaf \in Leaves \cap DOMAIN Known : \E t \in Known[leaf] :
        Elsewhere([db EXCEPT !.settings[Field[leaf]] = t], {Account})

Next == UpdateLeaf \/ Fetch \/ List \/ Other \/ Complete \/ EndSession \/ UserEdits

Spec == Init /\ [][Next]_dmVars

------------------------------------------------------------------------------
(* The part of the common properties that is this adapter's. *)

Held == {mem.addr[i].ref : i \in DOMAIN mem.addr}

\* Whether a Get of the leaf returns what the server was told: the user's changes
\* apart, and images that a creation mode has restricted.
Kept(name, leaf) ==
    CASE leaf = "ImgSize" ->
            <<name, "CreMode">> \in DOMAIN told \/ db.settings.image = told[<<name, leaf>>]
      [] leaf \in DOMAIN Known -> db.settings[Field[leaf]] = told[<<name, leaf>>]
      [] leaf = "MMSSAddr" -> \E p \in Points : db.wap[p].page = told[<<name, leaf>>]
      [] OTHER -> TRUE
==============================================================================
