-------------------------------- MODULE DmBm --------------------------------
(***************************************************************************)
(* The bearer management adapter (CNSmlDmBmAdapter) and its settings store *)
(* (CNSmlDmBmSettingStore): the destinations (SNAPs) of the connection     *)
(* method manager, which is external.  A SNAP can embed another one, so    *)
(* storing a buffered SNAP may store another one first.                    *)
(*                                                                         *)
(* An object is a record: its text, `ok` whether it can be read as what    *)
(* the leaf holds, `valid` whether the value is one the leaf can have; for *)
(* EmbeddedSNAP `to` is the name the URI ends in and `valid` says that it  *)
(* has the prefix ./ that the store cuts off; for IAPPriorityList `aps`    *)
(* are the access points, `ok` says that each is in the engine's mapping.  *)
(***************************************************************************)
EXTENDS DmAdapter, TLC

CONSTANTS
    Names,      \* names of SNAP nodes
    Ids,        \* bound: the ids of destinations
    Leaves,     \* leaves the server uses
    Objects,    \* leaf -> the objects it is sent
    Points,     \* the access points there are
    MaxOpen     \* bound: commands that are unanswered at a time

\* DDFStructureL.
Access ==
    [leaf \in {"Name", "IAPPriorityList", "Metadata", "Protected", "Hidden"} |->
        {"Get", "Add", "Replace"}] @@
    "EmbeddedSNAP" :> {"Get", "Add", "Replace", "Delete"}

\* CSmlDmBmCommandElement::NewLC, CSmlDmBmSettingsElement::NewLC.
Command(leaf, ref, type, obj) ==
    [leaf |-> leaf, ref |-> ref, type |-> type, obj |-> obj, status |-> "EError",
     executed |-> FALSE]
Node == ""
NoObject == [text |-> "", ok |-> TRUE, valid |-> TRUE, to |-> "", aps |-> << >>]
Settings(name, luid, cmds) ==
    [name |-> name, luid |-> luid, executed |-> FALSE, cmds |-> cmds]
Unset == 0

\* GetSnapIfBuffered: 0 for none.
Buffered(x, name) ==
    LET at == {i \in DOMAIN x.mem.buffer : x.mem.buffer[i].name = name}
    IN  IF at = {} THEN 0 ELSE Min(at)
AppendTo(x, i, cmd) == [x EXCEPT !.mem.buffer[i].cmds = Append(@, cmd)]

\* GetPredefinedSnapIdFromUri: the names the adapter itself gives carry the id.
SnapName(id) == "SNAP" \o ToString(id)
Predefined(name) ==
    IF \E i \in Ids : name = SnapName(i) THEN CHOOSE i \in Ids : name = SnapName(i) ELSE NoLuid

\* MapPredefinedSnapsL, and the id that the caller then uses.
MapPredefinedSnaps(x, name) ==
    IF Luid(x.map, name) = NoLuid /\ Predefined(name) \in DOMAIN x.db
    THEN SetMapping(x, name, Predefined(name)) ELSE x
SnapId(x, name) ==
    IF Luid(x.map, name) # NoLuid THEN Luid(x.map, name) ELSE Predefined(name)

------------------------------------------------------------------------------
\* The ids a new destination can get: none the engine still has a name for.
FreeIds(x) == Ids \ (DOMAIN x.db \cup {x.map[n] : n \in DOMAIN x.map})

(* The store.  An operator that executes a command returns the state, the   *)
(* status, whether the command is marked as executed, and how it left.      *)

Destination(text) ==
    [name |-> text, aps |-> << >>, Metadata |-> "0", Protected |-> "0", Hidden |-> "False",
     embedded |-> NoLuid]
Done(x, status, executed) == [x |-> x, status |-> status, executed |-> executed, left |-> "no"]
Left(x, why) == [x |-> x, status |-> "EError", executed |-> FALSE, left |-> why]

\* RCmDestination::DeleteLD: nobody embeds the destination any longer.
DeleteDestination(d, id) ==
    [i \in DOMAIN d \ {id} |-> IF d[i].embedded = id THEN [d[i] EXCEPT !.embedded = NoLuid] ELSE d[i]]

\* ExecuteSnapCmdL.
ExecuteSnapCmd(x, id, cmd) ==
    IF id \notin DOMAIN x.db THEN Left(x, "NotFound")
    ELSE CASE cmd.type = "Get" -> Done(x, "EOk", TRUE)
           [] cmd.type = "Delete" -> Done([x EXCEPT !.db = DeleteDestination(@, id)], "EOk", TRUE)
           [] OTHER -> Done(x, "EError", FALSE)

\* ExecuteNameCmdL.
ExecuteNameCmd(x, id, cmd) ==
    CASE cmd.type = "Add" -> Done([x EXCEPT !.db[id].name = cmd.obj.text], "EOk", FALSE)
      [] cmd.type = "Get" -> Done(x, "EOk", TRUE)
      [] OTHER -> Done(x, "EError", FALSE)

\* GetIdArrayL: the points of a list, or none where an entry has no number.
GetIdArray(obj) == IF obj.ok THEN {obj.aps} ELSE {}

\* ExecuteIapsCmdL: the list is replaced as a whole or not at all, since what was
\* changed before the leave is not saved.
SetIaps(x, id, obj) ==
    IF GetIdArray(obj) = {} THEN Left(x, "General")
    ELSE IF \E aps \in GetIdArray(obj) : ~ToSet(aps) \subseteq Points THEN Left(x, "NotFound")
    ELSE Done([x EXCEPT !.db[id].aps = obj.aps], "EOk", FALSE)
ExecuteIapsCmd(x, id, cmd) ==
    CASE cmd.type = "Add" -> SetIaps(x, id, cmd.obj)
      [] cmd.type = "Get" -> Done(x, "EOk", TRUE)
      [] OTHER -> Done(x, "EError", FALSE)

\* ExecuteProtectionCmdL, ExecuteHiddenCmdL, ExecuteMetadataCmdL.
SetField(x, id, leaf, obj, bad) ==
    IF ~obj.ok THEN Left(x, "General")
    ELSE IF ~obj.valid THEN Done(x, bad, FALSE)
    ELSE Done([x EXCEPT !.db[id][leaf] = obj.text], "EOk", FALSE)
ExecuteField(x, id, cmd, bad) ==
    CASE cmd.type = "Add" -> SetField(x, id, cmd.leaf, cmd.obj, bad)
      [] cmd.type = "Get" -> Done(x, "EOk", TRUE)
      [] OTHER -> Done(x, "EError", FALSE)
ExecuteProtectionCmd(x, id, cmd) == ExecuteField(x, id, cmd, "EInvalidObject")
ExecuteHiddenCmd(x, id, cmd) ==
    ExecuteField(x, id, [cmd EXCEPT !.obj.ok = TRUE], "EInvalidObject")
ExecuteMetadataCmd(x, id, cmd) == ExecuteField(x, id, cmd, "EError")

\* AddEmbeddedDestinationL: a destination that embeds one cannot be embedded.
CanEmbed(d, id, other) == id # other /\ d[other].embedded = NoLuid
                          /\ \A i \in DOMAIN d : d[i].embedded # id

\* Mutant of Embed: the change is saved after each of its two steps.
EmbedStepwise(x, id, obj) ==
    LET other == IF obj.valid THEN Luid(x.map, obj.to) ELSE NoLuid
        y == [x EXCEPT !.db[id].embedded = NoLuid]
    IN  CASE other = NoLuid -> Done(x, "EInvalidObject", TRUE)
          [] other # NoLuid /\ other \notin DOMAIN x.db -> Left(x, "NotFound")
          [] OTHER -> IF CanEmbed(y.db, id, other)
                      THEN Done([y EXCEPT !.db[id].embedded = other], "EOk", TRUE)
                      ELSE Left(y, "Argument")
\* ExecuteEmbeddedSnapCmdL once the other SNAP is stored.  The old embedded one
\* goes only when the new one can be had.
EmbedOther(x, id, other) ==
    IF other = NoLuid THEN Done(x, "EInvalidObject", TRUE)
    ELSE IF other \notin DOMAIN x.db THEN Left(x, "NotFound")
    ELSE IF CanEmbed([x.db EXCEPT ![id].embedded = NoLuid], id, other)
        THEN Done([x EXCEPT !.db[id].embedded = other], "EOk", TRUE)
    ELSE Left(x, "Argument")
Embed(x, id, obj) == EmbedOther(x, id, IF obj.valid THEN Luid(x.map, obj.to) ELSE NoLuid)
EmbeddedOther(x, id, cmd) ==
    IF x.db[id].embedded = NoLuid THEN Done(x, "ENotFound", TRUE)
    ELSE IF cmd.type = "Get" THEN Done(x, "EOk", TRUE)
    ELSE Done([x EXCEPT !.db[id].embedded = NoLuid], "EOk", FALSE)

\* StoreSnapL: what a leave of a command is to the server.
Trapped(r) ==
    CASE r.left = "no" -> r.status
      [] r.left = "NotFound" -> "ENotFound"
      [] r.left = "Argument" -> "EInvalidObject"
      [] OTHER -> "EError"
Mark(x, i, j, status, executed) ==
    [x EXCEPT !.mem.buffer[i].cmds[j] = [@ EXCEPT !.status = status, !.executed = executed]]

(* Storing a SNAP may need another one stored first, so that StoreSnapL     *)
(* comes back to itself: `todo` is what the nested calls have still to do,  *)
(* the next first.                                                          *)

\* To store entry i, to execute its commands from j on but for `skip`, or command j
\* alone, and to give the name of an entry that was stored for another its id.
ToStore(i) == [do |-> "store", i |-> i]
ToExecuteCmds(i, j, skip) == [do |-> "commands", i |-> i, j |-> j, skip |-> skip]
ToTry(i, j) == [do |-> "try", i |-> i, j |-> j]
ToMap(i, name) == [do |-> "map", i |-> i, name |-> name]
Then(x, todo) == [x |-> x, todo |-> todo]

\* StoreSnapIfBufferedL.
MapStored(x, e, name) ==
    IF e.cmds[1].executed /\ e.cmds[1].status = "EOk" THEN SetMapping(x, name, e.luid) ELSE x
StoreSnapIfBuffered(x, name) ==
    LET i == Buffered(x, name)
    IN  IF i = 0 \/ x.mem.buffer[i].luid # Unset THEN << >> ELSE << ToStore(i), ToMap(i, name) >>

\* ExecuteCmdL: one command on the destination `id`.
ExecuteLeafCmd(x, id, cmd) ==
    CASE cmd.leaf = "Name" -> ExecuteNameCmd(x, id, cmd)
      [] cmd.leaf = "IAPPriorityList" -> ExecuteIapsCmd(x, id, cmd)
      [] cmd.leaf = "Metadata" -> ExecuteMetadataCmd(x, id, cmd)
      [] cmd.leaf = "Protected" -> ExecuteProtectionCmd(x, id, cmd)
      [] cmd.leaf = "Hidden" -> ExecuteHiddenCmd(x, id, cmd)
      [] cmd.leaf = "EmbeddedSNAP" ->
            IF cmd.type = "Add" THEN Embed(x, id, cmd.obj) ELSE EmbeddedOther(x, id, cmd)
      [] OTHER -> Done(x, "ENotFound", FALSE)
ExecuteCmd(x, id, cmd) ==
    IF cmd.leaf = Node THEN ExecuteSnapCmd(x, id, cmd)
    ELSE IF id \notin DOMAIN x.db THEN Left(x, "NotFound")
    ELSE ExecuteLeafCmd(x, id, cmd)

\* ExecuteEmbeddedSnapCmdL stores the other SNAP before it embeds it.
Before(x, id, cmd) ==
    IF /\ id \in DOMAIN x.db /\ cmd.leaf = "EmbeddedSNAP"
       /\ cmd.type = "Add" /\ cmd.obj.valid
    THEN StoreSnapIfBuffered(x, cmd.obj.to) ELSE << >>

\* The loop over the commands of a SNAP, which ends with one that deletes it.
IsDelete(cmd) == cmd.leaf = Node /\ cmd.type = "Delete"
MarkTried(r, i, j, deleting) ==
    IF deleting THEN Mark(r.x, i, j, r.status, r.executed) ELSE Mark(r.x, i, j, Trapped(r), TRUE)
Try(x, i, j, cmd) ==
    MarkTried(ExecuteCmd(x, x.mem.buffer[i].luid, cmd), i, j, IsDelete(cmd))
ExecuteCmds(x, i, j, skip) ==
    IF j > Len(x.mem.buffer[i].cmds) THEN << >>
    ELSE IF IsDelete(x.mem.buffer[i].cmds[j]) THEN << ToTry(i, j) >>
    ELSE IF j = skip THEN << ToExecuteCmds(i, j + 1, skip) >>
    ELSE Before(x, x.mem.buffer[i].luid, x.mem.buffer[i].cmds[j])
             \o << ToTry(i, j), ToExecuteCmds(i, j + 1, skip) >>

\* A new destination has the name of the first Name command, which is thereby done.
IsNew(cmd) == cmd.leaf = Node /\ cmd.type = "Add"
Create(x, i, id, at) ==
    [x EXCEPT !.db = With(@, id, Destination(x.mem.buffer[i].cmds[at].obj.text)),
              !.mem.buffer[i].luid = id]
StoreNew(x, i, names) ==
    IF names = {} THEN Then(x, << >>)
    ELSE Then(Mark(Mark(Create(x, i, Min(FreeIds(x)), Min(names)), i, 1, "EOk", TRUE),
                   i, Min(names), "EOk", TRUE),
              << ToExecuteCmds(i, 2, Min(names)) >>)
StoreOld(x, i, luid) ==
    Then(x, IF luid \in DOMAIN x.db THEN << ToExecuteCmds(i, 1, 0) >> ELSE << >>)
StoreEntry(x, i, e) ==
    IF IsNew(e.cmds[1]) THEN StoreNew(x, i, {j \in DOMAIN e.cmds : e.cmds[j].leaf = "Name"})
    ELSE StoreOld(x, i, e.luid)
StoreSnap(x, i) == StoreEntry([x EXCEPT !.mem.buffer[i].executed = TRUE], i, x.mem.buffer[i])

\* The next thing to do, and all of them: at most five for each command that waits,
\* of which there are MaxOpen at most.
Do(x, t) ==
    CASE t.do = "store" -> StoreSnap(x, t.i)
      [] t.do = "commands" -> Then(x, ExecuteCmds(x, t.i, t.j, t.skip))
      [] t.do = "try" -> Then(Try(x, t.i, t.j, x.mem.buffer[t.i].cmds[t.j]), << >>)
      [] OTHER -> Then(MapStored(x, x.mem.buffer[t.i], t.name), << >>)
DoNext(w) ==
    IF w.todo = << >> THEN w
    ELSE LET r == Do(w.x, Head(w.todo)) IN Then(r.x, r.todo \o Tail(w.todo))
MaxSteps == 5 * MaxOpen + 2
DoAll(x, todo) ==
    LET done[n \in 0 .. MaxSteps] == IF n = 0 THEN Then(x, todo) ELSE DoNext(done[n - 1])
    IN  done[MaxSteps].x

------------------------------------------------------------------------------
(* The handlers. *)

\* A command that need not wait.  When it leaves, the engine answers it.
ExecuteNow(x, id, cmd) ==
    IF id = NoLuid THEN SetStatus(x, cmd.ref, "EError")
    ELSE LET r == ExecuteCmd(DoAll(x, Before(x, id, cmd)), id, cmd)
         IN  SetStatus(r.x, cmd.ref, r.status)

\* A command on a SNAP that is buffered waits with it; another is executed at once.
WaitOrExecute(x, name, cmd) ==
    IF Buffered(x, name) # 0 THEN AppendTo(x, Buffered(x, name), cmd)
    ELSE ExecuteNow(x, SnapId(x, name), cmd)

\* UpdateLeafObjectL.  A SNAP whose embedded SNAP waits must wait itself; the test
\* compares the object with the names as they are, without the prefix.
MustWait(x, leaf, obj) == leaf = "EmbeddedSNAP" /\ ~obj.valid /\ Buffered(x, obj.to) # 0
StartWaiting(x, name, id, cmd) ==
    IF id = NoLuid THEN SetStatus(x, cmd.ref, "EError")
    ELSE [x EXCEPT !.mem.buffer = Append(@, Settings(name, id, <<cmd>>))]
Update(x, name, leaf, obj, cmd) ==
    IF Buffered(x, name) = 0 /\ MustWait(x, leaf, obj)
    THEN StartWaiting(x, name, SnapId(x, name), cmd)
    ELSE WaitOrExecute(x, name, cmd)
UpdateLeafObject(x, name, leaf, obj, ref) ==
    Update(MapPredefinedSnaps(x, name), name, leaf, obj, Command(leaf, ref, "Add", obj))

\* DeleteObjectL, and the commands that need the SNAP to exist.
Unknown(x, name) == Buffered(x, name) = 0 /\ SnapId(x, name) = NoLuid
OnKnown(x, name, cmd) ==
    IF Unknown(x, name) THEN SetStatus(x, cmd.ref, "ENotFound") ELSE WaitOrExecute(x, name, cmd)
DeleteObject(x, name, leaf, ref) ==
    IF leaf \notin {Node, "EmbeddedSNAP"} THEN SetStatus(MapPredefinedSnaps(x, name), ref, "EError")
    ELSE OnKnown(MapPredefinedSnaps(x, name), name, Command(leaf, ref, "Delete", NoObject))

\* FetchLeafObjectL, FetchLeafObjectSizeL.
FetchLeafObject(x, name, leaf, ref) ==
    WaitOrExecute(MapPredefinedSnaps(x, name), name, Command(leaf, ref, "Get", NoObject))
FetchLeafObjectSize(x, name, leaf, ref) == FetchLeafObject(x, name, leaf, ref)

\* ChildURIListL of the root: every destination without a name gets one.
ListSnaps(x, ref) ==
    LET news == {id \in DOMAIN x.db : \A n \in DOMAIN x.map : x.map[n] # id}
    IN  SetStatus([x EXCEPT !.map = [n \in DOMAIN x.map \cup {SnapName(i) : i \in news} |->
                       IF \E i \in news : n = SnapName(i) THEN CHOOSE i \in news : n = SnapName(i)
                       ELSE x.map[n]]], ref, "EOk")

\* ChildURIListL of a SNAP.
ListSnap(x, name, ref) ==
    OnKnown(MapPredefinedSnaps(x, name), name, Command(Node, ref, "Get", NoObject))

\* AddNodeObjectL.
AddNodeObject(x, name, ref) ==
    IF Buffered(x, name) # 0 \/ Luid(x.map, name) # NoLuid THEN SetStatus(x, ref, "EAlreadyExists")
    ELSE [x EXCEPT !.mem.buffer = Append(@, Settings(name, Unset, <<Command(Node, ref, "Add", NoObject)>>))]

\* ExecuteCommandL and CopyCommandL.
ExecuteCommand(x, ref) == SetStatus(x, ref, "EError")

\* CompleteOutstandingCmdsL: the answers for one SNAP, and for all of them.
AnswerCmd(x, cmd) == SetStatus(x, cmd.ref, IF cmd.executed THEN cmd.status ELSE "EError")
AnswerSettings(x, e) ==
    LET answered[n \in 0 .. Len(e.cmds)] ==
            IF n = 0 THEN IF IsNew(e.cmds[1]) THEN MapStored(x, e, e.name) ELSE x
            ELSE AnswerCmd(answered[n - 1], e.cmds[n])
    IN  [answered[Len(e.cmds)] EXCEPT !.mem.buffer = Tail(@)]
AnswerFirst(x) == AnswerSettings(x, x.mem.buffer[1])
CompleteSettings(x) ==
    AnswerFirst(IF x.mem.buffer[1].executed THEN x ELSE DoAll(x, << ToStore(1) >>))
CompleteOutstandingCmds(x) ==
    LET completed[n \in 0 .. Len(x.mem.buffer)] ==
            IF n = 0 THEN x ELSE CompleteSettings(completed[n - 1])
    IN  completed[Len(x.mem.buffer)]

------------------------------------------------------------------------------
(* The engine's calls, and what else changes the settings. *)

NewMem == [buffer |-> << >>]

\* References the adapter holds on to.
Held ==
    UNION {{mem.buffer[i].cmds[j].ref : j \in DOMAIN mem.buffer[i].cmds} : i \in DOMAIN mem.buffer}

\* No command to a node that the server has asked to delete, and none that uses the
\* adapter's name of a destination that has a name already.
Free(ref) ==
    /\ \A n \in DOMAIN map \ {ref.name} : map[n] # Predefined(ref.name)
    /\ Cardinality(open) < MaxOpen
    /\ ref \notin open
    /\ DeleteRef({ref.name}) \notin open

\* The server takes a SNAP out of the one that embeds it before it deletes it.
Embeds(text, name) == \E o \in Objects["EmbeddedSNAP"] : o.text = text /\ o.to = name
Embedded(name) ==
    \/ \E k \in DOMAIN told : k[2] = "EmbeddedSNAP" /\ Embeds(told[k], name)
    \/ \E r \in open : r.op = "leaf" /\ r.leaf = "EmbeddedSNAP" /\ Embeds(r.text, name)

Init == \E S \in SUBSET Ids : DmInit(NewMem, [i \in S |-> Destination("u")], << >>)

AddNode ==
    \E name \in Names :
        /\ Free(NodeRef(name))
        /\ Predefined(name) \notin DOMAIN db
        /\ Len(mem.buffer) < Cardinality(FreeIds(X))
        /\ Serve({NodeRef(name)}, AddNodeObject(X, name, NodeRef(name)))

UpdateLeaf ==
    \E name \in Names, leaf \in Leaves : \E obj \in Objects[leaf] :
        LET ref == LeafRef(name, leaf, obj.text)
        IN  Free(ref) /\ Serve({ref}, UpdateLeafObject(X, name, leaf, obj, ref))

Delete ==
    \E name \in Names, leaf \in {Node, "EmbeddedSNAP", "Name"} :
        LET ref == IF leaf = Node THEN DeleteRef({name}) ELSE UnsetRef(name, leaf)
        IN  /\ Cardinality(open) < MaxOpen
            /\ ref \notin open
            /\ \A n \in DOMAIN map \ {name} : map[n] # Predefined(name)
            /\ leaf = Node => ~Embedded(name)
            /\ Serve({ref}, DeleteObject(X, name, leaf, ref))

Fetch ==
    \E name \in Names, leaf \in Leaves :
        LET ref == GetRef(name, leaf)
        IN  /\ Free(ref)
            /\ \/ Serve({ref}, FetchLeafObject(X, name, leaf, ref))
               \/ Serve({ref}, FetchLeafObjectSize(X, name, leaf, ref))

List ==
    \/ Serve({Now}, ListSnaps(X, Now))
    \/ \E name \in Names :
          LET ref == GetRef(name, Node)
          IN  Free(ref) /\ Serve({ref}, ListSnap(X, name, ref))

Execute == Serve({Now}, ExecuteCommand(X, Now))
Complete == Serve({}, CompleteOutstandingCmds(X))
EndSession == EndWith(CompleteOutstandingCmds(X), NewMem)

\* The user deletes a destination, but not one that is stored and not yet answered.
UserDeletes ==
    \E id \in DOMAIN db :
        /\ \A i \in DOMAIN mem.buffer : mem.buffer[i].luid # id
        /\ Elsewhere(DeleteDestination(db, id), {n \in DOMAIN map : map[n] = id})

Next == AddNode \/ UpdateLeaf \/ Delete \/ Fetch \/ List \/ Execute \/ Complete \/ EndSession
        \/ UserDeletes

Spec == Init /\ [][Next]_dmVars

------------------------------------------------------------------------------
(* The part of the common properties that is this adapter's. *)

\* Whether a Get of the leaf returns what the server was told.
Kept(name, leaf) ==
    LET id == Luid(map, name)
        text == told[<<name, leaf>>]
    IN  /\ id \in DOMAIN db
        /\ CASE leaf = "Name" -> db[id].name = text
             [] leaf \in {"Metadata", "Protected", "Hidden"} -> db[id][leaf] = text
             [] leaf = "IAPPriorityList" ->
                   \E o \in Objects[leaf] : o.text = text /\ db[id].aps = o.aps
             [] OTHER ->
                   \E o \in Objects[leaf] : o.text = text /\
                       (Luid(map, o.to) \in DOMAIN db => db[id].embedded = Luid(map, o.to))
=============================================================================
