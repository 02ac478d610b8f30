-------------------------------- MODULE Fota --------------------------------
(***************************************************************************)
(* The firmware update adapter (CNSmlDmFotaAdapter) with its table of      *)
(* firmware objects.  An Exec starts a download in the FOTA engine         *)
(* (external), which goes on after the session.  When a later session      *)
(* begins the adapter makes an alert of every result that the session's    *)
(* server waits for, and when the server has the alerts it marks the       *)
(* results as sent.                                                        *)
(*                                                                         *)
(* In db: the table (obj), the last identifier it gave (last) and what the *)
(* engine holds of each object (engine).  In mem: the server of the        *)
(* session, if there is one, and the alerts made for it.  Of a row    *)
(* the texts are left out, and of a final result whether the server still  *)
(* waits for it.                                                           *)
(***************************************************************************)
EXTENDS DmAdapter

CONSTANTS
    Servers,        \* management servers
    Names,          \* firmware objects the servers add
    Predefined,     \* the objects there must be: a sequence of names
    MaxId           \* bound: identifiers the table gives

ASSUME NoSuchServer == "none" \notin Servers   \* NoServer
ASSUME PredefinedIsSeq == Predefined \in Seq(STRING)
ASSUME MaxIdIsNat == MaxId \in Nat

NullResult == "waiting"
UndefinedError == "final"
BadUrl == "final"
NoResult == "none"

NoServer == "none"
Targets == {"Download", "DownloadAndUpdate"}

\* DDFStructureL: what a server may do.
Access ==
    [node \in {"FUMO", "object", "PkgName", "PkgVersion", "PkgURL", "State"} \cup Targets |->
        CASE node = "FUMO" -> {"Add", "Get"}
          [] node = "object" -> {"Add", "Delete", "Get"}
          [] node \in {"PkgName", "PkgVersion"} -> {"Add", "Get", "Replace"}
          [] node \in Targets -> {"Get", "Exec"}
          [] node = "PkgURL" -> {"Get", "Replace"}
          [] node = "State" -> {"Get"}]
May(command) == {node \in DOMAIN Access : command \in Access[node]}

Row == [uri |-> "", server |-> NoServer, correlator |-> NoServer, result |-> NullResult]
Idle == [state |-> "EIdle", result |-> NoResult]

\* MapErrorToStatus.
MapErrorToStatus(err) ==
    CASE err = "KErrNone" -> "EOk"
      [] err = "KErrNotFound" -> "ENotFound"
      [] err = "KErrDiskFull" -> "EDiskFull"
      [] err = "KErrOverflow" -> "ETooLargeObject"
      [] OTHER -> "EError"

------------------------------------------------------------------------------
(* The table. *)

Exists(x, id) == id \in DOMAIN x.db.obj

\* AddFwObjectL: the column of the identifier counts on.
AddFwObject(x) ==
    [x EXCEPT !.db = [obj |-> With(@.obj, @.last + 1, Row), last |-> @.last + 1, engine |-> @.engine]]

\* DeleteFwObjectL.
DeleteFwObject(x, id) == [x EXCEPT !.db.obj = Without(@, {id})]

\* SetPkgNameL, SetPkgVersionL, SetPkgUrlL.
SetPkg(x, id, long) ==
    IF long THEN "KErrOverflow" ELSE IF ~Exists(x, id) THEN "KErrNotFound" ELSE "KErrNone"

Written(x, id, row) == IF Exists(x, id) THEN [x EXCEPT !.db.obj[id] = row] ELSE x

\* SetFinalResultL.
SetFinalResult(x, id, result) == Written(x, id, [x.db.obj[id] EXCEPT !.result = result])

\* SetMgmtUriL, SetCorrelatorL, SetServerInfoL: a column of a row.
SetMgmtUri(row) == [row EXCEPT !.uri = "Exec"]
SetCorrelator(row, server) == [row EXCEPT !.correlator = server]
SetServerInfo(row, server) == [row EXCEPT !.server = server]

\* GetEmptyFinalResultsL, of all servers and of one.
GetEmptyFinalResults(x) == {id \in DOMAIN x.db.obj : x.db.obj[id].result = NullResult}
GetEmptyFinalResultsOf(x, server) ==
    {id \in GetEmptyFinalResults(x) : x.db.obj[id].server = server /\ x.db.obj[id].uri # ""}

------------------------------------------------------------------------------
(* Handlers. *)

PkgLeaves == {"PkgName", "PkgVersion", "PkgURL"}

\* UpdateLeafObjectL.  `rep`: the repository with the type of the session, which
\* an address changes, can be had.
UpdateLeafObject(x, luid, leaf, long, ref, rep) ==
    IF luid = NoLuid \/ leaf \notin PkgLeaves THEN SetStatus(x, ref, "ENotFound")
    ELSE IF leaf = "PkgURL" /\ ~rep THEN SetStatus(x, ref, "EError")
    ELSE SetStatus(x, ref, MapErrorToStatus(SetPkg(x, luid, long)))

\* Mutant of DeleteObject: the row goes before the object is found predefined.
DeleteObjectFirst(x, name, luid, ref) ==
    LET y == DeleteFwObject(x, luid)
    IN  IF luid = NoLuid THEN SetStatus(x, ref, "ENotFound")
        ELSE IF name \in ToSet(Predefined) THEN SetStatus(y, ref, "ENotAllowed")
        ELSE IF ~Exists(x, luid) THEN SetStatus(x, ref, "ENotFound")
        ELSE SetStatus([y EXCEPT !.db.engine[luid] = Idle], ref, "EOk")

\* DeleteObjectL: not the predefined ones; the engine deletes its package too.
DeleteObject(x, name, luid, ref) ==
    IF luid = NoLuid THEN SetStatus(x, ref, "ENotFound")
    ELSE IF name \in ToSet(Predefined) THEN SetStatus(x, ref, "ENotAllowed")
    ELSE IF ~Exists(x, luid) THEN SetStatus(x, ref, "ENotFound")
    ELSE SetStatus([DeleteFwObject(x, luid) EXCEPT !.db.engine[luid] = Idle], ref, "EOk")

\* DoFetchObjectL: the state is the engine's and there always.
DoFetchObject(x, luid, leaf) ==
    IF luid # NoLuid /\ (leaf = "State" \/ (leaf \in PkgLeaves /\ Exists(x, luid)))
    THEN "EOk" ELSE "ENotFound"

\* FetchLeafObjectL, FetchLeafObjectSizeL.
FetchLeafObject(x, luid, leaf, ref) == SetStatus(x, ref, DoFetchObject(x, luid, leaf))
FetchLeafObjectSize(x, luid, leaf, ref) == SetStatus(x, ref, DoFetchObject(x, luid, leaf))

\* TableExistsL.
TableExists(x, luid) == luid # NoLuid /\ Exists(x, luid)

\* ChildURIListL of "FUMO", of an object and of the targets below it.
ChildURIList(x, node, luid, ref) ==
    LET found == \/ node = "FUMO"
                 \/ node = "object" /\ TableExists(x, luid)
                 \/ node \in Targets /\ luid # NoLuid
    IN  SetStatus(x, ref, IF found THEN "EOk" ELSE "ENotFound")

\* AddNodeObjectL.  `full`: the disk is full.
AddNodeObject(x, name, parent, ref, rep, full) ==
    IF TableExists(x, parent) THEN SetStatus(x, ref, "EAlreadyExists")
    ELSE IF ~rep THEN SetStatus(x, ref, "EError")
    ELSE IF full THEN SetStatus(x, ref, "EDiskFull")
    ELSE SetStatus(SetMapping(AddFwObject(x), name, x.db.last + 1), ref, "EOk")

\* UpdateLeafObjectL of a stream; ExecuteCommandL of a stream and CopyCommandL.
UpdateStream(x, ref) == SetStatus(x, ref, "ENotFound")
Refuse(x, ref) == SetStatus(x, ref, "EError")

------------------------------------------------------------------------------
(* Exec. *)

Asked(x, id) == SetMgmtUri([x.db.obj[id] EXCEPT !.result = NullResult])

\* Mutant of SaveExecInfo: the server is written before the correlator.
SaveExecInfoEarly(x, id, long) ==
    LET asked == SetServerInfo(Asked(x, id), x.mem.server)
    IN  Written(x, id, IF long THEN asked ELSE SetCorrelator(asked, x.mem.server))

\* SaveExecInfoL writes the columns one after the other: where the correlator is
\* too long those before it are changed.
SaveExecInfo(x, id, long) ==
    Written(x, id, IF long THEN Asked(x, id)
                   ELSE SetServerInfo(SetCorrelator(Asked(x, id), x.mem.server), x.mem.server))

\* DoExecDownloadL.  `err` is what the engine says.
DoExecDownload(x, id, target, ref, err) ==
    CASE err = "KErrNone" ->
            SetStatus([x EXCEPT !.db.engine[id] =
                          [state |-> IF target = "Download" THEN "EDownload" ELSE "EDownloadAndUpdate",
                           result |-> NoResult]], ref, "EOk")
      [] err = "KErrArgument" -> SetStatus(SetFinalResult(x, id, BadUrl), ref, "EInvalidObject")
      [] OTHER -> SetStatus(SetFinalResult(x, id, UndefinedError), ref, "EError")

\* ExecuteCommandL.
ExecuteCommand(x, luid, target, long, ref, rep, err) ==
    IF ~rep THEN SetStatus(x, ref, "EError")
    ELSE IF luid = NoLuid \/ target \notin Targets \/ ~Exists(x, luid) THEN SetStatus(x, ref, "ENotFound")
    ELSE IF long THEN SetStatus(SaveExecInfo(x, luid, long), ref, MapErrorToStatus("KErrOverflow"))
    ELSE DoExecDownload(SaveExecInfo(x, luid, long), luid, target, ref, err)

------------------------------------------------------------------------------
(* The session. *)

\* CheckAndAddPredefinedNodeL: it ends at the first one that is there.  One for
\* which there is no space in the table is passed over.
Missing(x) ==
    CHOOSE n \in 0 .. Len(Predefined) :
        /\ \A i \in 1 .. n : Predefined[i] \notin DOMAIN x.map
        /\ n = Len(Predefined) \/ Predefined[n + 1] \in DOMAIN x.map
AddPredefined(x, name) == SetMapping(AddFwObject(x), name, x.db.last + 1)
CheckAndAddPredefinedNode(x, full) ==
    LET added[n \in 0 .. Len(Predefined)] ==
            CASE n = 0 -> x
              [] n > 0 /\ Predefined[n] \in full -> added[n - 1]
              [] OTHER -> AddPredefined(added[n - 1], Predefined[n])
    IN  added[Missing(x)]

\* MakeGenericAlertsL: for every result the server waits for.
MakeGenericAlerts(x) ==
    LET reported == {id \in GetEmptyFinalResults(x) :
                        /\ x.db.obj[id].server = x.mem.server
                        /\ x.db.obj[id].uri # ""
                        /\ x.db.engine[id].result # NoResult
                        /\ x.db.engine[id].state # "EStartingUpdate"}
    IN  [x EXCEPT !.mem.alerts = {[id |-> id, correlator |-> x.db.obj[id].correlator] : id \in reported}]

\* DDFStructureL.
DDFStructure(x, server, full) ==
    MakeGenericAlerts(CheckAndAddPredefinedNode([x EXCEPT !.mem.server = server], full))

Marked(x, ids, cleaned) ==
    [x EXCEPT !.db =
        [obj |-> [id \in DOMAIN @.obj |->
                     IF id \in ids THEN [@.obj[id] EXCEPT !.result = "final"] ELSE @.obj[id]],
         last |-> @.last,
         engine |-> [id \in DOMAIN @.engine |-> IF id \in ids /\ cleaned THEN Idle ELSE @.engine[id]]]]

\* Mutant of MarkGenericAlertsSent: the test for a result is the wrong way round.
MarkGenericAlertsSentWrong(x, cleaned) ==
    Marked(x, {id \in GetEmptyFinalResultsOf(x, x.mem.server) : x.db.engine[id].result = NoResult}, FALSE)

\* MarkGenericAlertsSentL: every result there is now; the engine is told, and may
\* clean up.
MarkGenericAlertsSent(x, cleaned) ==
    Marked(x, {id \in GetEmptyFinalResultsOf(x, x.mem.server) : x.db.engine[id].result # NoResult}, cleaned)

------------------------------------------------------------------------------
(* The engine's calls, and the engine of the updates. *)

NewMem == [server |-> NoServer, alerts |-> {}]
Running == mem.server # NoServer

Init ==
    DmInit(NewMem, [obj |-> << >>, last |-> 0, engine |-> [id \in 1 .. MaxId |-> Idle]], << >>)

Left == MaxId - db.last

StartSession(server) ==
    \E full \in SUBSET ToSet(Predefined) :
        /\ ~Running
        /\ CheckAndAddPredefinedNode(X, full).db.last <= MaxId
        /\ Serve({}, DDFStructure(X, server, full))

AddNode ==
    \E name \in Names \ DOMAIN map, rep, full \in BOOLEAN :
        /\ Running /\ Left > 0
        /\ Serve({Now}, AddNodeObject(X, name, NoLuid, Now, rep, full))
AddChild ==
    \E name \in DOMAIN map, rep \in BOOLEAN :
        /\ Running /\ Left > 0
        /\ Exists(X, map[name])
        /\ Serve({Now}, AddNodeObject(X, name, map[name], Now, rep, FALSE))

UpdateLeaf ==
    \E name \in Names, leaf \in May("Replace"), long, rep \in BOOLEAN :
        /\ Running
        /\ Serve({Now}, UpdateLeafObject(X, Luid(map, name), leaf, long, Now, rep))

Delete ==
    \E name \in Names \cup ToSet(Predefined) :
        LET ref == DeleteRef({name})
        IN  Running /\ Serve({ref}, DeleteObject(X, name, Luid(map, name), ref))

Fetch ==
    \E name \in Names, leaf \in May("Get") \ Targets, node \in {"FUMO", "object"} \cup Targets :
        /\ Running
        /\ \/ Serve({Now}, FetchLeafObject(X, Luid(map, name), leaf, Now))
           \/ Serve({Now}, FetchLeafObjectSize(X, Luid(map, name), leaf, Now))
           \/ Serve({Now}, ChildURIList(X, node, Luid(map, name), Now))
Other == Running /\ (Serve({Now}, Refuse(X, Now)) \/ Serve({Now}, UpdateStream(X, Now)))

\* The correlator of a server is its own; it may be too long for the table.
Execute ==
    \E name \in Names \cup ToSet(Predefined), target \in May("Exec"),
       long, rep \in BOOLEAN, err \in {"KErrNone", "KErrArgument", "KErrGeneral"} :
        /\ Running
        /\ Serve({Now}, ExecuteCommand(X, Luid(map, name), target, long, Now, rep, err))

\* StreamingSupport with KNSmlDMResetGenAlerts: the server has the alerts.
AlertsSent(server) ==
    \E cleaned \in BOOLEAN :
        /\ mem.server = server
        /\ Serve({}, MarkGenericAlertsSent(X, cleaned))

EndSession == Running /\ EndWith(X, NewMem)

\* The FOTA engine works on, session or not.  An update begins after its download,
\* with or without a result so far.
Success == "ok"
EngineStep(id) ==
    /\ db.engine[id].state \in {"EDownload", "EDownloadAndUpdate", "EStartingUpdate"}
    /\ db' = [db EXCEPT !.engine[id] = [state |-> "EDone", result |-> Success]]
    /\ UNCHANGED <<mem, map, open, told, wrong>>
EngineUpdates(id) ==
    \E result \in {NoResult, Success} :
        /\ db.engine[id].state = "EDownloadAndUpdate"
        /\ db' = [db EXCEPT !.engine[id] = [state |-> "EStartingUpdate", result |-> result]]
        /\ UNCHANGED <<mem, map, open, told, wrong>>

Next ==
    \/ \E server \in Servers : StartSession(server) \/ AlertsSent(server)
    \/ AddNode \/ AddChild \/ UpdateLeaf \/ Delete \/ Fetch \/ Other \/ Execute \/ EndSession
    \/ \E id \in 1 .. MaxId : EngineStep(id) \/ EngineUpdates(id)

Spec == Init /\ [][Next]_dmVars

\* Sessions end; the server has sessions again and again, and infinitely many of
\* them get so far that it has the alerts.
FairTo(server) ==
    /\ WF_dmVars(EndSession)
    /\ SF_dmVars(StartSession(server))
    /\ SF_dmVars(AlertsSent(server))
=============================================================================
