------------------------------ MODULE AMServer ------------------------------
(***************************************************************************)
(* What the Application Management server does for the adapters of the DM  *)
(* tree: its deployment components, in the detail the adapters see.  The   *)
(* modules AMStorage, AMDownloads and AMInstaller say how it does it.      *)
(*                                                                         *)
(* db.comp: internal id -> component; db.next: the next internal id;       *)
(* db.results: the components whose download has a result to report;       *)
(* db.async: results are reported by an alert; db.static: the name of the  *)
(* predefined node, "" when there is none.                                 *)
(***************************************************************************)
EXTENDS DmAdapter, TLC

DeployedStates == {"Active", "Inactive"}
Ids(x) == DOMAIN x.db.comp
IdsIn(x, state) == {i \in Ids(x) : x.db.comp[i].state = state}
Lowest(S) == CHOOSE i \in S : \A j \in S : i <= j

Component(user, state) ==
    [user |-> user, state |-> state, old |-> "None",
     target |-> "None", loading |-> FALSE, present |-> TRUE]
Added(x, c) == [[x EXCEPT !.db.comp = With(@, x.db.next, c)] EXCEPT !.db.next = @ + 1]

\* Mutant of NewComponent: a component of the predefined node gets its own user id
\* at once.
NewComponentRenamed(x, user, state) ==
    Added(x, Component(IF user = x.db.static THEN user \o ToString(x.db.next) ELSE user, state))

\* CDeliveryComponentStorage::NewComponentL.
NewComponent(x, user, state) == Added(x, Component(user, state))

\* SetStateL keeps the state before.
Entered(c, state) == [c EXCEPT !.old = c.state, !.state = state]
InState(x, i, state) == [x EXCEPT !.db.comp[i] = Entered(@, state)]
StateChangeComplete(x, i) ==
    IF i \in Ids(x) THEN [x EXCEPT !.db.comp[i].old = "None"] ELSE x

\* InstalledL, with CheckForDuplicateNodesInDeployedL.
Installed(x, i) ==
    LET twin == \E j \in Ids(x) \ {i} :
                    /\ x.db.comp[j].state \in DeployedStates
                    /\ x.db.comp[j].user = x.db.comp[i].user
        y == IF twin THEN [x EXCEPT !.db.comp[i].user = @ \o ToString(i)] ELSE x
    IN  InState(y, i, "Active")

\* Every list of active components drops those that are gone from the device.
ActiveComponents(x) ==
    [x EXCEPT !.db.comp = Without(@, {i \in IdsIn(x, "Active") : ~x.db.comp[i].present})]
ComponentIds(x, state) ==
    LET y == IF state = "Active" THEN ActiveComponents(x) ELSE x
    IN  [x |-> y, ids |-> IdsIn(y, state)]

\* What the server takes for an attribute in each state, without the data.
Attributes ==
    [Delivered |-> {"ID", "Name", "Version", "Description", "InstallOpts", "PkgID", "PkgType"},
     Download |-> {"ID", "Name", "Version", "Description", "InstallOpts", "PkgID", "PkgType",
                   "URI", "ConRef"},
     Active |-> {"Name", "Version", "Description"},
     Inactive |-> {"Name", "Version", "Description"},
     Delete |-> {}]

\* UpdateL, UpdateDataL and UpdateStreamedDataL, up to the value.
UpdateAttribute(x, i, leaf) ==
    IF leaf \in Attributes[x.db.comp[i].state] THEN "KErrNone" ELSE "KErrArgument"
UpdateData(x, i) == IF x.db.comp[i].state = "Delivered" THEN "KErrNone" ELSE "KErrArgument"

\* InstallL: how it may end.  The user may decline, and that is no error.
InstallEnds == {"installed", "declined", "failed"}
ServerInstall(x, i, end) ==
    IF i \notin Ids(x) \/ x.db.comp[i].state # "Delivered" THEN [x |-> x, err |-> "KErrArgument"]
    ELSE CASE end = "installed" -> [x |-> Installed(x, i), err |-> "KErrNone"]
           [] end = "declined" -> [x |-> x, err |-> "KErrNone"]
           [] end = "failed" -> [x |-> x, err |-> "KErrGeneral"]

\* Mutant of ServerUpdate: the old component is marked before the installation.
ServerUpdateEarly(x, i, t, end) ==
    CASE i \notin Ids(x) \/ t \notin Ids(x) -> [x |-> x, err |-> "KErrNotFound"]
      [] x.db.comp[i].state # "Delivered" \/ x.db.comp[t].state \notin DeployedStates ->
            [x |-> x, err |-> "KErrArgument"]
      [] end = "failed" -> [x |-> InState(x, t, "Delete"), err |-> "KErrGeneral"]
      [] OTHER -> [x |-> Installed(InState(x, t, "Delete"), i), err |-> "KErrNone"]

\* FullUpdateL of component i over component t, which stays, with another state.
ServerUpdate(x, i, t, end) ==
    CASE i \notin Ids(x) \/ t \notin Ids(x) -> [x |-> x, err |-> "KErrNotFound"]
      [] x.db.comp[i].state # "Delivered" \/ x.db.comp[t].state \notin DeployedStates ->
            [x |-> x, err |-> "KErrArgument"]
      [] end = "failed" -> [x |-> x, err |-> "KErrGeneral"]
      [] OTHER -> [x |-> Installed(InState(x, t, "Delete"), i), err |-> "KErrNone"]

\* RemoveL.  An installed application may refuse.
ServerRemove(x, i, refuses) ==
    CASE i \notin Ids(x) -> [x |-> x, err |-> "KErrNotFound"]
      [] x.db.comp[i].state = "Delete" -> [x |-> x, err |-> "KErrArgument"]
      [] refuses /\ x.db.comp[i].state \in DeployedStates -> [x |-> x, err |-> "KErrGeneral"]
      [] OTHER -> [x |-> [x EXCEPT !.db.comp = Without(@, {i})], err |-> "KErrNone"]
\* ... for which the client library reports that there is none as success.
ClientRemove(x, i, refuses) ==
    LET r == ServerRemove(x, i, refuses)
    IN  IF r.err = "KErrNotFound" THEN [r EXCEPT !.err = "KErrNone"] ELSE r

\* StateChangeComponentIdsL.
StateChanging(x) == {i \in Ids(x) : x.db.comp[i].old # "None"}

\* SuccessStatusUpdateL: a component of the predefined node gets a user id of its
\* own when it has come.
Delivered(x, i) ==
    InState(IF x.db.comp[i].user = x.db.static
            THEN [x EXCEPT !.db.comp[i].user = @ \o ToString(i)] ELSE x, i, "Delivered")

Started(c, target) == [c EXCEPT !.target = target, !.loading = TRUE]
Ended(c) == [c EXCEPT !.target = "None", !.loading = FALSE]

\* The end of a download (every start sets the target anew): it is installed as far
\* as its target says, and its result is kept for the alert, or in the synchronous
\* mode for the handler.
DownloadEnded(x, i, end) ==
    LET c == x.db.comp[i]
        y == [x EXCEPT !.db.comp[i] = Ended(@)]
        d == Delivered(y, i)
        e == CASE end = "lost" -> y
               [] c.target = "Deliver" \/ end = "failed" -> d
               [] end = "declined" ->
                      IF c.target = "Install" THEN InState(d, i, "Inactive") ELSE d
               [] OTHER ->
                      IF c.target = "Install" THEN InState(Installed(d, i), i, "Inactive")
                      ELSE Installed(d, i)
    IN  IF x.db.async THEN [e EXCEPT !.db.results = @ \cup {i}] ELSE e

\* StartDownloadL.
StartDownload(x, i, target) ==
    [x EXCEPT !.db.comp[i] = Started(@, target)]

\* ActivateL and DeactivateL, for which any state will do.
Deactivate(x, i) == IF i \in Ids(x) THEN InState(x, i, "Inactive") ELSE x
Activate(x, i) == IF i \in Ids(x) THEN InState(x, i, "Active") ELSE x
=============================================================================
