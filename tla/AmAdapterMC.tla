----------------------------- MODULE AmAdapterMC -----------------------------
(***************************************************************************)
(* A small instance: two components, of one name.                          *)
(***************************************************************************)
EXTENDS AmAdapter

\* A value that fits and one that does not, and data.
MCObjects ==
    ("Name" :> {[long |-> FALSE], [long |-> TRUE]}) @@ ("Data" :> {[long |-> FALSE]})

\* Bound: atomics, streams and what the user uninstalls are combined with one component,
\* and in MCSpec running downloads are, too.
OneOnly ==
    \/ mem.atomic \/ mem.buffer # << >> \/ mem.stream # << >> \/ mem.statusRef # << >>
    \/ wrong # {} \/ \E i \in DOMAIN db.comp : ~db.comp[i].present
Loading == \E i \in DOMAIN db.comp : db.comp[i].loading

MCSpec == Init /\ [][Next /\ (OneOnly \/ Loading => db.next <= 2)']_dmVars
MCDownloadSpec == Init /\ [][Next /\ (OneOnly => db.next <= 2)']_dmVars
=============================================================================
