------------------------------- MODULE ScomoMC -------------------------------
(***************************************************************************)
(* Small instances: components of the predefined node with alerts, one of  *)
(* the server with alerts or with streams and atomics, or two with neither. *)
(***************************************************************************)
EXTENDS Scomo

\* A value that fits and one that does not, data of a known and an unknown type.
Sent == [long |-> FALSE, known |-> TRUE]
MCObjects ==
    ("Name" :> {Sent, [Sent EXCEPT !.long = TRUE]}) @@
    ("Data" :> {Sent, [Sent EXCEPT !.known = FALSE]})

\* Bound: what is combined with what.
Small ==
    /\ db.static # "" \/ db.async \/ wrong # {} => db.next <= 2
    /\ db.async => ~mem.atomic /\ mem.stream = << >>
    /\ mem.atomic \/ mem.buffer # << >> \/ mem.stream # << >> \/ mem.statusRef # << >> =>
           db.static = "" /\ db.next <= 2

MCSpec == Init /\ [][Next /\ Small']_scomoVars
=============================================================================
