------------------------------ MODULE DmAdapter ------------------------------
(***************************************************************************)
(* What the device management adapters have in common.  An adapter         *)
(* (CSmlDmAdapter) is a plug-in that shows some settings of the device as  *)
(* a subtree of the DM tree.  The DM engine, which is not in this          *)
(* repository, calls it once for every command of the server, with a       *)
(* status reference; the adapter answers through the engine's callback     *)
(* (SetStatusL), at once or, when it buffers commands, in a later call, at *)
(* the latest in CompleteOutstandingCmdsL.  The engine keeps, for the      *)
(* adapter, the mapping from the names of nodes to its local ids (LUIDs).  *)
(*                                                                         *)
(* A handler is an operator from a state X to a state, so that one handler *)
(* can call another, and Serve makes a step of it.                         *)
(***************************************************************************)
EXTENDS Integers, FiniteSets, Sequences, SequencesExt

VARIABLES
    mem,      \* the members of the adapter object
    db,       \* the settings it administers: they outlive it
    map,      \* the engine's mapping, name -> LUID
    open,     \* status references handed to the adapter and not answered yet
    told,     \* what the server was told is stored: <<name, leaf>> -> text
    wrong     \* references that were answered without being open

dmVars == <<mem, db, map, open, told, wrong>>

NoLuid == -1

\* A status reference says what it is for: a node to add, a leaf to write (with
\* its text), a node to delete with those below it (and with what it takes from other nodes, the
\* names of which stay), a leaf to delete, a leaf to get, or a
\* command that is answered at once and changes nothing the server relies on.
NodeRef(name) == [op |-> "node", name |-> name]
LeafRef(name, leaf, text) == [op |-> "leaf", name |-> name, leaf |-> leaf, text |-> text]
DeleteRef(names) == [op |-> "delete", names |-> names, of |-> {}]
DeleteWith(names, of) == [op |-> "delete", names |-> names, of |-> of]
UnsetRef(name, leaf) == [op |-> "unset", name |-> name, leaf |-> leaf]
GetRef(name, leaf) == [op |-> "get", name |-> name, leaf |-> leaf]
Now == [op |-> "now"]

\* A function without some of its arguments, and with a new one.
Without(f, S) == [x \in DOMAIN f \ S |-> f[x]]
With(f, x, y) == [z \in DOMAIN f \cup {x} |-> IF z = x THEN y ELSE f[z]]

Luid(m, name) == IF name \in DOMAIN m THEN m[name] ELSE NoLuid

X == [mem |-> mem, db |-> db, map |-> map, said |-> << >>]

\* MSmlDmCallback::SetStatusL, SetMappingL and RemoveMappingL.
SetStatus(x, ref, status) ==
    [x EXCEPT !.said = Append(@, [ref |-> ref, status |-> status])]
SetMapping(x, name, luid) == [x EXCEPT !.map = With(@, name, luid)]
RemoveMapping(x, name) == [x EXCEPT !.map = Without(@, {name})]

\* What the server concludes from an answer.
Learn(t, a) ==
    IF a.status # "EOk" THEN t
    ELSE CASE a.ref.op = "leaf" -> With(t, <<a.ref.name, a.ref.leaf>>, a.ref.text)
           [] a.ref.op = "delete" -> Without(t, {k \in DOMAIN t : k[1] \in a.ref.names \cup a.ref.of})
           [] a.ref.op = "unset" -> Without(t, {<<a.ref.name, a.ref.leaf>>})
           [] OTHER -> t

\* A call of the engine that hands over `refs` and ends in state x.  The engine
\* forgets the names of nodes that were deleted.
Serve(refs, x) ==
    LET said == x.said
        answered == {said[i].ref : i \in DOMAIN said}
        deleted == UNION {said[i].ref.names : i \in
                       {j \in DOMAIN said : said[j].ref.op = "delete" /\ said[j].status = "EOk"}}
    IN  /\ mem' = x.mem
        /\ db' = x.db
        /\ map' = Without(x.map, deleted)
        /\ open' = (open \cup refs) \ answered
        /\ told' = FoldLeft(Learn, told, said)
        /\ wrong' = wrong \cup (answered \ (open \cup refs))
                    \cup {said[i].ref : i \in {j \in DOMAIN said :
                              \E k \in 1 .. j - 1 : said[k].ref = said[j].ref}}

\* The session ends and with it the adapter object; what it did not answer is
\* never answered.
EndWith(x, m) ==
    /\ mem' = m
    /\ db' = x.db
    /\ map' = x.map
    /\ open' = {}
    /\ told' = FoldLeft(Learn, told, x.said)
    /\ UNCHANGED wrong

\* Somebody else changes the settings; the server's knowledge of these names ends.
Elsewhere(d, names) ==
    /\ db' = d
    /\ told' = Without(told, {k \in DOMAIN told : k[1] \in names})
    /\ UNCHANGED <<mem, map, open, wrong>>

DmInit(m, d, names) ==
    /\ mem = m
    /\ db = d
    /\ map = names
    /\ open = {}
    /\ told = << >>
    /\ wrong = {}

\* No command is answered twice, in one call or in different ones, and none that
\* was not given.
AnsweredOnce == wrong = {}
=============================================================================
