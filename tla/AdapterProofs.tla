--------------------------- MODULE AdapterProofs ---------------------------
(***************************************************************************)
(* What the proofs about the adapters share: induction over the natural    *)
(* numbers for sets of them, with which the recursive functions of the     *)
(* adapters are reasoned about, what a call of the engine does when it is  *)
(* answered once or not at all, and what the operations of the Application *)
(* Management server leave alone.                                          *)
(***************************************************************************)
EXTENDS AMServer, WellFoundedInduction, FiniteSetTheorems, TLAPS

(* Induction. *)

\* A set of natural numbers has a least element.
LEMMA LeastNumber ==
  ASSUME NEW S \in SUBSET Nat, S # {}
  PROVE  \E n \in S : \A k \in S : n <= k
<1>1. IsWellFoundedOn(OpToRel(<, Nat), Nat)
  BY NatLessThanWellFounded
<1>2. PICK n \in S : \A k \in S : <<k, n>> \notin OpToRel(<, Nat)
  BY <1>1, WFMin, Zenon
<1>3. ASSUME NEW k \in S
      PROVE  n <= k
  <2>1. <<k, n>> \in Nat \X Nat
    OBVIOUS
  <2>2. ~(k < n)
    BY <1>2, <2>1, SMT DEF OpToRel
  <2> QED
    BY <2>2
<1> QED
  BY <1>3

\* A set of natural numbers that has 0 and with every number below N its successor
\* has all up to N.
LEMMA InductionUpTo ==
  ASSUME NEW N \in Nat, NEW S \in SUBSET Nat, 0 \in S,
         \A n \in 0 .. N - 1 : n \in S => n + 1 \in S
  PROVE  0 .. N \subseteq S
<1> SUFFICES ASSUME (0 .. N) \ S # {}
             PROVE  FALSE
  OBVIOUS
<1>1. (0 .. N) \ S \in SUBSET Nat
  OBVIOUS
<1>2. PICK n \in (0 .. N) \ S : \A k \in (0 .. N) \ S : n <= k
  BY <1>1, LeastNumber
<1>3. n # 0 /\ n - 1 \in 0 .. N - 1 /\ n - 1 \in S
  BY <1>2
<1>4. (n - 1) + 1 \in S
  BY <1>3
<1> QED
  BY <1>3, <1>4

-----------------------------------------------------------------------------
(* A call of the engine. *)

\* A call that hands over nothing and is answered by nothing leaves the commands as
\* they were.
LEMMA ServedSilently ==
  ASSUME NEW x, x.said = << >>, Serve({}, x)
  PROVE  /\ mem' = x.mem /\ db' = x.db /\ map' = Without(x.map, {})
         /\ open' = open /\ wrong' = wrong
<1>1. DOMAIN x.said = {}
  OBVIOUS
<1>2. {x.said[i].ref : i \in DOMAIN x.said} = {}
  BY <1>1
<1>3. {x.said[i].ref : i \in {j \in DOMAIN x.said : \E k \in 1 .. j - 1 : x.said[k].ref = x.said[j].ref}} = {}
  BY <1>1
<1>4. UNION {x.said[i].ref.names : i \in
          {j \in DOMAIN x.said : x.said[j].ref.op = "delete" /\ x.said[j].status = "EOk"}} = {}
  BY <1>1
<1> QED
  BY <1>2, <1>3, <1>4 DEF Serve

\* A command that is answered once in its call is neither open nor wrong after it;
\* a node that was deleted loses its name.
LEMMA ServedOnce ==
  ASSUME NEW x, NEW ref, NEW status, Serve({ref}, x),
         x.said = <<[ref |-> ref, status |-> status]>>
  PROVE  /\ mem' = x.mem /\ db' = x.db
         /\ map' = Without(x.map, IF ref.op = "delete" /\ status = "EOk" THEN ref.names ELSE {})
         /\ open' = open \ {ref} /\ wrong' = wrong
<1>1. DOMAIN x.said = {1} /\ x.said[1].ref = ref /\ x.said[1].status = status
  OBVIOUS
<1>2. {x.said[i].ref : i \in DOMAIN x.said} = {ref}
  BY <1>1
<1>3. {x.said[i].ref : i \in {j \in DOMAIN x.said : \E k \in 1 .. j - 1 : x.said[k].ref = x.said[j].ref}} = {}
  BY <1>1
<1>4. UNION {x.said[i].ref.names : i \in
          {j \in DOMAIN x.said : x.said[j].ref.op = "delete" /\ x.said[j].status = "EOk"}}
      = IF ref.op = "delete" /\ status = "EOk" THEN ref.names ELSE {}
  BY <1>1
<1>5. open' = (open \cup {ref}) \ {ref} /\ wrong' = wrong \cup ({ref} \ (open \cup {ref})) \cup {}
  BY <1>2, <1>3 DEF Serve
<1> QED
  BY <1>4, <1>5 DEF Serve

\* There is one answer.
Replied(x, ref) == \E status : x.said = <<[ref |-> ref, status |-> status]>>

\* A call with one answer, to whatever command, or without any.
LEMMA ServedAtMostOnce ==
  ASSUME NEW refs, NEW x, NEW ref, Serve(refs, x), x.said = << >> \/ Replied(x, ref),
         ref.op # "delete"
  PROVE  /\ mem' = x.mem /\ db' = x.db /\ map' = Without(x.map, {})
         /\ open' \subseteq open \cup refs /\ wrong' \subseteq wrong \cup {ref}
<1> DEFINE answered == {x.said[i].ref : i \in DOMAIN x.said}
           again == {x.said[i].ref : i \in {j \in DOMAIN x.said :
                        \E k \in 1 .. j - 1 : x.said[k].ref = x.said[j].ref}}
           deleted == UNION {x.said[i].ref.names : i \in
                        {j \in DOMAIN x.said : x.said[j].ref.op = "delete" /\ x.said[j].status = "EOk"}}
<1>1. answered \subseteq {ref} /\ again = {} /\ deleted = {}
  <2>1. CASE x.said = << >>
    <3>1. DOMAIN x.said = {}
      BY <2>1
    <3> QED
      BY <3>1
  <2>2. ASSUME NEW status, x.said = <<[ref |-> ref, status |-> status]>>
        PROVE  answered \subseteq {ref} /\ again = {} /\ deleted = {}
    <3>1. DOMAIN x.said = {1} /\ x.said[1].ref = ref
      BY <2>2
    <3>2. answered = {ref} /\ again = {}
      BY <3>1
    <3>3. deleted = {}
      BY <3>1
    <3> QED
      BY <3>2, <3>3
  <2> QED
    BY <2>1, <2>2 DEF Replied
<1>2. /\ mem' = x.mem /\ db' = x.db /\ map' = Without(x.map, deleted)
      /\ open' = (open \cup refs) \ answered
      /\ wrong' = wrong \cup (answered \ (open \cup refs)) \cup again
  BY DEF Serve
<1> HIDE DEF answered, again, deleted
<1> QED
  BY <1>1, <1>2
\* A call of the engine, as far as it does not concern what the server knows.
Answered(x) == {x.said[i].ref : i \in DOMAIN x.said}
Again(x) ==
  {x.said[i].ref : i \in {j \in DOMAIN x.said : \E k \in 1 .. j - 1 : x.said[k].ref = x.said[j].ref}}
Called(refs, x) ==
  /\ mem' = x.mem
  /\ db' = x.db
  /\ open' = (open \cup refs) \ Answered(x)
  /\ wrong' = wrong \cup (Answered(x) \ (open \cup refs)) \cup Again(x)

-----------------------------------------------------------------------------
(* Sequences. *)

IsSeq(s) == \E S : s \in Seq(S)

LEMMA SeqDomain ==
  ASSUME NEW s, IsSeq(s)
  PROVE  Len(s) \in Nat /\ DOMAIN s = 1 .. Len(s)
BY DEF IsSeq

LEMMA SeqAppend ==
  ASSUME NEW s, IsSeq(s), NEW a
  PROVE  /\ IsSeq(Append(s, a)) /\ Len(Append(s, a)) = Len(s) + 1
         /\ Append(s, a)[Len(s) + 1] = a
         /\ \A i \in DOMAIN s : Append(s, a)[i] = s[i]
         /\ DOMAIN Append(s, a) = DOMAIN s \cup {Len(s) + 1}
<1>1. PICK S : s \in Seq(S)
  BY DEF IsSeq
<1>2. s \in Seq(S \cup {a}) /\ a \in S \cup {a}
  BY <1>1
<1>3. Append(s, a) \in Seq(S \cup {a}) /\ Len(Append(s, a)) = Len(s) + 1
  BY <1>2
<1>4. \A i \in 1 .. Len(s) : Append(s, a)[i] = s[i]
  BY <1>2
<1>5. Append(s, a)[Len(s) + 1] = a
  BY <1>2
<1> QED
  BY <1>2, <1>3, <1>4, <1>5 DEF IsSeq

LEMMA SeqExcept ==
  ASSUME NEW s, IsSeq(s), NEW i, NEW a
  PROVE  LET t == [s EXCEPT ![i] = a]
         IN  /\ IsSeq(t) /\ DOMAIN t = DOMAIN s /\ Len(t) = Len(s)
             /\ i \in DOMAIN s => t[i] = a
             /\ \A j \in DOMAIN s \ {i} : t[j] = s[j]
<1> DEFINE t == [s EXCEPT ![i] = a]
<1>1. PICK S : s \in Seq(S)
  BY DEF IsSeq
<1>2. Len(s) \in Nat /\ s \in [1 .. Len(s) -> S]
  BY <1>1
<1>3. t \in [1 .. Len(s) -> S \cup {a}]
  BY <1>2
<1>4. t \in Seq(S \cup {a})
  BY <1>2, <1>3
<1>5. Len(t) = Len(s)
  BY <1>2, <1>3, <1>4
<1>6. IsSeq(t)
  BY <1>4 DEF IsSeq
<1> QED
  BY <1>2, <1>3, <1>5, <1>6

-----------------------------------------------------------------------------
(* The server's operations, for the adapters that have it in common.  The database of an *)
(* adapter may have more than the server's tables.                           *)

Fields == {"user", "state", "old", "target", "loading", "present"}
IsServer(x) ==
  /\ x \in [mem : {x.mem}, db : {x.db}, map : {x.map}, said : {x.said}]
  /\ {"comp", "next", "results", "async", "static"} \subseteq DOMAIN x.db
  /\ \A i \in Ids(x) : DOMAIN x.db.comp[i] = Fields

\* y differs from x in the components, of which none is new, and in the results.
Same(x, y) ==
  /\ IsServer(y)
  /\ y.mem = x.mem /\ y.map = x.map /\ y.said = x.said
  /\ DOMAIN y.db = DOMAIN x.db
  /\ \A f \in DOMAIN x.db \ {"comp", "results"} : y.db[f] = x.db[f]
  /\ Ids(y) \subseteq Ids(x)

\* ... none has come into a state that only an adapter gives it, or has another user
\* id in it.
Follows(x, y) ==
  /\ Same(x, y)
  /\ \A state \in {"Download", "Delete"} : \A i \in IdsIn(y, state) :
        i \in IdsIn(x, state) /\ y.db.comp[i].user = x.db.comp[i].user

\* ... or none has another state or another user id.
Trimmed(x, y) ==
  /\ Same(x, y)
  /\ \A i \in Ids(y) : /\ y.db.comp[i].state = x.db.comp[i].state
                       /\ y.db.comp[i].user = x.db.comp[i].user

LEMMA SameTransitive ==
  ASSUME NEW x, NEW y, NEW z, Same(x, y), Same(y, z)
  PROVE  Same(x, z)
BY DEF Same

LEMMA FollowsTransitive ==
  ASSUME NEW x, NEW y, NEW z, Follows(x, y), Follows(y, z)
  PROVE  Follows(x, z)
BY SameTransitive DEF Follows, IdsIn

LEMMA TrimmedFollows ==
  ASSUME NEW x, NEW y, Trimmed(x, y)
  PROVE  Follows(x, y)
BY DEF Trimmed, Follows, Same, IdsIn

LEMMA TrimmedTransitive ==
  ASSUME NEW x, NEW y, NEW z, Trimmed(x, y), Trimmed(y, z)
  PROVE  Trimmed(x, z)
BY SameTransitive DEF Trimmed, Same

LEMMA NothingChanged ==
  ASSUME NEW x, IsServer(x)
  PROVE  Trimmed(x, x)
BY DEF Trimmed, Same

\* The components are others.
LEMMA ComponentsChanged ==
  ASSUME NEW x, IsServer(x), NEW c, DOMAIN c \subseteq Ids(x),
         \A i \in DOMAIN c : DOMAIN c[i] = Fields
  PROVE  /\ Same(x, [x EXCEPT !.db.comp = c])
         /\ [x EXCEPT !.db.comp = c].db.comp = c
BY DEF IsServer, Same, Ids

\* One component is another.
LEMMA OneChanged ==
  ASSUME NEW x, IsServer(x), NEW i \in Ids(x), NEW e, DOMAIN e = Fields
  PROVE  LET y == [x EXCEPT !.db.comp[i] = e]
         IN  /\ Same(x, y) /\ Ids(y) = Ids(x)
             /\ y.db.comp[i] = e /\ \A j \in Ids(x) \ {i} : y.db.comp[j] = x.db.comp[j]
<1> DEFINE c == [x.db.comp EXCEPT ![i] = e]
<1>1. DOMAIN c = Ids(x) /\ c[i] = e /\ \A j \in Ids(x) \ {i} : c[j] = x.db.comp[j]
  BY DEF Ids
<1>2. \A j \in DOMAIN c : DOMAIN c[j] = Fields
  BY <1>1 DEF IsServer
<1>3. [x EXCEPT !.db.comp[i] = e] = [x EXCEPT !.db.comp = c]
  OBVIOUS
<1> HIDE DEF c
<1> QED
  BY <1>1, <1>2, <1>3, ComponentsChanged, SMTT(40) DEF Ids
\* A component enters a state that the server gives it.
LEMMA StateEntered ==
  ASSUME NEW x, IsServer(x), NEW i \in Ids(x), NEW state, state \notin {"Download", "Delete"}
  PROVE  LET y == InState(x, i, state)
         IN  /\ Follows(x, y) /\ Ids(y) = Ids(x) /\ y.db.comp[i].state = state
             /\ \A j \in Ids(x) \ {i} : y.db.comp[j] = x.db.comp[j]
<1> DEFINE e == Entered(x.db.comp[i], state)
           y == [x EXCEPT !.db.comp[i] = e]
<1>1. DOMAIN e = Fields /\ e.state = state
  BY DEF IsServer, Entered, Fields
<1>2. InState(x, i, state) = y
  BY DEF InState
<1> HIDE DEF e
<1>3. /\ Same(x, y) /\ Ids(y) = Ids(x)
      /\ y.db.comp[i] = e /\ \A j \in Ids(x) \ {i} : y.db.comp[j] = x.db.comp[j]
  BY <1>1, OneChanged
<1> HIDE DEF y
<1>4. Follows(x, y)
  BY <1>1, <1>3 DEF Follows, IdsIn
<1> QED
  BY <1>1, <1>2, <1>3, <1>4

LEMMA Uninstalled ==
  ASSUME NEW x, IsServer(x), NEW i \in Ids(x)
  PROVE  Follows(x, [x EXCEPT !.db.comp[i].present = FALSE])
<1> DEFINE e == [x.db.comp[i] EXCEPT !.present = FALSE]
           y == [x EXCEPT !.db.comp[i] = e]
<1>1. DOMAIN e = Fields /\ e.state = x.db.comp[i].state /\ e.user = x.db.comp[i].user
  BY DEF IsServer, Fields
<1>2. [x EXCEPT !.db.comp[i].present = FALSE] = y
  OBVIOUS
<1> HIDE DEF e
<1>3. /\ Same(x, y) /\ Ids(y) = Ids(x)
      /\ y.db.comp[i] = e /\ \A j \in Ids(x) \ {i} : y.db.comp[j] = x.db.comp[j]
  BY <1>1, OneChanged
<1> HIDE DEF y
<1>4. Follows(x, y)
  BY <1>1, <1>3 DEF Follows, IdsIn
<1> QED
  BY <1>2, <1>4

LEMMA ChangeCompleted ==
  ASSUME NEW x, IsServer(x), NEW i
  PROVE  Trimmed(x, StateChangeComplete(x, i)) /\ Ids(StateChangeComplete(x, i)) = Ids(x)
<1>1. CASE i \notin Ids(x)
  BY <1>1, NothingChanged DEF StateChangeComplete
<1>2. CASE i \in Ids(x)
  <2> DEFINE e == [x.db.comp[i] EXCEPT !.old = "None"]
             y == [x EXCEPT !.db.comp[i] = e]
  <2>1. DOMAIN e = Fields /\ e.state = x.db.comp[i].state /\ e.user = x.db.comp[i].user
    BY <1>2 DEF IsServer, Fields
  <2>2. StateChangeComplete(x, i) = y
    BY <1>2 DEF StateChangeComplete
  <2> HIDE DEF e
  <2>3. /\ Same(x, y) /\ Ids(y) = Ids(x)
        /\ y.db.comp[i] = e /\ \A j \in Ids(x) \ {i} : y.db.comp[j] = x.db.comp[j]
    BY <1>2, <2>1, OneChanged
  <2> HIDE DEF y
  <2> QED
    BY <2>1, <2>2, <2>3 DEF Trimmed
<1> QED
  BY <1>1, <1>2

\* Components are removed.
LEMMA ComponentsRemoved ==
  ASSUME NEW x, IsServer(x), NEW S
  PROVE  LET y == [x EXCEPT !.db.comp = Without(@, S)]
         IN  Trimmed(x, y) /\ Ids(y) = Ids(x) \ S
<1> DEFINE c == Without(x.db.comp, S)
           y == [x EXCEPT !.db.comp = c]
<1>1. DOMAIN c = Ids(x) \ S /\ \A i \in DOMAIN c : c[i] = x.db.comp[i]
  BY DEF Without, Ids
<1>2. \A i \in DOMAIN c : DOMAIN c[i] = Fields
  BY <1>1 DEF IsServer
<1> HIDE DEF c
<1>3. Same(x, y) /\ y.db.comp = c
  BY <1>1, <1>2, ComponentsChanged
<1> HIDE DEF y
<1>4. Trimmed(x, y) /\ Ids(y) = Ids(x) \ S
  BY <1>1, <1>3 DEF Trimmed, Ids
<1> QED
  BY <1>4 DEF y, c

LEMMA ActiveTrimmed ==
  ASSUME NEW x, IsServer(x)
  PROVE  Trimmed(x, ActiveComponents(x))
BY ComponentsRemoved DEF ActiveComponents

LEMMA IdsListed ==
  ASSUME NEW x, IsServer(x), NEW state
  PROVE  LET c == ComponentIds(x, state)
         IN  /\ Trimmed(x, c.x) /\ c.ids = IdsIn(c.x, state)
             /\ c = [x |-> c.x, ids |-> c.ids]
BY ActiveTrimmed, NothingChanged DEF ComponentIds

LEMMA ComponentRemoved ==
  ASSUME NEW x, IsServer(x), NEW i, NEW refuses
  PROVE  Trimmed(x, ServerRemove(x, i, refuses).x) /\ Trimmed(x, ClientRemove(x, i, refuses).x)
<1>1. Trimmed(x, ServerRemove(x, i, refuses).x)
  BY ComponentsRemoved, NothingChanged DEF ServerRemove
<1>2. ClientRemove(x, i, refuses).x = ServerRemove(x, i, refuses).x
  BY DEF ClientRemove, ServerRemove
<1> QED
  BY <1>1, <1>2

LEMMA ApplicationSwitched ==
  ASSUME NEW x, IsServer(x), NEW i
  PROVE  Follows(x, Activate(x, i)) /\ Follows(x, Deactivate(x, i))
BY StateEntered, NothingChanged, TrimmedFollows DEF Activate, Deactivate
\* A component that is given another user id, perhaps, ...
OthersSame(x, z, i) ==
  /\ Same(x, z) /\ Ids(z) = Ids(x)
  /\ \A j \in Ids(x) \ {i} : z.db.comp[j] = x.db.comp[j]

LEMMA Renamed ==
  ASSUME NEW x, IsServer(x), NEW i \in Ids(x), NEW u
  PROVE  OthersSame(x, [x EXCEPT !.db.comp[i].user = u], i) /\ OthersSame(x, x, i)
<1> DEFINE e == [x.db.comp[i] EXCEPT !.user = u]
           z == [x EXCEPT !.db.comp[i] = e]
<1>1. DOMAIN e = Fields
  BY DEF IsServer
<1>2. z = [x EXCEPT !.db.comp[i].user = u]
  OBVIOUS
<1> HIDE DEF e
<1>3. OthersSame(x, z, i)
  BY <1>1, OneChanged DEF OthersSame
<1> HIDE DEF z
<1> QED
  BY <1>2, <1>3 DEF OthersSame, Same

\* ... and then enters a state.
LEMMA RenamedEntered ==
  ASSUME NEW x, IsServer(x), NEW i \in Ids(x), NEW z, OthersSame(x, z, i),
         NEW state, state \notin {"Download", "Delete"}
  PROVE  LET y == InState(z, i, state)
         IN  OthersSame(x, y, i) /\ Follows(x, y) /\ y.db.comp[i].state = state
<1> DEFINE y == InState(z, i, state)
<1>1. /\ Follows(z, y) /\ Ids(y) = Ids(z) /\ y.db.comp[i].state = state
      /\ \A j \in Ids(z) \ {i} : y.db.comp[j] = z.db.comp[j]
  BY StateEntered DEF OthersSame, Same
<1> HIDE DEF y
<1>2. Same(x, y)
  BY <1>1, SameTransitive DEF Follows, OthersSame
<1>3. Follows(x, y)
  BY <1>1, <1>2 DEF Follows, OthersSame, IdsIn
<1> QED
  BY <1>1, <1>2, <1>3 DEF y, OthersSame

LEMMA ComponentInstalled ==
  ASSUME NEW x, IsServer(x), NEW i \in Ids(x)
  PROVE  LET y == Installed(x, i)
         IN  OthersSame(x, y, i) /\ Follows(x, y) /\ y.db.comp[i].state = "Active"
<1>1. \E z : OthersSame(x, z, i) /\ Installed(x, i) = InState(z, i, "Active")
  BY Renamed DEF Installed
<1> QED
  BY <1>1, RenamedEntered

LEMMA ServerInstalls ==
  ASSUME NEW x, IsServer(x), NEW i, NEW end \in InstallEnds
  PROVE  LET r == ServerInstall(x, i, end)
         IN  Follows(x, r.x) /\ Ids(r.x) = Ids(x)
<1>1. Follows(x, x)
  BY NothingChanged, TrimmedFollows
<1> QED
  BY <1>1, ComponentInstalled DEF ServerInstall, InstallEnds, OthersSame

LEMMA DownloadStarted ==
  ASSUME NEW x, IsServer(x), NEW i \in Ids(x), NEW target
  PROVE  Follows(x, StartDownload(x, i, target)) /\ Ids(StartDownload(x, i, target)) = Ids(x)
<1> DEFINE e == Started(x.db.comp[i], target)
           y == [x EXCEPT !.db.comp[i] = e]
<1>1. DOMAIN e = Fields /\ e.state = x.db.comp[i].state /\ e.user = x.db.comp[i].user
  BY DEF IsServer, Started, Fields
<1>2. StartDownload(x, i, target) = y
  BY DEF StartDownload
<1> HIDE DEF e
<1>3. /\ Same(x, y) /\ Ids(y) = Ids(x)
      /\ y.db.comp[i] = e /\ \A j \in Ids(x) \ {i} : y.db.comp[j] = x.db.comp[j]
  BY <1>1, OneChanged
<1> HIDE DEF y
<1> QED
  BY <1>1, <1>2, <1>3 DEF Follows, IdsIn

\* However a download ends.
LEMMA DownloadFollowed ==
  ASSUME NEW x, IsServer(x), NEW i \in Ids(x), NEW end
  PROVE  Follows(x, DownloadEnded(x, i, end)) /\ Ids(DownloadEnded(x, i, end)) = Ids(x)
<1> DEFINE e == Ended(x.db.comp[i])
           y == [x EXCEPT !.db.comp[i] = Ended(@)]
           d == Delivered(y, i)
<1>1. DOMAIN e = Fields /\ e.state = x.db.comp[i].state /\ e.user = x.db.comp[i].user
  BY DEF IsServer, Ended, Fields
<1>2. /\ Same(x, y) /\ Ids(y) = Ids(x)
      /\ y.db.comp[i] = e /\ \A j \in Ids(x) \ {i} : y.db.comp[j] = x.db.comp[j]
  <2> HIDE DEF e
  <2>1. LET z == [x EXCEPT !.db.comp[i] = e]
        IN  /\ Same(x, z) /\ Ids(z) = Ids(x)
            /\ z.db.comp[i] = e /\ \A j \in Ids(x) \ {i} : z.db.comp[j] = x.db.comp[j]
    BY <1>1, OneChanged
  <2> QED
    BY <2>1 DEF e
<1> HIDE DEF e, y
<1>3. Follows(x, y) /\ Ids(y) = Ids(x)
  BY <1>1, <1>2 DEF Follows, IdsIn
<1>4. \E z : OthersSame(y, z, i) /\ d = InState(z, i, "Delivered")
  BY <1>3, Renamed DEF Delivered, Follows, Same
<1>5. Follows(y, d) /\ Ids(d) = Ids(y)
  BY <1>3, <1>4, RenamedEntered, SMTT(40) DEF Follows, Same, OthersSame
<1>6. Follows(x, d) /\ Ids(d) = Ids(x)
  BY <1>3, <1>5, FollowsTransitive
<1> HIDE DEF d
<1>7. LET z == InState(d, i, "Inactive") IN Follows(x, z) /\ Ids(z) = Ids(x)
  BY <1>6, StateEntered, FollowsTransitive DEF Follows, Same
<1>8. LET z == Installed(d, i) IN Follows(x, z) /\ Ids(z) = Ids(x)
  BY <1>6, ComponentInstalled, FollowsTransitive DEF Follows, Same, OthersSame
<1>9. LET z == InState(Installed(d, i), i, "Inactive") IN Follows(x, z) /\ Ids(z) = Ids(x)
  BY <1>8, StateEntered, FollowsTransitive DEF Follows, Same
<1>10. PICK z \in {y, d, InState(d, i, "Inactive"), Installed(d, i), InState(Installed(d, i), i, "Inactive")} :
          DownloadEnded(x, i, end) = IF x.db.async THEN [z EXCEPT !.db.results = @ \cup {i}] ELSE z
  <2> DEFINE r == CASE end = "lost" -> y
                    [] x.db.comp[i].target = "Deliver" \/ end = "failed" -> d
                    [] end = "declined" ->
                           IF x.db.comp[i].target = "Install" THEN InState(d, i, "Inactive") ELSE d
                    [] OTHER ->
                           IF x.db.comp[i].target = "Install"
                           THEN InState(Installed(d, i), i, "Inactive") ELSE Installed(d, i)
  <2>1. DownloadEnded(x, i, end) = IF x.db.async THEN [r EXCEPT !.db.results = @ \cup {i}] ELSE r
    BY Zenon DEF DownloadEnded, d, y
  <2>2. r \in {y, d, InState(d, i, "Inactive"), Installed(d, i), InState(Installed(d, i), i, "Inactive")}
    OBVIOUS
  <2> HIDE DEF r
  <2> QED
    BY <2>1, <2>2, Zenon
<1>12. Follows(x, z) /\ Ids(z) = Ids(x)
  BY <1>3, <1>6, <1>7, <1>8, <1>9, <1>10
<1>11. LET w == [z EXCEPT !.db.results = @ \cup {i}] IN Follows(x, w) /\ Ids(w) = Ids(x)
  BY <1>12, SMTT(40) DEF Follows, Same, IsServer, Ids, IdsIn
<1> QED
  BY <1>10, <1>11, <1>12

\* A new component has the next id.
LEMMA NewComponentIs ==
  ASSUME NEW x, IsServer(x), NEW user, NEW state
  PROVE  LET y == NewComponent(x, user, state)
         IN  /\ IsServer(y) /\ y.mem = x.mem /\ y.map = x.map /\ y.said = x.said
             /\ Ids(y) = Ids(x) \cup {x.db.next} /\ y.db.comp[x.db.next] = Component(user, state)
             /\ \A i \in Ids(x) \ {x.db.next} : y.db.comp[i] = x.db.comp[i]
             /\ y.db.next = x.db.next + 1 /\ DOMAIN y.db = DOMAIN x.db
             /\ \A f \in DOMAIN x.db \ {"comp", "next"} : y.db[f] = x.db[f]
<1> DEFINE id == x.db.next
           e == Component(user, state)
           c == With(x.db.comp, id, e)
           z == [x EXCEPT !.db.comp = c]
           y == [z EXCEPT !.db.next = @ + 1]
<1>1. NewComponent(x, user, state) = y
  BY DEF NewComponent, Added
<1>2. DOMAIN c = Ids(x) \cup {id} /\ c[id] = e /\ \A i \in Ids(x) \ {id} : c[i] = x.db.comp[i]
  BY DEF With, Ids
<1>3. DOMAIN e = Fields
  BY DEF Component, Fields
<1> HIDE DEF e, c
<1>4. \A i \in DOMAIN c : DOMAIN c[i] = Fields
  BY <1>2, <1>3 DEF IsServer
<1>5. /\ z.mem = x.mem /\ z.map = x.map /\ z.said = x.said /\ z.db.comp = c
      /\ DOMAIN z.db = DOMAIN x.db /\ \A f \in DOMAIN x.db \ {"comp"} : z.db[f] = x.db[f]
      /\ z \in [mem : {z.mem}, db : {z.db}, map : {z.map}, said : {z.said}]
  BY DEF IsServer
<1> HIDE DEF z
<1>6. z.db.next = id
  BY <1>5 DEF IsServer
<1>7. /\ y.mem = x.mem /\ y.map = x.map /\ y.said = x.said /\ y.db.comp = c
      /\ DOMAIN y.db = DOMAIN x.db /\ y.db.next = id + 1
      /\ \A f \in DOMAIN x.db \ {"comp", "next"} : y.db[f] = x.db[f]
      /\ y \in [mem : {y.mem}, db : {y.db}, map : {y.map}, said : {y.said}]
  BY <1>5, <1>6 DEF IsServer
<1> HIDE DEF y
<1>8. IsServer(y)
  BY <1>4, <1>7 DEF IsServer, Ids
<1> QED
  BY <1>1, <1>2, <1>7, <1>8 DEF e, Ids
=============================================================================
