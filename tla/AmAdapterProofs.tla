--------------------------- MODULE AmAdapterProofs ---------------------------
(***************************************************************************)
(* Proofs about the adapter of the SCM tree for every set of names and     *)
(* objects and every bound.                                                *)
(***************************************************************************)
EXTENDS AmAdapter, AdapterProofs, SequenceTheorems

(* The inductive invariant, of a state that a handler gets or leaves. *)

\* What a rollback answers again, and to what a stream is answered.
Buffers == Seq({AtomicRef, StreamRef})
IsMem(m) ==
  m \in [up : {m.up}, atomic : {m.atomic}, buffer : Buffers, updated : {m.updated},
         stream : {m.stream}, streamed : {m.streamed}, streamOpen : {m.streamOpen},
         statusRef : {<< >>, <<StreamRef>>}]
Good(x) ==
  /\ IsServer(x) /\ IsMem(x.mem)
  /\ x.db.next \in Nat \ {0} /\ Ids(x) \subseteq Nat \ {0}

Inv == Good(X) /\ open \subseteq {StreamRef} /\ wrong \subseteq {StreamRef, AtomicRef}

\* y is a state that follows x in a handler, before its answer, with no component in
\* another state than in x.
Calm(x, y) ==
  /\ Good(y) /\ y.said = x.said /\ y.mem.atomic = x.mem.atomic
  /\ Ids(y) \subseteq Ids(x)
  /\ \A i \in Ids(y) : y.db.comp[i].state = x.db.comp[i].state

\* ... or with no other one given up.
Keeps(x, y) ==
  /\ Good(y) /\ y.said = x.said /\ y.mem.atomic = x.mem.atomic
  /\ IdsIn(y, "Delete") \subseteq IdsIn(x, "Delete")

\* A command that a handler may have got in x.
IsRef(x, ref) == ref \in {Now, AtomicRef, StreamRef} /\ (x.mem.atomic => ref # Now)

-----------------------------------------------------------------------------
(* States in a handler. *)

LEMMA CalmTransitive ==
  ASSUME NEW x, NEW y, NEW z, Calm(x, y), Calm(y, z)
  PROVE  Calm(x, z)
BY DEF Calm

LEMMA CalmItself ==
  ASSUME NEW x, Good(x)
  PROVE  Calm(x, x)
BY DEF Calm

LEMMA CalmKeeps ==
  ASSUME NEW x, NEW y, Calm(x, y)
  PROVE  Keeps(x, y)
BY DEF Calm, Keeps, IdsIn

LEMMA KeepsTransitive ==
  ASSUME NEW x, NEW y, NEW z, Keeps(x, y), Keeps(y, z)
  PROVE  Keeps(x, z)
BY DEF Keeps

LEMMA SameGood ==
  ASSUME NEW x, Good(x), NEW y, Same(x, y)
  PROVE  Good(y) /\ y.said = x.said /\ y.mem = x.mem /\ Ids(y) \subseteq Ids(x)
<1>1. "next" \in DOMAIN x.db \ {"comp", "results"}
  BY DEF Good, IsServer
<1>2. y.db.next = x.db.next
  BY <1>1 DEF Same
<1> QED
  BY <1>2 DEF Same, Good

LEMMA TrimmedCalmly ==
  ASSUME NEW x, Good(x), NEW y, Trimmed(x, y)
  PROVE  Calm(x, y)
BY SameGood DEF Trimmed, Calm

LEMMA FollowedKept ==
  ASSUME NEW x, Good(x), NEW y, Follows(x, y)
  PROVE  Keeps(x, y)
BY SameGood DEF Follows, Keeps

\* The mapping says nothing of the components.
LEMMA MapChanged ==
  ASSUME NEW x, Good(x), NEW m
  PROVE  Calm(x, [x EXCEPT !.map = m])
<1> DEFINE y == [x EXCEPT !.map = m]
<1>1. y = [mem |-> x.mem, db |-> x.db, map |-> m, said |-> x.said]
  BY DEF Good, IsServer
<1>2. Good(y)
  BY <1>1 DEF Good, IsServer, Ids
<1> QED
  BY <1>1, <1>2 DEF Calm, Ids

LEMMA MappingChanged ==
  ASSUME NEW x, Good(x), NEW node, NEW luid
  PROVE  /\ Calm(x, SetMapping(x, node, luid))
         /\ Calm(x, DirectSetMapping(x, node, luid))
         /\ Calm(x, RemoveMapping(x, node))
<1>1. Calm(x, [x EXCEPT !.map = With(@, node, luid)])
  BY MapChanged
<1>2. Calm(x, [x EXCEPT !.map = Without(@, {node})])
  BY MapChanged
<1> QED
  BY <1>1, <1>2 DEF SetMapping, DirectSetMapping, RemoveMapping

LEMMA MappingMoved ==
  ASSUME NEW x, Good(x), NEW from, NEW to
  PROVE  Calm(x, MoveMapping(x, from, to))
<1> DEFINE y == RemoveMapping(x, from)
           luid == DirectGetLuid(x, from)
<1>1. Calm(x, y)
  BY MappingChanged
<1> HIDE DEF y, luid
<1>2. Calm(y, SetMapping(y, to, luid))
  BY <1>1, MappingChanged DEF Calm
<1> QED
  BY <1>1, <1>2, CalmTransitive DEF MoveMapping, y, luid

\* The members that a stream or an atomic sets.
LEMMA MemberSet ==
  ASSUME NEW x, Good(x), NEW m, IsMem(m), m.atomic = x.mem.atomic
  PROVE  Calm(x, [x EXCEPT !.mem = m])
<1> DEFINE y == [x EXCEPT !.mem = m]
<1>1. y = [mem |-> m, db |-> x.db, map |-> x.map, said |-> x.said]
  BY DEF Good, IsServer
<1>2. Good(y)
  BY <1>1 DEF Good, IsServer, Ids
<1> QED
  BY <1>1, <1>2 DEF Calm, Ids

LEMMA MembersSet ==
  ASSUME NEW x, Good(x), NEW v
  PROVE  /\ Calm(x, [x EXCEPT !.mem.updated = v])
         /\ Calm(x, [x EXCEPT !.mem.streamOpen = v])
         /\ Calm(x, [x EXCEPT !.mem.streamed = v])
         /\ Calm(x, [x EXCEPT !.mem.stream = v])
         /\ Calm(x, [x EXCEPT !.mem.statusRef = <<StreamRef>>])
         /\ \A ref \in {AtomicRef, StreamRef} : Calm(x, [x EXCEPT !.mem.buffer = Append(@, ref)])
<1>0. IsMem(x.mem)
  BY DEF Good
<1>1. Calm(x, [x EXCEPT !.mem.updated = v])
  <2> DEFINE m == [x.mem EXCEPT !.updated = v]
  <2>1. IsMem(m) /\ m.atomic = x.mem.atomic
    BY <1>0 DEF IsMem
  <2>2. [x EXCEPT !.mem.updated = v] = [x EXCEPT !.mem = m]
    OBVIOUS
  <2> HIDE DEF m
  <2> QED
    BY <2>1, <2>2, MemberSet
<1>2. Calm(x, [x EXCEPT !.mem.streamOpen = v])
  <2> DEFINE m == [x.mem EXCEPT !.streamOpen = v]
  <2>1. IsMem(m) /\ m.atomic = x.mem.atomic
    BY <1>0 DEF IsMem
  <2>2. [x EXCEPT !.mem.streamOpen = v] = [x EXCEPT !.mem = m]
    OBVIOUS
  <2> HIDE DEF m
  <2> QED
    BY <2>1, <2>2, MemberSet
<1>3. Calm(x, [x EXCEPT !.mem.streamed = v])
  <2> DEFINE m == [x.mem EXCEPT !.streamed = v]
  <2>1. IsMem(m) /\ m.atomic = x.mem.atomic
    BY <1>0 DEF IsMem
  <2>2. [x EXCEPT !.mem.streamed = v] = [x EXCEPT !.mem = m]
    OBVIOUS
  <2> HIDE DEF m
  <2> QED
    BY <2>1, <2>2, MemberSet
<1>4. Calm(x, [x EXCEPT !.mem.stream = v])
  <2> DEFINE m == [x.mem EXCEPT !.stream = v]
  <2>1. IsMem(m) /\ m.atomic = x.mem.atomic
    BY <1>0 DEF IsMem
  <2>2. [x EXCEPT !.mem.stream = v] = [x EXCEPT !.mem = m]
    OBVIOUS
  <2> HIDE DEF m
  <2> QED
    BY <2>1, <2>2, MemberSet
<1>5. Calm(x, [x EXCEPT !.mem.statusRef = <<StreamRef>>])
  <2> DEFINE m == [x.mem EXCEPT !.statusRef = <<StreamRef>>]
  <2>1. IsMem(m) /\ m.atomic = x.mem.atomic
    BY <1>0 DEF IsMem
  <2>2. [x EXCEPT !.mem.statusRef = <<StreamRef>>] = [x EXCEPT !.mem = m]
    OBVIOUS
  <2> HIDE DEF m
  <2> QED
    BY <2>1, <2>2, MemberSet
<1>6. ASSUME NEW ref \in {AtomicRef, StreamRef}
      PROVE  Calm(x, [x EXCEPT !.mem.buffer = Append(@, ref)])
  <2> DEFINE b == Append(x.mem.buffer, ref)
             m == [x.mem EXCEPT !.buffer = b]
  <2>1. b \in Buffers
    BY <1>0 DEF IsMem, Buffers
  <2> HIDE DEF b
  <2>2. IsMem(m) /\ m.atomic = x.mem.atomic
    BY <1>0, <2>1 DEF IsMem
  <2>3. [x EXCEPT !.mem.buffer = Append(@, ref)] = [x EXCEPT !.mem = m]
    BY DEF b
  <2> HIDE DEF m
  <2> QED
    BY <2>2, <2>3, MemberSet
<1> QED
  BY <1>1, <1>2, <1>3, <1>4, <1>5, <1>6

LEMMA StreamingSet ==
  ASSUME NEW x, Good(x), NEW is
  PROVE  Calm(x, Streaming(x, is))
<1> DEFINE y == [x EXCEPT !.mem.streamOpen = is]
<1>1. Calm(x, y)
  BY MembersSet
<1> HIDE DEF y
<1>2. Good(y)
  BY <1>1 DEF Calm
<1>3. Calm(y, [y EXCEPT !.mem.streamed = is])
  BY <1>2, MembersSet
<1> QED
  BY <1>1, <1>3, CalmTransitive DEF Streaming, y
-----------------------------------------------------------------------------
(* The check of the components. *)

LEMMA Completed ==
  ASSUME NEW x, Good(x), NEW i
  PROVE  Calm(x, StateChangeComplete(x, i))
BY ChangeCompleted, TrimmedCalmly DEF Good

LEMMA MovedCompleted ==
  ASSUME NEW x, Good(x), NEW from, NEW to, NEW i
  PROVE  Calm(x, StateChangeComplete(MoveMapping(x, from, to), i))
<1> DEFINE y == MoveMapping(x, from, to)
<1>1. Calm(x, y)
  BY MappingMoved
<1> HIDE DEF y
<1>2. Good(y)
  BY <1>1 DEF Calm
<1>3. Calm(y, StateChangeComplete(y, i))
  BY <1>2, Completed
<1> QED
  BY <1>1, <1>3, CalmTransitive DEF y

\* A check in progress.
Checking(x, s) == DOMAIN s = {"x", "left"} /\ Calm(x, s.x)

LEMMA ReplacedRemoved ==
  ASSUME NEW x, NEW s, Checking(x, s), NEW node, NEW i
  PROVE  Checking(x, RemoveReplaced(s, node, i))
<1> DEFINE u == ServerRemove(s.x, DirectGetLuid(s.x, node), FALSE).x
           v == RemoveMapping(u, node)
           w == StateChangeComplete(v, i)
<1>1. Calm(x, s.x) /\ Good(s.x)
  BY DEF Checking, Calm
<1>2. Trimmed(s.x, u)
  BY <1>1, ComponentRemoved DEF Good
<1> HIDE DEF u
<1>3. Calm(s.x, u) /\ Good(u)
  BY <1>1, <1>2, TrimmedCalmly DEF Calm
<1>4. Calm(u, v)
  BY <1>3, MappingChanged
<1> HIDE DEF v
<1>5. Good(v)
  BY <1>4 DEF Calm
<1>6. Calm(v, w)
  BY <1>5, Completed
<1> HIDE DEF w
<1>7. Calm(x, w)
  BY <1>1, <1>3, <1>4, <1>6, CalmTransitive
<1>8. RemoveReplaced(s, node, i) \in {[s EXCEPT !.left = TRUE], [s EXCEPT !.x = w]}
  BY DEF RemoveReplaced, w, v, u
<1> QED
  BY <1>7, <1>8 DEF Checking

LEMMA OneChecked ==
  ASSUME NEW x, NEW s, Checking(x, s), NEW i
  PROVE  Checking(x, CheckStateChange(s, i))
<1> DEFINE c == s.x.db.comp[i]
           deployed == <<"Deployed", c.user>>
           delivered == <<"Delivered", c.user>>
           download == <<"Download", c.user>>
           origin == Origin(s.x, c.user)
           y1 == StateChangeComplete(s.x, i)
           y2 == StateChangeComplete(MoveMapping(s.x, origin, deployed), i)
           y3 == RemoveMapping(s.x, origin)
           y4 == StateChangeComplete(MoveMapping(s.x, download, deployed), i)
           y5 == StateChangeComplete(MoveMapping(s.x, download, delivered), i)
           y6 == RemoveMapping(s.x, download)
           t == RemoveReplaced(s, deployed, i)
           Put(y) == [s EXCEPT !.x = y]
<1>1. Good(s.x) /\ Calm(x, s.x)
  BY SMTT(40) DEF Checking, Calm
<1>2. CheckStateChange(s, i) \in {s, t, Put(y1), Put(y2), Put(y3), Put(y4), Put(y5), Put(y6)}
  BY DEF CheckStateChange
<1>3. \A y \in {y1, y2, y3, y4, y5, y6} : Calm(s.x, y)
  BY <1>1, Completed, MovedCompleted, MappingChanged
<1>4. Checking(x, t)
  BY ReplacedRemoved
<1> HIDE DEF y1, y2, y3, y4, y5, y6, t
<1>5. \A y \in {y1, y2, y3, y4, y5, y6} : Checking(x, Put(y))
  BY <1>1, <1>3, CalmTransitive DEF Checking
<1> QED
  BY <1>2, <1>4, <1>5
LEMMA EveryChecked ==
  ASSUME NEW x, Good(x)
  PROVE  Checking(x, CheckAll(x))
<1> DEFINE N == x.db.next - 1
           C == StateChanging(x)
           s0 == [x |-> x, left |-> FALSE]
           F(g, n) == CASE n = 0 -> s0
                        [] n \in C -> CheckStateChange(g[n - 1], n)
                        [] OTHER -> g[n - 1]
           Checks(m, g) == g = [n \in 0 .. m |-> F(g, n)]
           checked == CHOOSE g : Checks(N, g)
           S == {m \in Nat : \E g : Checks(m, g)}
           T == {n \in 0 .. N : Checking(x, checked[n])}
<1>0. N \in Nat /\ 0 \notin C
  BY DEF Good, StateChanging
<1> HIDE DEF N, C, s0
<1>1. 0 \in S
  <2>1. Checks(0, [n \in 0 .. 0 |-> s0])
    BY <1>0
  <2> QED
    BY <2>1
<1>2. ASSUME NEW m \in Nat, m \in S
      PROVE  m + 1 \in S
  <2>1. PICK g : Checks(m, g)
    BY <1>2
  <2> DEFINE h == [n \in 0 .. m + 1 |-> IF n <= m THEN g[n] ELSE F(g, n)]
  <2>2. ASSUME NEW n \in 0 .. m + 1
        PROVE  h[n] = F(h, n)
    <3>1. n # 0 => n - 1 \in 0 .. m /\ h[n - 1] = g[n - 1]
      OBVIOUS
    <3>2. F(h, n) = F(g, n)
      <4> HIDE DEF h
      <4> QED
        BY <1>0, <3>1
    <3>3. n <= m => g[n] = F(g, n)
      <4> HIDE DEF F
      <4> QED
        BY <2>1
    <3> QED
      BY <3>2, <3>3
  <2>3. Checks(m + 1, h)
    BY <2>2
  <2> HIDE DEF h, Checks
  <2> QED
    BY <2>3
<1>3. \E g : Checks(N, g)
  <2>1. 0 .. N \subseteq S
    <3> HIDE DEF S
    <3> QED
      BY <1>0, <1>1, <1>2, InductionUpTo DEF S
  <2> QED
    BY <1>0, <2>1
<1>4. Checks(N, checked)
  BY <1>3
<1>5. \A n \in 0 .. N : checked[n] = F(checked, n)
  <2> HIDE DEF F
  <2> QED
    BY <1>4
<1>6. CheckAll(x) = checked[N]
  BY DEF CheckAll, checked, N, C, s0
<1> HIDE DEF checked
<1>7. 0 \in T
  <2>1. checked[0] = s0
    BY <1>0, <1>5
  <2>2. Checking(x, s0)
    BY CalmItself DEF Checking, s0
  <2> QED
    BY <1>0, <2>1, <2>2
<1>8. ASSUME NEW n \in 0 .. N - 1, n \in T
      PROVE  n + 1 \in T
  <2>1. n + 1 \in 0 .. N /\ n + 1 # 0 /\ (n + 1) - 1 = n
    BY <1>0
  <2>2. checked[n + 1] = F(checked, n + 1)
    <3> HIDE DEF F
    <3> QED
      BY <1>5, <2>1
  <2>3. checked[n + 1] \in {checked[n], CheckStateChange(checked[n], n + 1)}
    BY <2>1, <2>2
  <2>4. Checking(x, checked[n])
    BY <1>8
  <2>5. Checking(x, CheckStateChange(checked[n], n + 1))
    BY <2>4, OneChecked
  <2> QED
    BY <2>1, <2>3, <2>4, <2>5
<1>9. 0 .. N \subseteq T
  <2>1. T \in SUBSET Nat
    OBVIOUS
  <2> HIDE DEF T
  <2> QED
    BY <1>0, <1>7, <1>8, <2>1, InductionUpTo
<1> QED
  BY <1>0, <1>6, <1>9

LEMMA Checks ==
  ASSUME NEW x, Good(x)
  PROVE  Calm(x, CheckStateChanges(x))
<1> DEFINE z == ComponentIds(x, "Active").x
           s == CheckAll(z)
           y == Checked(s)
<1>1. Calm(x, z)
  BY IdsListed, TrimmedCalmly DEF Good
<1> HIDE DEF z
<1>2. Good(z)
  BY <1>1 DEF Calm
<1>3. Checking(z, s)
  BY <1>2, EveryChecked
<1> HIDE DEF s
<1>4. Calm(z, s.x) /\ Good(s.x)
  BY <1>3 DEF Checking, Calm
<1>5. Calm(s.x, y)
  BY <1>4, CalmItself, MembersSet DEF Checked
<1> HIDE DEF y
<1>6. Calm(x, y)
  BY <1>1, <1>4, <1>5, CalmTransitive
<1> QED
  BY <1>6, CalmItself DEF CheckStateChanges, y, s, z

-----------------------------------------------------------------------------
(* Which component a command is about. *)

Found(x, g) == g = [x |-> g.x, id |-> g.id] /\ Calm(x, g.x)

LEMMA FoundByName ==
  ASSUME NEW x, Good(x), NEW user, NEW state
  PROVE  Found(x, GetLuidForUserId(x, user, state))
<1> DEFINE c == ComponentIds(x, state)
           found == {i \in c.ids : c.x.db.comp[i].user = user}
<1>1. Calm(x, c.x)
  BY IdsListed, TrimmedCalmly DEF Good
<1>2. GetLuidForUserId(x, user, state) = [x |-> c.x, id |-> IF found = {} THEN 0 ELSE Lowest(found)]
  BY DEF GetLuidForUserId, FindUserId
<1> HIDE DEF found, c
<1> QED
  BY <1>1, <1>2 DEF Found

LEMMA FoundByLuid ==
  ASSUME NEW x, Good(x), NEW luid, NEW user, NEW state
  PROVE  Found(x, GetLuid(x, luid, user, state))
<1>1. Found(x, [x |-> x, id |-> luid])
  BY CalmItself DEF Found
<1> QED
  BY <1>1, FoundByName DEF GetLuid

LEMMA FoundNext ==
  ASSUME NEW x, NEW a, Found(x, a), NEW b, Found(a.x, b)
  PROVE  Found(x, b)
BY CalmTransitive DEF Found

LEMMA FoundDeployed ==
  ASSUME NEW x, Good(x), NEW luid, NEW user
  PROVE  Found(x, GetDeployed(x, luid, user))
<1> DEFINE a == GetLuid(x, luid, user, "Active")
           b == GetLuid(a.x, luid, user, "Inactive")
<1>1. Found(x, a)
  BY FoundByLuid
<1> HIDE DEF a
<1>2. Good(a.x)
  BY <1>1 DEF Found, Calm
<1>3. Found(a.x, b)
  BY <1>2, FoundByLuid
<1> HIDE DEF b
<1>4. GetDeployed(x, luid, user) \in {a, b}
  BY DEF GetDeployed, OrInactive, a, b
<1> QED
  BY <1>1, <1>3, <1>4, FoundNext

LEMMA FoundOther ==
  ASSUME NEW x, NEW a, Found(x, a), NEW node, NEW luid, NEW user
  PROVE  Found(x, OrDelivered(a, node)) /\ Found(x, OrDeployed(a, luid, user))
<1>1. Good(a.x)
  BY DEF Found, Calm
<1>2. Found(x, GetLuidForUserId(a.x, node[2], "Delivered"))
  BY <1>1, FoundByName, FoundNext
<1>3. Found(x, GetDeployed(a.x, luid, user))
  BY <1>1, FoundDeployed, FoundNext
<1> QED
  BY <1>2, <1>3 DEF OrDelivered, OrDeployed

LEMMA TakenOver ==
  ASSUME NEW x, Good(x), NEW node
  PROVE  Found(x, TakeOver(x, node))
<1> DEFINE down == <<"Download", node[2]>>
           luid == DirectGetLuid(x, down)
           y == DirectSetMapping(x, node, luid)
           z == DirectSetMapping(y, down, NoLuid)
           f == GetLeafLuid(x, node)
           d == DirectSetMapping(f.x, node, f.id)
           r1 == [x |-> x, id |-> DirectGetLuid(x, node)]
           r2 == [x |-> z, id |-> luid]
           r3 == Adopt(f, node)
<1>1. Found(x, r1)
  BY CalmItself DEF Found
<1>2. Found(x, r2)
  <2>1. Calm(x, y)
    BY MappingChanged
  <2> HIDE DEF y
  <2>2. Good(y)
    BY <2>1 DEF Calm
  <2>3. Calm(y, z)
    BY <2>2, MappingChanged
  <2> HIDE DEF z
  <2> QED
    BY <2>1, <2>3, CalmTransitive DEF Found
<1>3. Found(x, r3)
  <2>1. Found(x, f)
    BY FoundByName, FoundDeployed DEF GetLeafLuid
  <2> HIDE DEF f
  <2>2. Good(f.x)
    BY <2>1 DEF Found, Calm
  <2>3. Calm(f.x, d)
    BY <2>2, MappingChanged
  <2>4. r3 \in {f, [f EXCEPT !.x = d]}
    BY DEF Adopt
  <2> HIDE DEF d, r3
  <2>5. Found(x, [f EXCEPT !.x = d])
    <3>1. Calm(x, d)
      BY <2>1, <2>3, CalmTransitive DEF Found
    <3>2. [f EXCEPT !.x = d] = [x |-> d, id |-> f.id]
      BY <2>1 DEF Found
    <3> QED
      BY <3>1, <3>2 DEF Found
  <2> QED
    BY <2>1, <2>4, <2>5
<1>4. TakeOver(x, node) \in {r1, r2, r3}
  BY DEF TakeOver
<1> HIDE DEF r1, r2, r3
<1> QED
  BY <1>1, <1>2, <1>3, <1>4
-----------------------------------------------------------------------------
(* Answers. *)

\* y is a state in which a handler that began in x has answered the command, once.
Answers(x, y, ref) ==
  /\ Good(y) /\ Replied(y, ref)
  /\ IdsIn(y, "Delete") \subseteq IdsIn(x, "Delete")

LEMMA StatusSet ==
  ASSUME NEW y, Good(y), y.said = << >>, NEW ref, NEW status
  PROVE  LET z == SetStatus(y, ref, status)
         IN  Good(z) /\ Replied(z, ref) /\ z.db = y.db /\ z.mem = y.mem
<1> DEFINE z == SetStatus(y, ref, status)
           said == <<[ref |-> ref, status |-> status]>>
<1>1. z = [mem |-> y.mem, db |-> y.db, map |-> y.map, said |-> said]
  <2>1. Append(<< >>, [ref |-> ref, status |-> status]) = said
    OBVIOUS
  <2> QED
    BY <2>1 DEF SetStatus, Good, IsServer
<1> HIDE DEF said, z
<1>2. Good(z)
  BY <1>1 DEF Good, IsServer, Ids
<1>3. Replied(z, ref)
  BY <1>1 DEF Replied, said
<1> QED
  BY <1>1, <1>2, <1>3 DEF z

LEMMA BufferedCalmly ==
  ASSUME NEW x, Good(x), NEW ref, IsRef(x, ref)
  PROVE  Calm(x, Buffered(x, ref))
<1>1. CASE x.mem.atomic
  <2>1. ref \in {AtomicRef, StreamRef}
    BY <1>1 DEF IsRef
  <2> QED
    BY <1>1, <2>1, MembersSet DEF Buffered
<1>2. CASE ~x.mem.atomic
  BY <1>2, CalmItself DEF Buffered
<1> QED
  BY <1>1, <1>2

LEMMA AnswerGiven ==
  ASSUME NEW x, x.said = << >>, NEW y, Keeps(x, y), NEW ref, IsRef(x, ref), NEW status
  PROVE  Answers(x, SetStatus(y, ref, status), ref) /\ Answers(x, Answer(y, ref, status), ref)
<1> DEFINE z == SetStatus(y, ref, status)
           b == Buffered(z, ref)
<1>1. Good(z) /\ Replied(z, ref) /\ z.db = y.db /\ z.mem = y.mem
  BY StatusSet DEF Keeps
<1>2. Answer(y, ref, status) \in {z, b}
  BY DEF Answer
<1> HIDE DEF z
<1>3. IsRef(z, ref)
  BY <1>1 DEF IsRef, Keeps
<1>4. Calm(z, b)
  BY <1>1, <1>3, BufferedCalmly
<1> HIDE DEF b
<1>5. Answers(x, z, ref)
  BY <1>1 DEF Answers, Keeps, IdsIn, Ids
<1>6. Answers(x, b, ref)
  <2>1. IdsIn(b, "Delete") \subseteq IdsIn(z, "Delete")
    BY <1>4 DEF Calm, IdsIn
  <2> QED
    BY <1>4, <1>5, <2>1 DEF Answers, Calm, Replied
<1> QED
  BY <1>2, <1>5, <1>6 DEF z

LEMMA AnswersAfter ==
  ASSUME NEW x, NEW y, Keeps(x, y), NEW z, NEW ref, Answers(y, z, ref)
  PROVE  Answers(x, z, ref)
BY DEF Answers, Keeps

\* A handler begins with the check of the components.
LEMMA CheckedFirst ==
  ASSUME NEW x, Good(x), x.said = << >>, NEW ref, IsRef(x, ref)
  PROVE  LET y == CheckStateChanges(x)
         IN  Good(y) /\ y.said = << >> /\ IsRef(y, ref) /\ Calm(x, y) /\ Keeps(x, y)
BY Checks, CalmKeeps DEF Calm, IsRef

\* ... and finds a component.
LEMMA FoundKept ==
  ASSUME NEW x, x.said = << >>, NEW ref, IsRef(x, ref), NEW g, Found(x, g)
  PROVE  /\ Good(g.x) /\ g.x.said = << >> /\ IsRef(g.x, ref) /\ Keeps(x, g.x)
         /\ \A status : /\ Answers(x, SetStatus(g.x, ref, status), ref)
                        /\ Answers(x, Answer(g.x, ref, status), ref)
<1>1. Good(g.x) /\ g.x.said = << >> /\ IsRef(g.x, ref) /\ Keeps(x, g.x)
  BY CalmKeeps DEF Found, Calm, IsRef
<1> QED
  BY <1>1, AnswerGiven

-----------------------------------------------------------------------------
(* Commands. *)

LEMMA LeafUpdated ==
  ASSUME NEW x, Good(x), x.said = << >>, NEW ref, IsRef(x, ref), NEW node, NEW leaf, NEW o
  PROVE  Answers(x, UpdateLeafObject(x, node, leaf, o, ref), ref)
<1> DEFINE y == CheckStateChanges(x)
           luid == DirectGetLuid(y, node)
           z == Closed(y, leaf, luid)
           status == WriteLeaf(y, leaf, o, luid)
<1>1. Good(y) /\ y.said = << >> /\ IsRef(y, ref) /\ Keeps(x, y)
  BY CheckedFirst
<1> HIDE DEF y
<1>2. Keeps(y, z)
  BY <1>1, CalmItself, MembersSet, CalmKeeps DEF Closed
<1> HIDE DEF z, status
<1>3. Answers(y, Answer(z, ref, status), ref)
  BY <1>1, <1>2, AnswerGiven
<1>4. UpdateLeafObject(x, node, leaf, o, ref) = Answer(z, ref, status)
  BY DEF UpdateLeafObject, UpdateChecked, z, status, y
<1> QED
  BY <1>1, <1>3, <1>4, AnswersAfter

\* A stream is answered, now or when it has come.
LEMMA StreamOpened ==
  ASSUME NEW x, Good(x), x.said = << >>, NEW node, NEW leaf
  PROVE  LET y == StreamLeafObject(x, node, leaf, StreamRef)
         IN  Answers(x, y, StreamRef) \/ Keeps(x, y)
<1> DEFINE luid == DirectGetLuid(x, node)
           opens == ~x.mem.streamOpen /\ leaf \in DataLeaves
           y == [x EXCEPT !.mem.stream = <<[leaf |-> leaf, luid |-> luid]>>]
           w == Streaming(y, TRUE)
           z == IF opens THEN w ELSE y
           u == [z EXCEPT !.mem.statusRef = <<StreamRef>>]
           status == IF opens \/ x.mem.streamOpen THEN "EOk" ELSE "EError"
<1>0. IsRef(x, StreamRef)
  BY DEF IsRef, StreamRef, Now
<1>1. Calm(x, y)
  BY MembersSet
<1> HIDE DEF y
<1>2. Good(y)
  BY <1>1 DEF Calm
<1>3. Calm(y, w)
  BY <1>2, StreamingSet
<1> HIDE DEF w
<1>4. Calm(x, z) /\ Good(z)
  BY <1>1, <1>3, CalmTransitive DEF Calm
<1>5. StreamLeafObject(x, node, leaf, StreamRef)
      \in {SetStatus(x, StreamRef, "EError"), Buffered(z, StreamRef), SetStatus(u, StreamRef, status)}
  BY DEF StreamLeafObject, z, w, y
<1> HIDE DEF z
<1>6. Calm(z, Buffered(z, StreamRef))
  BY <1>0, <1>4, BufferedCalmly DEF IsRef, Calm
<1>7. Calm(z, u)
  BY <1>4, MembersSet
<1> HIDE DEF u, status
<1>8. Keeps(x, Buffered(z, StreamRef)) /\ Keeps(x, u) /\ Keeps(x, x)
  BY <1>4, <1>6, <1>7, CalmTransitive, CalmKeeps, CalmItself
<1>9. /\ Answers(x, SetStatus(u, StreamRef, status), StreamRef)
      /\ Answers(x, SetStatus(x, StreamRef, "EError"), StreamRef)
  BY <1>0, <1>8, AnswerGiven
<1> QED
  BY <1>5, <1>8, <1>9

LEMMA StreamSent ==
  ASSUME NEW x, Good(x), x.said = << >>
  PROVE  LET y == StreamCommitted(x)
         IN  Answers(x, y, StreamRef) \/ Keeps(x, y)
<1> DEFINE c == CheckStateChanges(x)
           w == Streaming(c, FALSE)
           y == [w EXCEPT !.mem.stream = << >>]
           s == x.mem.stream[1]
           status == WriteLeaf(c, s.leaf, [long |-> FALSE], s.luid)
<1>0. IsRef(x, StreamRef)
  BY DEF IsRef, StreamRef, Now
<1>1. Good(c) /\ c.said = << >> /\ IsRef(c, StreamRef) /\ Calm(x, c)
  BY <1>0, CheckedFirst
<1> HIDE DEF c
<1>2. Calm(c, w)
  BY <1>1, StreamingSet
<1> HIDE DEF w
<1>3. Calm(w, y)
  <2>1. Good(w)
    BY <1>2 DEF Calm
  <2> QED
    BY <2>1, MembersSet
<1>4. StreamCommitted(x) = IF c.mem.statusRef = << >> THEN y
                           ELSE SetStatus(y, c.mem.statusRef[1], status)
  BY DEF StreamCommitted, CommitChecked, y, w, c, status
<1> HIDE DEF y, status
<1>5. Keeps(x, y)
  BY <1>1, <1>2, <1>3, CalmTransitive, CalmKeeps
<1>6. Answers(x, SetStatus(y, StreamRef, status), StreamRef)
  BY <1>0, <1>5, AnswerGiven
<1>7. c.mem.statusRef \in {<< >>, <<StreamRef>>}
  BY <1>1 DEF Good, IsMem
<1>8. c.mem.statusRef # << >> => c.mem.statusRef[1] = StreamRef
  BY <1>7
<1> QED
  BY <1>4, <1>5, <1>6, <1>8
LEMMA ComponentAdded ==
  ASSUME NEW x, Good(x), NEW user, NEW state \in {"Download", "Delivered"}
  PROVE  Keeps(x, NewComponent(x, user, state))
<1> DEFINE y == NewComponent(x, user, state)
<1>1. /\ IsServer(y) /\ y.mem = x.mem /\ y.said = x.said
      /\ Ids(y) = Ids(x) \cup {x.db.next} /\ y.db.comp[x.db.next] = Component(user, state)
      /\ \A i \in Ids(x) \ {x.db.next} : y.db.comp[i] = x.db.comp[i]
      /\ y.db.next = x.db.next + 1
  BY NewComponentIs DEF Good
<1>2. Component(user, state).state # "Delete"
  BY DEF Component
<1> HIDE DEF y
<1>3. Good(y)
  BY <1>1 DEF Good
<1>4. IdsIn(y, "Delete") \subseteq IdsIn(x, "Delete")
  BY <1>1, <1>2 DEF IdsIn
<1> QED
  BY <1>1, <1>3, <1>4 DEF Keeps, y

LEMMA NodeAdded ==
  ASSUME NEW x, Good(x), x.said = << >>, NEW ref, IsRef(x, ref), NEW node,
         node[1] \in {"Download", "Delivered"}
  PROVE  Answers(x, AddNodeObject(x, node, ref), ref)
<1> DEFINE c == CheckStateChanges(x)
           a == GetLuidForUserId(c, node[2], StateOf[node[1]])
           g == OrDelivered(a, node)
           n == NewComponent(g.x, node[2], node[1])
           y == SetMapping(n, node, g.x.db.next)
<1>1. Good(c) /\ c.said = << >> /\ IsRef(c, ref) /\ Keeps(x, c)
  BY CheckedFirst
<1> HIDE DEF c
<1>2. Found(c, a)
  BY <1>1, FoundByName
<1> HIDE DEF a
<1>3. Found(c, g)
  BY <1>2, FoundOther
<1> HIDE DEF g
<1>4. /\ Good(g.x) /\ Keeps(c, g.x)
      /\ \A status : Answers(c, SetStatus(g.x, ref, status), ref)
  BY <1>1, <1>3, FoundKept
<1>5. Keeps(g.x, n) /\ Good(n)
  BY <1>4, ComponentAdded DEF Keeps
<1> HIDE DEF n
<1>6. Keeps(n, y)
  BY <1>5, MappingChanged, CalmKeeps
<1> HIDE DEF y
<1>7. Keeps(c, y)
  BY <1>4, <1>5, <1>6, KeepsTransitive
<1>8. Answers(c, Answer(y, ref, "EOk"), ref)
  BY <1>1, <1>7, AnswerGiven
<1>9. AddNodeObject(x, node, ref) \in {SetStatus(g.x, ref, "EAlreadyExists"), Answer(y, ref, "EOk")}
  BY DEF AddNodeObject, AddFound, DeliverOrDownload, y, n, g, a, c
<1> QED
  BY <1>1, <1>4, <1>8, <1>9, AnswersAfter

\* A component is removed, and the mapping of its node.
LEMMA RemovalAnswered ==
  ASSUME NEW x, x.said = << >>, NEW ref, IsRef(x, ref), NEW g, Found(x, g), NEW node, NEW refuses
  PROVE  LET r == ClientRemove(g.x, g.id, refuses)
         IN  /\ Answers(x, SetStatus(r.x, ref, MapError(r.err)), ref)
             /\ Answers(x, Answer(SetMapping(r.x, node, NoLuid), ref, "EOk"), ref)
<1> DEFINE y == ClientRemove(g.x, g.id, refuses).x
           z == SetMapping(y, node, NoLuid)
<1>1. Good(g.x) /\ Keeps(x, g.x)
  BY FoundKept
<1>2. Trimmed(g.x, y)
  BY <1>1, ComponentRemoved DEF Good
<1> HIDE DEF y
<1>3. Calm(g.x, y)
  BY <1>1, <1>2, TrimmedCalmly
<1>4. Good(y)
  BY <1>3 DEF Calm
<1>5. Calm(y, z)
  BY <1>4, MappingChanged
<1> HIDE DEF z
<1>6. Keeps(x, y) /\ Keeps(x, z)
  BY <1>1, <1>3, <1>5, CalmKeeps, KeepsTransitive
<1>7. /\ \A status : Answers(x, SetStatus(y, ref, status), ref)
      /\ Answers(x, Answer(z, ref, "EOk"), ref)
  BY <1>6, AnswerGiven
<1> QED
  BY <1>7 DEF y, z

LEMMA NodeDeleted ==
  ASSUME NEW x, Good(x), x.said = << >>, NEW ref, IsRef(x, ref), NEW node, NEW refuses
  PROVE  Answers(x, DeleteObject(x, node, ref, refuses), ref)
<1> DEFINE c == CheckStateChanges(x)
           g == GetLuid(c, DirectGetLuid(c, node), node[2], StateOf[node[1]])
           r == ClientRemove(g.x, g.id, refuses)
           a1 == SetStatus(g.x, ref, "ENotFound")
           a2 == SetStatus(r.x, ref, MapError(r.err))
           a3 == Answer(SetMapping(r.x, node, NoLuid), ref, "EOk")
<1>1. Good(c) /\ c.said = << >> /\ IsRef(c, ref) /\ Keeps(x, c)
  BY CheckedFirst
<1> HIDE DEF c
<1>2. Found(c, g)
  BY <1>1, FoundByLuid
<1> HIDE DEF g
<1>3. Answers(c, a1, ref)
  BY <1>1, <1>2, FoundKept
<1>4. Answers(c, a2, ref) /\ Answers(c, a3, ref)
  BY <1>1, <1>2, RemovalAnswered
<1>5. DeleteObject(x, node, ref, refuses) \in {a1, a2, a3}
  BY DEF DeleteObject, DeleteChecked, DeleteFound, AnswerDelete, c, g
<1> HIDE DEF a1, a2, a3
<1> QED
  BY <1>1, <1>3, <1>4, <1>5, AnswersAfter

LEMMA NodeRemoved ==
  ASSUME NEW x, Good(x), x.said = << >>, NEW ref, IsRef(x, ref), NEW node, NEW refuses
  PROVE  Answers(x, ExecuteRemove(x, node, ref, refuses), ref)
<1> DEFINE c == CheckStateChanges(x)
           luid == DirectGetLuid(c, node)
           f == GetLuid(c, luid, node[2], "Delivered")
           g == OrDeployed(f, luid, node[2])
           r == ClientRemove(g.x, g.id, refuses)
           a1 == SetStatus(g.x, ref, "ENotFound")
           a2 == SetStatus(r.x, ref, MapError(r.err))
           a3 == Answer(SetMapping(r.x, node, NoLuid), ref, "EOk")
<1>1. Good(c) /\ c.said = << >> /\ IsRef(c, ref) /\ Keeps(x, c)
  BY CheckedFirst
<1> HIDE DEF c
<1>2. Found(c, f)
  BY <1>1, FoundByLuid
<1> HIDE DEF f
<1>3. Found(c, g)
  BY <1>2, FoundOther
<1> HIDE DEF g
<1>4. Answers(c, a1, ref)
  BY <1>1, <1>3, FoundKept
<1>5. Answers(c, a2, ref) /\ Answers(c, a3, ref)
  BY <1>1, <1>3, RemovalAnswered
<1>6. ExecuteRemove(x, node, ref, refuses) \in {a1, a2, a3}
  BY DEF ExecuteRemove, RemoveChecked, RemoveFound, AnswerRemove, DirectSetMapping, c, luid, f, g
<1> HIDE DEF a1, a2, a3
<1> QED
  BY <1>1, <1>4, <1>5, <1>6, AnswersAfter
LEMMA FollowedAnswered ==
  ASSUME NEW x, x.said = << >>, NEW ref, IsRef(x, ref), NEW g, Found(x, g),
         NEW y, Follows(g.x, y), NEW status
  PROVE  Answers(x, SetStatus(y, ref, status), ref)
<1>1. Good(g.x) /\ Keeps(x, g.x)
  BY FoundKept
<1>2. Keeps(g.x, y)
  BY <1>1, FollowedKept
<1>3. Keeps(x, y)
  BY <1>1, <1>2, KeepsTransitive
<1> QED
  BY <1>3, AnswerGiven

LEMMA NodeDownloaded ==
  ASSUME NEW x, Good(x), x.said = << >>, NEW ref, IsRef(x, ref), NEW node, NEW target
  PROVE  Answers(x, ExecuteDownload(x, node, target, ref), ref)
<1> DEFINE c == CheckStateChanges(x)
           g == GetLuid(c, DirectGetLuid(c, node), node[2], "Download")
           s == StartDownload(g.x, g.id, target)
<1>1. Good(c) /\ c.said = << >> /\ IsRef(c, ref) /\ Keeps(x, c)
  BY CheckedFirst
<1> HIDE DEF c
<1>2. Found(c, g)
  BY <1>1, FoundByLuid
<1> HIDE DEF g
<1>3. Answers(c, SetStatus(g.x, ref, "ENotFound"), ref)
  BY <1>1, <1>2, FoundKept
<1>4. g.id \in Ids(g.x) => Answers(c, SetStatus(s, ref, "EOk"), ref)
  <2> SUFFICES ASSUME g.id \in Ids(g.x) PROVE Answers(c, SetStatus(s, ref, "EOk"), ref)
    OBVIOUS
  <2>1. Follows(g.x, s)
    BY <1>2, DownloadStarted DEF Found, Calm, Good
  <2> HIDE DEF s
  <2> QED
    BY <1>1, <1>2, <2>1, FollowedAnswered
<1>5. ExecuteDownload(x, node, target, ref)
      = IF g.id \notin Ids(g.x) THEN SetStatus(g.x, ref, "ENotFound") ELSE SetStatus(s, ref, "EOk")
  BY DEF ExecuteDownload, DownloadChecked, DownloadFound, c, g
<1> QED
  BY <1>1, <1>3, <1>4, <1>5, AnswersAfter

LEMMA NodeInstalled ==
  ASSUME NEW x, Good(x), x.said = << >>, NEW ref, IsRef(x, ref), NEW node, NEW target,
         NEW end \in InstallEnds
  PROVE  Answers(x, ExecuteInstall(x, node, target, ref, end), ref)
<1> DEFINE c == CheckStateChanges(x)
           g == GetLuid(c, DirectGetLuid(c, node), node[2], "Delivered")
           r == ServerInstall(g.x, g.id, end)
           d == DeactivateIfInactive(r.x, g.id, target)
<1>1. Good(c) /\ c.said = << >> /\ IsRef(c, ref) /\ Keeps(x, c)
  BY CheckedFirst
<1> HIDE DEF c
<1>2. Found(c, g)
  BY <1>1, FoundByLuid
<1> HIDE DEF g
<1>3. Follows(g.x, r.x)
  BY <1>2, ServerInstalls DEF Found, Calm, Good
<1> HIDE DEF r
<1>4. Follows(g.x, d)
  <2>1. IsServer(r.x)
    BY <1>3 DEF Follows, Same
  <2>2. Follows(r.x, Deactivate(r.x, g.id))
    BY <2>1, ApplicationSwitched
  <2> QED
    BY <1>3, <2>2, FollowsTransitive DEF DeactivateIfInactive
<1> HIDE DEF d
<1>5. Answers(c, SetStatus(g.x, ref, "ENotFound"), ref)
  BY <1>1, <1>2, FoundKept
<1>6. \A status : /\ Answers(c, SetStatus(d, ref, status), ref)
                  /\ Answers(c, SetStatus(r.x, ref, status), ref)
  BY <1>1, <1>2, <1>3, <1>4, FollowedAnswered
<1>7. ExecuteInstall(x, node, target, ref, end)
      \in {SetStatus(g.x, ref, "ENotFound"), SetStatus(d, ref, "EOk"),
           SetStatus(r.x, ref, MapError(r.err))}
  BY DEF ExecuteInstall, InstallChecked, InstallFound, AnswerInstall, c, g, r, d
<1> QED
  BY <1>1, <1>5, <1>6, <1>7, AnswersAfter

LEMMA NodeSwitched ==
  ASSUME NEW x, Good(x), x.said = << >>, NEW ref, IsRef(x, ref), NEW node, NEW state
  PROVE  Answers(x, ExecuteSwitch(x, node, state, ref), ref)
<1> DEFINE c == CheckStateChanges(x)
           g == GetDeployed(c, DirectGetLuid(c, node), node[2])
           s == IF state = "Active" THEN Activate(g.x, g.id) ELSE Deactivate(g.x, g.id)
<1>1. Good(c) /\ c.said = << >> /\ IsRef(c, ref) /\ Keeps(x, c)
  BY CheckedFirst
<1> HIDE DEF c
<1>2. Found(c, g)
  BY <1>1, FoundDeployed
<1> HIDE DEF g
<1>3. Follows(g.x, s)
  BY <1>2, ApplicationSwitched DEF Found, Calm, Good
<1> HIDE DEF s
<1>4. Answers(c, SetStatus(g.x, ref, "ENotFound"), ref)
  BY <1>1, <1>2, FoundKept
<1>5. Answers(c, SetStatus(s, ref, "EOk"), ref)
  BY <1>1, <1>2, <1>3, FollowedAnswered
<1>6. ExecuteSwitch(x, node, state, ref)
      \in {SetStatus(g.x, ref, "ENotFound"), SetStatus(s, ref, "EOk")}
  BY DEF ExecuteSwitch, SwitchChecked, SwitchFound, c, g, s
<1> QED
  BY <1>1, <1>4, <1>5, <1>6, AnswersAfter

LEMMA LeafFetched ==
  ASSUME NEW x, Good(x), x.said = << >>, NEW ref, IsRef(x, ref), NEW node, NEW leaf, NEW empty
  PROVE  /\ Answers(x, FetchLeafObject(x, node, leaf, ref), ref)
         /\ Answers(x, FetchLeafObjectSize(x, node, leaf, empty, ref), ref)
<1> DEFINE c == CheckStateChanges(x)
           g == TakeOver(c, node)
           status == IF g.id = 0 THEN "ENotFound" ELSE GetComponentData(g.x, g.id, leaf)
<1>1. Good(c) /\ c.said = << >> /\ IsRef(c, ref) /\ Keeps(x, c)
  BY CheckedFirst
<1> HIDE DEF c
<1>2. Found(c, g)
  BY <1>1, TakenOver
<1>3. FetchLeafObject(x, node, leaf, ref) = Answer(g.x, ref, status)
  BY DEF FetchLeafObject, FetchFound, c
<1>4. FetchLeafObjectSize(x, node, leaf, empty, ref)
      \in {SetStatus(g.x, ref, "ENotFound"), SetStatus(g.x, ref, "EError"),
           SetStatus(g.x, ref, "EOk"), Answer(g.x, ref, "EOk")}
  BY DEF FetchLeafObjectSize, SizeFound, c
<1> HIDE DEF g, status
<1>5. \A s : Answers(c, SetStatus(g.x, ref, s), ref) /\ Answers(c, Answer(g.x, ref, s), ref)
  BY <1>1, <1>2, FoundKept
<1> QED
  BY <1>1, <1>3, <1>4, <1>5, AnswersAfter

LEMMA Listed ==
  ASSUME NEW x, Good(x), NEW place, NEW state
  PROVE  Calm(x, IdList(x, place, state))
<1> DEFINE c == ComponentIds(x, state)
           m == ListEach(c, place).map
<1>1. Calm(x, c.x) /\ Good(c.x)
  BY IdsListed, TrimmedCalmly DEF Good, Calm
<1>2. \E f : ListEach(c, place) = [c.x EXCEPT !.map = f]
  BY DEF ListEach
<1> HIDE DEF c
<1>3. Calm(c.x, ListEach(c, place))
  BY <1>1, <1>2, MapChanged
<1> QED
  BY <1>1, <1>3, CalmTransitive DEF IdList, c

LEMMA PlacesListed ==
  ASSUME NEW x, Good(x), x.said = << >>, NEW ref, IsRef(x, ref), NEW place
  PROVE  Answers(x, ChildURIList(x, place, ref), ref)
<1> DEFINE c == CheckStateChanges(x)
           l == IdList(c, place, "Active")
           y == PlaceListed(c, place)
<1>1. Good(c) /\ c.said = << >> /\ IsRef(c, ref) /\ Keeps(x, c)
  BY CheckedFirst
<1> HIDE DEF c
<1>2. Calm(c, l) /\ Calm(c, IdList(c, place, StateOf[place]))
  BY <1>1, Listed
<1> HIDE DEF l
<1>3. Good(l)
  BY <1>2 DEF Calm
<1>4. Calm(l, IdList(l, place, "Inactive"))
  BY <1>3, Listed
<1>5. Calm(c, y)
  BY <1>2, <1>4, CalmTransitive DEF PlaceListed, l
<1>6. Answers(c, Answer(y, ref, "EOk"), ref)
  BY <1>1, <1>5, CalmKeeps, AnswerGiven
<1> QED
  BY <1>1, <1>6, AnswersAfter DEF ChildURIList, c, y

LEMMA NodeListed ==
  ASSUME NEW x, Good(x), x.said = << >>, NEW ref, IsRef(x, ref), NEW node, node[1] \in Places
  PROVE  Answers(x, ListNode(x, node, ref), ref)
<1> DEFINE c == CheckStateChanges(x)
           luid == DirectGetLuid(c, node)
           f == GetLuid(c, luid, node[2], "Delivered")
           g == GetDeployed(c, luid, node[2])
           here == IF luid \in Ids(c) THEN "EOk" ELSE "ENotFound"
           a1 == Answer(c, ref, here)
           a2 == ListFound(f, ref)
           a3 == ListFound(g, ref)
<1>1. Good(c) /\ c.said = << >> /\ IsRef(c, ref) /\ Keeps(x, c)
  BY CheckedFirst
<1>2. ListNode(x, node, ref) \in {a1, a2, a3}
  BY DEF ListNode, ListChecked, Places
<1> HIDE DEF c, luid
<1>3. Found(c, f) /\ Found(c, g)
  BY <1>1, FoundByLuid, FoundDeployed
<1>4. Keeps(c, c)
  BY <1>1, CalmItself, CalmKeeps
<1> HIDE DEF f, g, here
<1>5. Answers(c, a1, ref)
  BY <1>1, <1>4, AnswerGiven
<1>6. Answers(c, a2, ref) /\ Answers(c, a3, ref)
  BY <1>1, <1>3, FoundKept DEF ListFound
<1> HIDE DEF a1, a2, a3
<1> QED
  BY <1>1, <1>2, <1>5, <1>6, AnswersAfter
-----------------------------------------------------------------------------
(* An update. *)

\* y follows x with the component i installed, which was delivered.
Installs(x, y, i) ==
  /\ Good(y) /\ y.said = x.said /\ y.mem = x.mem /\ Ids(y) = Ids(x)
  /\ i \in Ids(x) /\ x.db.comp[i].state = "Delivered" /\ y.db.comp[i].state \in DeployedStates

\* From x to y no component is given up but for one that is installed.
Replaces(x, y) ==
  \A t \in Ids(x) \cap Ids(y) :
     x.db.comp[t].state # "Delete" /\ y.db.comp[t].state = "Delete" =>
        \E i \in Ids(x) \cap Ids(y) :
           x.db.comp[i].state = "Delivered" /\ y.db.comp[i].state \in DeployedStates

LEMMA ApplicationUpdated ==
  ASSUME NEW x, Good(x), NEW i, NEW t, NEW end
  PROVE  LET y == ServerUpdate(x, i, t, end).x IN y = x \/ Installs(x, y, i)
<1> DEFINE e == Entered(x.db.comp[t], "Delete")
           z == [x EXCEPT !.db.comp[t] = e]
           y == Installed(z, i)
<1>1. \/ ServerUpdate(x, i, t, end).x = x
      \/ /\ i \in Ids(x) /\ t \in Ids(x) /\ x.db.comp[i].state = "Delivered"
         /\ x.db.comp[t].state \in DeployedStates /\ ServerUpdate(x, i, t, end).x = y
  BY DEF ServerUpdate, InState
<1>2. ASSUME i \in Ids(x), t \in Ids(x), x.db.comp[i].state = "Delivered",
             x.db.comp[t].state \in DeployedStates
      PROVE  Installs(x, y, i)
  <2>1. DOMAIN e = Fields /\ IsServer(x)
    BY <1>2 DEF Good, IsServer, Entered
  <2> HIDE DEF e
  <2>2. Same(x, z) /\ Ids(z) = Ids(x)
    BY <1>2, <2>1, OneChanged
  <2> HIDE DEF z
  <2>3. Good(z) /\ z.said = x.said /\ z.mem = x.mem
    BY <2>2, SameGood
  <2>4. OthersSame(z, y, i) /\ y.db.comp[i].state = "Active"
    BY <1>2, <2>2, <2>3, ComponentInstalled DEF Good
  <2> HIDE DEF y
  <2>5. Good(y) /\ y.said = z.said /\ y.mem = z.mem /\ Ids(y) = Ids(z)
    BY <2>3, <2>4, SameGood DEF OthersSame
  <2> QED
    BY <1>2, <2>2, <2>3, <2>4, <2>5 DEF Installs, DeployedStates
<1> QED
  BY <1>1, <1>2

LEMMA UpdateEnded ==
  ASSUME NEW x, NEW y, NEW i, Installs(x, y, i), NEW target
  PROVE  Installs(x, DeactivateIfInactive(y, i, target), i)
<1> DEFINE z == InState(y, i, "Inactive")
<1>1. /\ Follows(y, z) /\ Ids(z) = Ids(y) /\ z.db.comp[i].state = "Inactive"
  BY StateEntered DEF Installs, Good
<1>2. DeactivateIfInactive(y, i, target) \in {y, z}
  BY DEF DeactivateIfInactive, Deactivate
<1> HIDE DEF z
<1>3. Good(z) /\ z.said = y.said /\ z.mem = y.mem
  BY <1>1, SameGood DEF Installs, Follows
<1> QED
  BY <1>1, <1>2, <1>3 DEF Installs, DeployedStates

LEMMA AnswersReplace ==
  ASSUME NEW x, NEW y, NEW ref, Answers(x, y, ref)
  PROVE  Replaces(x, y)
BY DEF Answers, Replaces, IdsIn

\* An update that found its component in g answers, and gives up an application only
\* for the one it installs.
LEMMA UpdateAnswered ==
  ASSUME NEW x, x.said = << >>, NEW ref, IsRef(x, ref), NEW g, Found(x, g),
         NEW y, NEW i, Installs(g.x, y, i), NEW status
  PROVE  LET z == SetStatus(y, ref, status)
         IN  Good(z) /\ Replied(z, ref) /\ Replaces(x, z)
<1> DEFINE z == SetStatus(y, ref, status)
<1>1. Calm(x, g.x) /\ g.x.said = << >>
  BY DEF Found, Calm
<1>2. Good(z) /\ Replied(z, ref) /\ z.db = y.db
  BY <1>1, StatusSet DEF Installs
<1> HIDE DEF z
<1>3. i \in Ids(x) \cap Ids(z)
  BY <1>1, <1>2 DEF Calm, Installs, Ids
<1>4. x.db.comp[i].state = "Delivered" /\ z.db.comp[i].state \in DeployedStates
  BY <1>1, <1>2 DEF Calm, Installs
<1>5. Replaces(x, z)
  BY <1>3, <1>4 DEF Replaces
<1> QED
  BY <1>2, <1>5 DEF z

LEMMA NodeUpdated ==
  ASSUME NEW x, Good(x), x.said = << >>, NEW ref, IsRef(x, ref), NEW node, NEW target, NEW end
  PROVE  LET y == ExecuteUpdate(x, node, target, ref, end)
         IN  Good(y) /\ Replied(y, ref) /\ Replaces(x, y)
<1> DEFINE c == CheckStateChanges(x)
           g == GetLuid(c, DirectGetLuid(c, node), node[2], "Delivered")
           t == DirectGetLuid(g.x, <<"Deployed", node[2]>>)
           r == ServerUpdate(g.x, g.id, t, end)
           d == DeactivateIfInactive(r.x, g.id, target)
           y == ExecuteUpdate(x, node, target, ref, end)
<1>1. Good(c) /\ c.said = << >> /\ IsRef(c, ref) /\ Calm(x, c)
  BY CheckedFirst
<1>2. y \in {SetStatus(g.x, ref, "ENotFound"), SetStatus(g.x, ref, "EError"),
             SetStatus(d, ref, "EOk"), SetStatus(r.x, ref, MapError(r.err))}
  BY DEF ExecuteUpdate, UpdateDeployed, UpdateFound, AnswerInstall
<1> HIDE DEF c, y
<1>3. Found(x, g)
  <2>1. Found(c, g)
    BY <1>1, FoundByLuid
  <2> QED
    BY <1>1, <2>1, CalmTransitive DEF Found
<1> HIDE DEF g, t
<1>4. r.x = g.x \/ Installs(g.x, r.x, g.id)
  BY <1>3, ApplicationUpdated DEF Found, Calm
<1> HIDE DEF r
<1>5. CASE r.x = g.x
  <2>1. Follows(g.x, g.x) /\ Follows(g.x, d)
    <3>1. IsServer(g.x)
      BY <1>3 DEF Found, Calm, Good
    <3> QED
      BY <1>5, <3>1, NothingChanged, TrimmedFollows, ApplicationSwitched DEF DeactivateIfInactive
  <2> HIDE DEF d
  <2>2. \A s : Answers(x, SetStatus(g.x, ref, s), ref) /\ Answers(x, SetStatus(d, ref, s), ref)
    BY <1>3, <2>1, FollowedAnswered
  <2>3. Answers(x, y, ref)
    BY <1>2, <1>5, <2>2
  <2> QED
    BY <2>3, AnswersReplace DEF Answers, y
<1>6. CASE Installs(g.x, r.x, g.id)
  <2>1. Installs(g.x, d, g.id)
    BY <1>6, UpdateEnded
  <2> HIDE DEF d
  <2> DEFINE Fine(z) == Good(z) /\ Replied(z, ref) /\ Replaces(x, z)
  <2>2. \A s : Fine(SetStatus(d, ref, s)) /\ Fine(SetStatus(r.x, ref, s))
    BY <1>3, <1>6, <2>1, UpdateAnswered
  <2>3. \A s : Answers(x, SetStatus(g.x, ref, s), ref)
    BY <1>3, FoundKept
  <2>4. \A s : Fine(SetStatus(g.x, ref, s))
    BY <2>3, AnswersReplace DEF Answers
  <2> HIDE DEF Fine
  <2>5. Fine(y)
    BY <1>2, <2>2, <2>4
  <2> QED
    BY <2>5 DEF Fine, y
<1> QED
  BY <1>4, <1>5, <1>6
-----------------------------------------------------------------------------
(* Steps. *)

\* What every step does.
Kept == Inv' /\ Replaces(X, X')

LEMMA Begins ==
  ASSUME Inv
  PROVE  /\ X = [mem |-> mem, db |-> db, map |-> map, said |-> << >>]
         /\ Good(X) /\ X.said = << >> /\ X.mem = mem /\ X.db = db
         /\ Ref \in {Now, AtomicRef} /\ IsRef(X, Ref)
         /\ IsServer(X) /\ IsMem(mem) /\ Ids(X) = DOMAIN db.comp
<1>1. X = [mem |-> mem, db |-> db, map |-> map, said |-> << >>]
  BY DEF X
<1>2. Good(X) /\ X.said = << >> /\ X.mem = mem /\ X.db = db
  BY <1>1 DEF Inv
<1>3. Ref \in {Now, AtomicRef} /\ IsRef(X, Ref)
  <2>1. AtomicRef # Now
    BY DEF AtomicRef, Now
  <2> QED
    BY <1>2, <2>1 DEF Ref, IsRef
<1>4. IsServer(X) /\ IsMem(mem) /\ Ids(X) = DOMAIN db.comp
  BY <1>2 DEF Good, Ids
<1> QED
  BY <1>1, <1>2, <1>3, <1>4

LEMMA Left ==
  ASSUME Inv, NEW y, Good(y), Replaces(X, y), mem' = y.mem, db' = y.db,
         open' \subseteq {StreamRef}, wrong' \subseteq {StreamRef, AtomicRef}
  PROVE  Kept
<1>1. X' = [mem |-> y.mem, db |-> y.db, map |-> map', said |-> << >>]
  BY DEF X
<1>2. Good(X')
  BY <1>1 DEF Good, IsServer, Ids
<1>3. Replaces(X, X')
  BY <1>1 DEF Replaces, Ids
<1> QED
  BY <1>2, <1>3 DEF Kept, Inv

\* A command that is answered once in its call.
LEMMA CommandDone ==
  ASSUME Inv, NEW y, Good(y), Replied(y, Ref), Replaces(X, y), Do(Ref, y)
  PROVE  Kept
<1>1. PICK status : y.said = <<[ref |-> Ref, status |-> status]>>
  BY DEF Replied
<1>2. mem' = y.mem /\ db' = y.db /\ open' = open \ {Ref} /\ wrong' = wrong
  BY <1>1, ServedOnce DEF Do
<1> QED
  BY <1>2, Left DEF Inv

LEMMA AnswersDone ==
  ASSUME Inv, NEW y, Answers(X, y, Ref), Do(Ref, y)
  PROVE  Kept
BY AnswersReplace, CommandDone DEF Answers

\* A call that has to do with a stream, or with none of the commands.
LEMMA StreamDone ==
  ASSUME Inv, NEW refs, refs \subseteq {StreamRef}, NEW y, Serve(refs, y),
         Answers(X, y, StreamRef) \/ Keeps(X, y)
  PROVE  Kept
<1>1. y.said = << >> \/ Replied(y, StreamRef)
  BY Begins DEF Answers, Keeps
<1>2. StreamRef.op # "delete"
  BY DEF StreamRef
<1> DEFINE ref == StreamRef
<1> HIDE DEF ref
<1>3. ref.op # "delete" /\ (y.said = << >> \/ Replied(y, ref))
  BY <1>1, <1>2 DEF ref
<1>4. mem' = y.mem /\ db' = y.db /\ open' \subseteq open \cup refs /\ wrong' \subseteq wrong \cup {ref}
  BY <1>3, ServedAtMostOnce
<1>5. open' \subseteq {StreamRef} /\ wrong' \subseteq {StreamRef, AtomicRef}
  BY <1>4 DEF ref, Inv
<1>6. Good(y) /\ Replaces(X, y)
  BY AnswersReplace DEF Answers, Keeps, Replaces, IdsIn
<1> QED
  BY <1>4, <1>5, <1>6, Left

\* A step that changes nothing but the members of the adapter.
LEMMA MembersKept ==
  ASSUME Inv, IsMem(mem'), db' = db, open' \subseteq open, wrong' = wrong
  PROVE  Kept
<1> DEFINE y == [X EXCEPT !.mem = mem']
<1>1. y = [mem |-> mem', db |-> db, map |-> map, said |-> << >>]
  BY Begins
<1>2. Good(y)
  BY <1>1, Begins DEF Good, IsServer, Ids
<1>3. Replaces(X, y)
  BY <1>1, Begins DEF Replaces, Ids
<1>4. y.mem = mem' /\ y.db = db
  BY <1>1
<1> HIDE DEF y
<1> QED
  BY <1>2, <1>3, <1>4, Left DEF Inv
LEMMA CommandStep ==
  ASSUME Inv, AddNode \/ UpdateLeaf \/ Fetch \/ List
  PROVE  Kept
<1>0. Good(X) /\ X.said = << >> /\ IsRef(X, Ref)
  BY Begins
<1>1. CASE AddNode
  <2>1. PICK node \in {"Download", "Delivered"} \X UserIds : Do(Ref, AddNodeObject(X, node, Ref))
    BY <1>1 DEF AddNode
  <2>2. node[1] \in {"Download", "Delivered"}
    OBVIOUS
  <2> QED
    BY <1>0, <2>1, <2>2, NodeAdded, AnswersDone
<1>2. CASE UpdateLeaf
  <2>1. PICK node, leaf, o : Do(Ref, UpdateLeafObject(X, node, leaf, o, Ref))
    BY <1>2 DEF UpdateLeaf
  <2> QED
    BY <1>0, <2>1, LeafUpdated, AnswersDone
<1>3. CASE Fetch
  <2>1. PICK node, leaf, empty : \/ Do(Ref, FetchLeafObject(X, node, leaf, Ref))
                                 \/ Do(Ref, FetchLeafObjectSize(X, node, leaf, empty, Ref))
    BY <1>3 DEF Fetch
  <2> QED
    BY <1>0, <2>1, LeafFetched, AnswersDone
<1>4. CASE List
  <2>1. CASE \E place \in Places : Do(Ref, ChildURIList(X, place, Ref))
    BY <1>0, <2>1, PlacesListed, AnswersDone
  <2>2. ASSUME NEW node \in Nodes, Do(Ref, ListNode(X, node, Ref))
        PROVE  Kept
    <3>1. node[1] \in Places
      BY DEF Nodes
    <3> QED
      BY <1>0, <2>2, <3>1, NodeListed, AnswersDone
  <2> QED
    BY <1>4, <2>1, <2>2 DEF List
<1> QED
  BY <1>1, <1>2, <1>3, <1>4

LEMMA DeleteStep ==
  ASSUME Inv, Delete
  PROVE  Kept
<1>1. PICK node, refuses : Do(Ref, Forget(DeleteObject(X, node, Ref, refuses), node))
  BY DEF Delete
<1> DEFINE d == DeleteObject(X, node, Ref, refuses)
           y == Forget(d, node)
<1>2. Answers(X, d, Ref)
  BY Begins, NodeDeleted
<1> HIDE DEF d
<1>3. Good(d) /\ Calm(d, RemoveMapping(d, node)) /\ Calm(d, d)
  BY <1>2, MappingChanged, CalmItself DEF Answers
<1>4. Calm(d, y)
  BY <1>3 DEF Forget
<1> HIDE DEF y
<1>5. Answers(X, y, Ref)
  <2>1. Good(y) /\ Replied(y, Ref)
    BY <1>2, <1>4 DEF Answers, Calm, Replied
  <2>2. IdsIn(y, "Delete") \subseteq IdsIn(d, "Delete")
    BY <1>4 DEF Calm, IdsIn
  <2> QED
    BY <1>2, <2>1, <2>2 DEF Answers
<1> QED
  BY <1>1, <1>5, AnswersDone DEF y, d

LEMMA ExecStep ==
  ASSUME Inv, ExecDownload \/ ExecInstall \/ ExecUpdate \/ ExecRemove \/ ExecSwitch
  PROVE  Kept
<1>0. Good(X) /\ X.said = << >> /\ IsRef(X, Ref)
  BY Begins
<1>1. CASE ExecDownload
  <2>1. PICK user, target : Do(Ref, ExecuteDownload(X, <<"Download", user>>, target, Ref))
    BY <1>1 DEF ExecDownload
  <2> QED
    BY <1>0, <2>1, NodeDownloaded, AnswersDone
<1>2. CASE ExecInstall
  <2>1. PICK user \in UserIds, target \in DeployedStates, end \in InstallEnds :
           Do(Ref, ExecuteInstall(X, <<"Delivered", user>>, target, Ref, end))
    BY <1>2 DEF ExecInstall
  <2> QED
    BY <1>0, <2>1, NodeInstalled, AnswersDone
<1>3. CASE ExecUpdate
  <2>1. PICK user, target, end : Do(Ref, ExecuteUpdate(X, <<"Delivered", user>>, target, Ref, end))
    BY <1>3 DEF ExecUpdate
  <2> DEFINE y == ExecuteUpdate(X, <<"Delivered", user>>, target, Ref, end)
  <2>2. Good(y) /\ Replied(y, Ref) /\ Replaces(X, y)
    BY <1>0, NodeUpdated
  <2> HIDE DEF y
  <2> QED
    BY <2>1, <2>2, CommandDone DEF y
<1>4. CASE ExecRemove
  <2>1. PICK node, refuses : Do(Ref, ExecuteRemove(X, node, Ref, refuses))
    BY <1>4 DEF ExecRemove
  <2> QED
    BY <1>0, <2>1, NodeRemoved, AnswersDone
<1>5. CASE ExecSwitch
  <2>1. PICK user, state : Do(Ref, ExecuteSwitch(X, <<"Deployed", user>>, state, Ref))
    BY <1>5 DEF ExecSwitch
  <2> QED
    BY <1>0, <2>1, NodeSwitched, AnswersDone
<1> QED
  BY <1>1, <1>2, <1>3, <1>4, <1>5

LEMMA StreamStep ==
  ASSUME Inv, OpenStream \/ CommitStream
  PROVE  Kept
<1>0. Good(X) /\ X.said = << >>
  BY Begins
<1>1. CASE OpenStream
  <2>1. PICK node, leaf : Serve({StreamRef}, StreamLeafObject(X, node, leaf, StreamRef))
    BY <1>1 DEF OpenStream, Do
  <2> QED
    BY <1>0, <2>1, StreamOpened, StreamDone
<1>2. CASE CommitStream
  <2>1. Serve({}, StreamCommitted(X))
    BY <1>2 DEF CommitStream
  <2> QED
    BY <1>0, <2>1, StreamSent, StreamDone
<1> QED
  BY <1>1, <1>2

LEMMA NoBuffer == << >> \in Buffers
BY DEF Buffers

LEMMA NewSession == IsMem(NewMem) /\ IsMem([NewMem EXCEPT !.up = TRUE])
<1>1. IsMem(NewMem)
  BY NoBuffer, Zenon DEF IsMem, NewMem
<1>2. \A m : IsMem(m) => IsMem([m EXCEPT !.up = TRUE])
  BY DEF IsMem
<1> QED
  BY <1>1, <1>2

LEMMA StartSessionStep ==
  ASSUME Inv, StartSession
  PROVE  Kept
<1> DEFINE m == [NewMem EXCEPT !.up = TRUE]
           x == [X EXCEPT !.mem = m]
<1>1. \E last \in BOOLEAN : Serve({}, IF last THEN CheckStateChanges(x) ELSE x)
  BY DEF StartSession
<1>2. IsMem(m)
  BY NewSession
<1> HIDE DEF m
<1>3. x = [mem |-> m, db |-> db, map |-> map, said |-> << >>]
  BY Begins
<1>4. Good(x) /\ x.said = << >> /\ x.db = db
  BY <1>2, <1>3, Begins DEF Good, IsServer, Ids
<1> HIDE DEF x
<1>5. PICK y \in {x, CheckStateChanges(x)} : Serve({}, y)
  BY <1>1
<1>6. Calm(x, y)
  BY <1>4, Checks, CalmItself
<1>7. y.said = << >> /\ Good(y)
  BY <1>4, <1>6 DEF Calm
<1>8. mem' = y.mem /\ db' = y.db /\ open' = open /\ wrong' = wrong
  BY <1>5, <1>7, ServedSilently
<1>9. Replaces(X, y)
  BY <1>4, <1>6, Begins DEF Calm, Replaces, Ids
<1> QED
  BY <1>7, <1>8, <1>9, Left DEF Inv

LEMMA RollbackStep ==
  ASSUME Inv, RollbackAtomic
  PROVE  Kept
<1> DEFINE said == [k \in DOMAIN mem.buffer |-> [ref |-> mem.buffer[k], status |-> "ERollbackFailed"]]
           x == [X EXCEPT !.said = said]
           answered == {said[i].ref : i \in DOMAIN said}
           again == {said[i].ref : i \in {j \in DOMAIN said : \E k \in 1 .. j - 1 : said[k].ref = said[j].ref}}
<1>1. Serve({}, x)
  BY DEF RollbackAtomic
<1>2. x = [mem |-> mem, db |-> db, map |-> map, said |-> said]
  BY Begins
<1>3. \A i \in DOMAIN said : said[i].ref \in {AtomicRef, StreamRef}
  <2>1. mem.buffer \in Buffers
    BY Begins DEF IsMem
  <2> QED
    BY <2>1 DEF Buffers
<1> HIDE DEF said
<1>4. x.mem = mem /\ x.db = db /\ x.said = said
  BY <1>2
<1> HIDE DEF x
<1>5. /\ mem' = mem /\ db' = db
      /\ open' = (open \cup {}) \ answered
      /\ wrong' = wrong \cup (answered \ (open \cup {})) \cup again
  BY <1>1, <1>4 DEF Serve
<1>6. answered \subseteq {AtomicRef, StreamRef} /\ again \subseteq {AtomicRef, StreamRef}
  BY <1>3
<1> HIDE DEF answered, again
<1>7. Replaces(X, X) /\ Good(X) /\ X.mem = mem /\ X.db = db
  BY Begins DEF Replaces
<1> QED
  BY <1>5, <1>6, <1>7, Left DEF Inv

LEMMA MembersStep ==
  ASSUME Inv, EndSession \/ StartAtomic \/ CommitAtomic \/ CompleteOutstandingCmds
  PROVE  Kept
<1>1. IsMem(mem)
  BY Begins
<1>2. CASE EndSession
  <2>1. mem' = NewMem /\ db' = db /\ wrong' = wrong /\ open' = {}
    BY <1>2, Begins DEF EndSession, EndWith
  <2>2. IsMem(mem')
    BY <2>1, NewSession
  <2> QED
    BY <2>1, <2>2, MembersKept
<1>3. CASE StartAtomic \/ CommitAtomic
  <2>1. PICK atomic \in BOOLEAN : Switched(atomic)
    BY <1>3 DEF StartAtomic, CommitAtomic
  <2>2. IsMem(mem')
    BY <1>1, <2>1 DEF Switched, IsMem
  <2> QED
    BY <2>1, <2>2, MembersKept DEF Switched
<1>4. CASE CompleteOutstandingCmds
  <2>1. mem' = [mem EXCEPT !.buffer = << >>] /\ UNCHANGED <<db, wrong, open>>
    BY <1>4 DEF CompleteOutstandingCmds
  <2>2. IsMem(mem')
    BY <1>1, <2>1, NoBuffer DEF IsMem
  <2> QED
    BY <2>1, <2>2, MembersKept
<1> QED
  BY <1>2, <1>3, <1>4

\* What the server does without the adapter.
LEMMA ServerStep ==
  ASSUME Inv, DownloadEnds \/ UserUninstalls
  PROVE  Kept
<1>1. ASSUME NEW y, Follows(X, y), Elsewhere(y.db, {})
      PROVE  Kept
  <2>1. db' = y.db /\ mem' = mem /\ open' = open /\ wrong' = wrong
    BY <1>1 DEF Elsewhere
  <2>2. Keeps(X, y) /\ y.mem = mem
    BY <1>1, Begins, FollowedKept DEF Follows, Same
  <2>3. Good(y) /\ Replaces(X, y)
    BY <2>2 DEF Keeps, Replaces, IdsIn
  <2> QED
    BY <2>1, <2>2, <2>3, Left DEF Inv
<1>2. CASE DownloadEnds
  <2>1. PICK i \in DOMAIN db.comp, end \in InstallEnds \cup {"lost"} :
           Elsewhere(DownloadEnded(X, i, end).db, {})
    BY <1>2 DEF DownloadEnds
  <2>2. Follows(X, DownloadEnded(X, i, end))
    BY Begins, DownloadFollowed
  <2> QED
    BY <1>1, <2>1, <2>2
<1>3. CASE UserUninstalls
  <2>1. PICK i \in DOMAIN db.comp : Elsewhere([db EXCEPT !.comp[i].present = FALSE], {})
    BY <1>3 DEF UserUninstalls
  <2> DEFINE y == [X EXCEPT !.db.comp[i].present = FALSE]
  <2>2. y.db = [db EXCEPT !.comp[i].present = FALSE]
    BY DEF X
  <2>3. Follows(X, y)
    BY Begins, Uninstalled
  <2> QED
    BY <1>1, <2>1, <2>2, <2>3
<1> QED
  BY <1>2, <1>3

-----------------------------------------------------------------------------
(* The theorems. *)

LEMMA InitInv ==
  ASSUME Init
  PROVE  Inv
<1>1. /\ mem = NewMem /\ map = << >> /\ open = {} /\ wrong = {}
      /\ db = [comp |-> << >>, next |-> 1, results |-> {}, async |-> FALSE, static |-> ""]
  BY Zenon DEF Init, DmInit
<1>2. IsMem(mem)
  BY <1>1, NewSession
<1>3. db.comp = << >> /\ db.next = 1 /\ DOMAIN db = {"comp", "next", "results", "async", "static"}
  <2>1. \A s : LET d == [comp |-> << >>, next |-> 1, results |-> {}, async |-> FALSE, static |-> s]
               IN  /\ d.comp = << >> /\ d.next = 1
                   /\ DOMAIN d = {"comp", "next", "results", "async", "static"}
    OBVIOUS
  <2> QED
    BY <1>1, <2>1, Zenon
<1>4. X = [mem |-> mem, db |-> db, map |-> map, said |-> << >>]
  BY DEF X
<1>5. IsServer(X) /\ Ids(X) = {}
  BY <1>3, <1>4 DEF IsServer, Ids
<1>6. Good(X)
  BY <1>2, <1>3, <1>4, <1>5 DEF Good
<1> QED
  BY <1>1, <1>6 DEF Inv

LEMMA NextKept ==
  ASSUME Inv, [Next]_dmVars
  PROVE  Kept
<1>1. CASE UNCHANGED dmVars
  <2>1. UNCHANGED <<mem, db, open, wrong>>
    BY <1>1 DEF dmVars
  <2>2. IsMem(mem')
    BY <2>1, Begins
  <2> QED
    BY <2>1, <2>2, MembersKept
<1>2. CASE StartSession
  BY <1>2, StartSessionStep
<1>3. CASE AddNode \/ UpdateLeaf \/ Fetch \/ List
  BY <1>3, CommandStep
<1>4. CASE OpenStream \/ CommitStream
  BY <1>4, StreamStep
<1>5. CASE Delete
  BY <1>5, DeleteStep
<1>6. CASE ExecDownload \/ ExecInstall \/ ExecUpdate \/ ExecRemove \/ ExecSwitch
  BY <1>6, ExecStep
<1>7. CASE RollbackAtomic
  BY <1>7, RollbackStep
<1>8. CASE EndSession \/ StartAtomic \/ CommitAtomic \/ CompleteOutstandingCmds
  BY <1>8, MembersStep
<1>9. CASE DownloadEnds \/ UserUninstalls
  BY <1>9, ServerStep
<1> QED
  BY <1>1, <1>2, <1>3, <1>4, <1>5, <1>6, <1>7, <1>8, <1>9 DEF Next

\* The inductive invariant: every step leaves a state that a handler can begin in,
\* with what a rollback would answer again and to what a stream would be answered.
THEOREM Invariant == Spec => []Inv
<1>1. Init => Inv
  BY InitInv
<1>2. Inv /\ [Next]_dmVars => Inv'
  BY NextKept DEF Kept
<1> QED
  BY <1>1, <1>2, PTL DEF Spec

\* Only a stream and, by a rollback, a command of an atomic is answered twice, and
\* only a stream can go without an answer.
THEOREM AnsweredButStreamsHolds == Spec => []AnsweredButStreams
<1>1. Inv => AnsweredButStreams
  BY DEF Inv, AnsweredButStreams
<1> QED
  BY <1>1, Invariant, PTL

\* An update gives up an application only for one that is installed in its place, and
\* no other step gives up any, whichever the order of the commands.
THEOREM UpdateReplacesHolds == Spec => UpdateReplaces
<1>1. Inv /\ [Next]_dmVars =>
        [\A t \in DOMAIN db.comp \cap DOMAIN db'.comp :
          db.comp[t].state # "Delete" /\ db'.comp[t].state = "Delete" =>
              \E i \in DOMAIN db.comp \cap DOMAIN db'.comp :
                  db.comp[i].state = "Delivered" /\ db'.comp[i].state \in DeployedStates]_dmVars
  <2> SUFFICES ASSUME Inv, [Next]_dmVars
               PROVE  \A t \in DOMAIN db.comp \cap DOMAIN db'.comp :
                         db.comp[t].state # "Delete" /\ db'.comp[t].state = "Delete" =>
                            \E i \in DOMAIN db.comp \cap DOMAIN db'.comp :
                               /\ db.comp[i].state = "Delivered"
                               /\ db'.comp[i].state \in DeployedStates
    OBVIOUS
  <2>1. Replaces(X, X')
    BY NextKept DEF Kept
  <2>2. /\ Ids(X) = DOMAIN db.comp /\ X.db = db
        /\ Ids(X') = DOMAIN db'.comp /\ (X').db = db'
    BY DEF X, Ids
  <2> QED
    BY <2>1, <2>2 DEF Replaces
<1> QED
  BY <1>1, Invariant, PTL DEF Spec, UpdateReplaces
=============================================================================
