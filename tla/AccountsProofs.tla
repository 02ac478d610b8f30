---------------------------- MODULE AccountsProofs ----------------------------
(***************************************************************************)
(* The account adapters (DmAccounts).  Whatever the engine asks for, every *)
(* command is answered once, and the ones without an answer are kept; the  *)
(* locks of the FOTA accounts hold.  The lemmas on sequences and on a call *)
(* of the engine are those of AdapterProofs.                               *)
(***************************************************************************)
EXTENDS DmAccounts, AdapterProofs

-----------------------------------------------------------------------------
(* Accounts: references that wait in a sequence, each once. *)

RefsOf(s) == {s[j].ref : j \in DOMAIN s}
Distinct(s) == IsSeq(s) /\ \A j, k \in DOMAIN s : s[j].ref = s[k].ref => j = k

LEMMA DistinctEmpty == Distinct(<< >>) /\ RefsOf(<< >>) = {} /\ Len(<< >>) = 0
<1>1. << >> \in Seq({}) /\ DOMAIN << >> = {}
  OBVIOUS
<1> QED
  BY <1>1 DEF Distinct, RefsOf, IsSeq

LEMMA DistinctAppended ==
  ASSUME NEW s, Distinct(s), NEW a, a.ref \notin RefsOf(s)
  PROVE  Distinct(Append(s, a)) /\ RefsOf(Append(s, a)) = RefsOf(s) \cup {a.ref}
<1> DEFINE t == Append(s, a)
           last == Len(s) + 1
<1>1. /\ IsSeq(t) /\ t[last] = a /\ DOMAIN t = DOMAIN s \cup {last}
      /\ \A i \in DOMAIN s : t[i] = s[i]
  BY SeqAppend DEF Distinct
<1> HIDE DEF t, last
<1>2. \A i \in DOMAIN s : t[i].ref \in RefsOf(s) /\ t[i].ref = s[i].ref
  BY <1>1 DEF RefsOf
<1>3. ASSUME NEW j \in DOMAIN t, NEW k \in DOMAIN t, t[j].ref = t[k].ref
      PROVE  j = k
  <2>1. CASE j \in DOMAIN s /\ k \in DOMAIN s
    BY <1>2, <1>3, <2>1 DEF Distinct
  <2> QED
    BY <1>1, <1>2, <1>3, <2>1
<1>4. RefsOf(t) = RefsOf(s) \cup {a.ref}
  BY <1>1 DEF RefsOf
<1> QED
  BY <1>1, <1>3, <1>4 DEF Distinct, t

\* A call that answers some of the commands that are open or handed over, each once.
LEMMA CalledDistinct ==
  ASSUME NEW refs, NEW x, Called(refs, x), Distinct(x.said), Answered(x) \subseteq open \cup refs
  PROVE  mem' = x.mem /\ db' = x.db /\ open' = (open \cup refs) \ Answered(x) /\ wrong' = wrong
<1>1. DOMAIN x.said = 1 .. Len(x.said) /\ Len(x.said) \in Nat
  BY SeqDomain DEF Distinct
<1>2. ASSUME NEW j \in DOMAIN x.said, NEW k \in 1 .. j - 1, x.said[k].ref = x.said[j].ref
      PROVE  FALSE
  <2>1. k \in DOMAIN x.said /\ k # j
    BY <1>1
  <2> QED
    BY <1>2, <2>1 DEF Distinct
<1>3. Again(x) = {}
  BY <1>2 DEF Again
<1> QED
  BY <1>3 DEF Called

-----------------------------------------------------------------------------
(* Accounts: the parts of a state. *)

HasState(x) == {"mem", "db", "map", "said"} \subseteq DOMAIN x

LEMMA OtherMem ==
  ASSUME NEW x, HasState(x), NEW m
  PROVE  LET y == [x EXCEPT !.mem = m]
         IN  HasState(y) /\ y.mem = m /\ y.db = x.db /\ y.map = x.map /\ y.said = x.said
BY DEF HasState
LEMMA OtherDb ==
  ASSUME NEW x, HasState(x), NEW d
  PROVE  LET y == [x EXCEPT !.db = d]
         IN  HasState(y) /\ y.mem = x.mem /\ y.db = d /\ y.map = x.map /\ y.said = x.said
BY DEF HasState
LEMMA OtherMap ==
  ASSUME NEW x, HasState(x), NEW n
  PROVE  LET y == [x EXCEPT !.map = n]
         IN  HasState(y) /\ y.mem = x.mem /\ y.db = x.db /\ y.map = n /\ y.said = x.said
BY DEF HasState
LEMMA OtherSaid ==
  ASSUME NEW x, HasState(x), NEW s
  PROVE  LET y == [x EXCEPT !.said = s]
         IN  HasState(y) /\ y.mem = x.mem /\ y.db = x.db /\ y.map = x.map /\ y.said = s
BY DEF HasState

-----------------------------------------------------------------------------
(* Accounts of DM servers: what is answered, and what waits. *)

AccFields == {"buffer", "ports", "complete", "parent", "leafType"}
LocksKnown(m) == "locks" \in DOMAIN m => IsSeq(m.locks)
Books(x) ==
  /\ HasState(x) /\ AccFields \subseteq DOMAIN x.mem /\ LocksKnown(x.mem)
  /\ Distinct(x.said) /\ Distinct(x.mem.ports)
  /\ Answered(x) \cap RefsOf(x.mem.ports) = {}

\* The commands the adapter is done with: answered, or kept with a port.
Settled(x) == Answered(x) \cup RefsOf(x.mem.ports)

\* The members that commands on leaves do not touch.
SameRest(x, y) ==
  /\ DOMAIN y.mem = DOMAIN x.mem
  /\ y.mem.buffer = x.mem.buffer /\ y.mem.complete = x.mem.complete
  /\ "newProfile" \in DOMAIN x.mem => y.mem.newProfile = x.mem.newProfile

\* Nothing is answered from x to y and no port is added; those of R are settled, the
\* ones of K perhaps.
Quiet(x, y) ==
  /\ HasState(y) /\ SameRest(x, y)
  /\ LocksKnown(x.mem) => LocksKnown(y.mem)
  /\ y.mem.ports = x.mem.ports /\ y.said = x.said
Settles(x, y, R, K) ==
  /\ Books(y) /\ SameRest(x, y)
  /\ Settled(x) \subseteq Settled(y) /\ Settled(y) \subseteq Settled(x) \cup R
  /\ R \ K \subseteq Settled(y)

LEMMA QuietSelf ==
  ASSUME NEW x, HasState(x)
  PROVE  Quiet(x, x)
BY DEF Quiet, SameRest

LEMMA QuietTransitive ==
  ASSUME NEW x, NEW y, NEW z, Quiet(x, y), Quiet(y, z)
  PROVE  Quiet(x, z)
BY DEF Quiet, SameRest

LEMMA QuietBooks ==
  ASSUME NEW x, Books(x), NEW y, Quiet(x, y)
  PROVE  Books(y) /\ Settled(y) = Settled(x)
BY DEF Books, Quiet, SameRest, Settled, Answered

LEMMA QuietSettles ==
  ASSUME NEW x, Books(x), NEW y, Quiet(x, y), NEW z, NEW R, NEW K, Settles(y, z, R, K)
  PROVE  Settles(x, z, R, K)
<1>1. Settled(y) = Settled(x)
  BY QuietBooks
<1> QED
  BY <1>1 DEF Settles, SameRest, Quiet

LEMMA SettlesQuiet ==
  ASSUME NEW x, NEW y, NEW z, NEW R, NEW K, Settles(x, y, R, K), Quiet(y, z)
  PROVE  Settles(x, z, R, K)
<1>1. Settled(z) = Settled(y) /\ Books(z)
  BY QuietBooks DEF Settles
<1> QED
  BY <1>1 DEF Settles, SameRest, Quiet

LEMMA SettlesTransitive ==
  ASSUME NEW x, NEW y, NEW z, NEW Q, NEW R, NEW K, Settles(x, y, Q, K), Settles(y, z, R, K)
  PROVE  Settles(x, z, Q \cup R, K)
BY DEF Settles, SameRest

LEMMA SettlesMore ==
  ASSUME NEW x, NEW y, NEW R, NEW K, NEW L, Settles(x, y, R, K), K \subseteq L
  PROVE  Settles(x, y, R, L)
BY DEF Settles

\* What changes nothing that waits.
LEMMA QuietDb ==
  ASSUME NEW x, HasState(x), NEW d
  PROVE  Quiet(x, [x EXCEPT !.db = d])
BY OtherDb DEF Quiet, SameRest

LEMMA QuietMap ==
  ASSUME NEW x, HasState(x), NEW n
  PROVE  Quiet(x, [x EXCEPT !.map = n])
BY OtherMap DEF Quiet, SameRest

LEMMA QuietParent ==
  ASSUME NEW x, HasState(x), NEW p
  PROVE  LET y == [x EXCEPT !.mem.parent = p]
         IN  Quiet(x, y) /\ y.db = x.db /\ y.map = x.map
<1> DEFINE m == [x.mem EXCEPT !.parent = p]
<1>1. [x EXCEPT !.mem.parent = p] = [x EXCEPT !.mem = m]
  BY DEF HasState
<1>2. /\ DOMAIN m = DOMAIN x.mem /\ m.buffer = x.mem.buffer /\ m.ports = x.mem.ports
      /\ m.complete = x.mem.complete
      /\ m.newProfile = x.mem.newProfile
      /\ m.locks = x.mem.locks
  OBVIOUS
<1> HIDE DEF m
<1> DEFINE y == [x EXCEPT !.mem = m]
<1>3. HasState(y) /\ y.mem = m /\ y.db = x.db /\ y.map = x.map /\ y.said = x.said
  BY OtherMem
<1> HIDE DEF y
<1>4. Quiet(x, y)
  BY <1>2, <1>3 DEF Quiet, SameRest, LocksKnown
<1> QED
  BY <1>1, <1>3, <1>4 DEF y

LEMMA QuietLeafType ==
  ASSUME NEW x, HasState(x), NEW t
  PROVE  LET y == [x EXCEPT !.mem.leafType = t]
         IN  Quiet(x, y) /\ y.db = x.db /\ y.map = x.map
<1> DEFINE m == [x.mem EXCEPT !.leafType = t]
<1>1. [x EXCEPT !.mem.leafType = t] = [x EXCEPT !.mem = m]
  BY DEF HasState
<1>2. /\ DOMAIN m = DOMAIN x.mem /\ m.buffer = x.mem.buffer /\ m.ports = x.mem.ports
      /\ m.complete = x.mem.complete
      /\ m.newProfile = x.mem.newProfile
      /\ m.locks = x.mem.locks
  OBVIOUS
<1> HIDE DEF m
<1> DEFINE y == [x EXCEPT !.mem = m]
<1>3. HasState(y) /\ y.mem = m /\ y.db = x.db /\ y.map = x.map /\ y.said = x.said
  BY OtherMem
<1> HIDE DEF y
<1>4. Quiet(x, y)
  BY <1>2, <1>3 DEF Quiet, SameRest, LocksKnown
<1> QED
  BY <1>1, <1>3, <1>4 DEF y

\* An answer.
LEMMA AnswerGiven ==
  ASSUME NEW x, Books(x), NEW ref, ref \notin Settled(x), NEW status
  PROVE  LET y == [x EXCEPT !.said = Append(@, [ref |-> ref, status |-> status])]
         IN  Settles(x, y, {ref}, {}) /\ y.mem = x.mem /\ y.db = x.db /\ y.map = x.map
<1> DEFINE a == [ref |-> ref, status |-> status]
           s == Append(x.said, a)
           y == [x EXCEPT !.said = s]
<1>1. a.ref = ref
  OBVIOUS
<1>2. [x EXCEPT !.said = Append(@, [ref |-> ref, status |-> status])] = y
  BY DEF Books, HasState
<1> HIDE DEF a
<1>3. ref \notin RefsOf(x.said) /\ Distinct(x.said)
  BY DEF Settled, Answered, RefsOf, Books
<1>4. Distinct(s) /\ RefsOf(s) = RefsOf(x.said) \cup {ref}
  BY <1>1, <1>3, DistinctAppended
<1> HIDE DEF s
<1>5. HasState(y) /\ y.mem = x.mem /\ y.db = x.db /\ y.map = x.map /\ y.said = s
  BY OtherSaid DEF Books
<1> HIDE DEF y
<1>6. Answered(y) = Answered(x) \cup {ref}
  BY <1>4, <1>5 DEF Answered, RefsOf
<1>7. Settled(y) = Settled(x) \cup {ref}
  BY <1>5, <1>6 DEF Settled
<1>8. Books(y)
  BY <1>4, <1>5, <1>6 DEF Books, Settled
<1>9. SameRest(x, y)
  BY <1>5, SMTT(40) DEF SameRest
<1> QED
  BY <1>2, <1>5, <1>7, <1>8, <1>9 DEF Settles

\* A port that waits, with the reference of the command.
PortAdded(x, p, n) == [x EXCEPT !.mem.ports = Append(@, [id |-> p, port |-> n])]
PortOwned(x, ref) ==
  [x EXCEPT !.mem.ports[Len(x.mem.ports)] = [id |-> @.id, port |-> @.port, ref |-> ref]]

LEMMA PortWaits ==
  ASSUME NEW x, Books(x), NEW ref, ref \notin Settled(x), NEW p, NEW n
  PROVE  LET z == PortOwned(PortAdded(x, p, n), ref)
         IN  Settles(x, z, {ref}, {}) /\ z.db = x.db /\ z.map = x.map
<1> DEFINE a == [id |-> p, port |-> n]
           b == [id |-> p, port |-> n, ref |-> ref]
           s == x.mem.ports
           y == [x EXCEPT !.mem.ports = Append(@, a)]
           z == [y EXCEPT !.mem.ports[Len(y.mem.ports)] =
                       [id |-> @.id, port |-> @.port, ref |-> ref]]
           m == [x.mem EXCEPT !.ports = Append(s, b)]
<1>1. b.ref = ref /\ b.id = p /\ b.port = n
  OBVIOUS
<1>2. y = [x EXCEPT !.mem = [x.mem EXCEPT !.ports = Append(s, a)]] /\ y.mem.ports = Append(s, a)
  BY DEF Books, HasState, AccFields
<1>3. Append(s, a)[Len(Append(s, a))] = a
      /\ [Append(s, a) EXCEPT ![Len(Append(s, a))] = b] = Append(s, b)
  <2>1. PICK S : s \in Seq(S)
    BY DEF Books, Distinct, IsSeq
  <2>2. s \in Seq(S \cup {a, b})
    BY <2>1
  <2> DEFINE t == Append(s, a)
             u == Append(s, b)
  <2>3. Len(s) \in Nat /\ Len(t) = Len(s) + 1 /\ Len(u) = Len(s) + 1 /\ t[Len(s) + 1] = a
    BY <2>2
  <2>4. t \in Seq(S \cup {a, b}) /\ u \in Seq(S \cup {a, b})
    BY <2>2
  <2> HIDE DEF a, b
  <2>5. \A i \in 1 .. Len(s) : t[i] = s[i] /\ u[i] = s[i]
    BY <2>2
  <2>6. u[Len(s) + 1] = b
    BY <2>2
  <2> HIDE DEF t, u
  <2>7. DOMAIN t = 1 .. Len(s) + 1 /\ DOMAIN u = 1 .. Len(s) + 1
    BY <2>3, <2>4
  <2>8. u = [i \in DOMAIN u |-> u[i]]
    BY <2>4
  <2>9. [t EXCEPT ![Len(s) + 1] = b] = u
    BY <2>3, <2>5, <2>6, <2>7, <2>8
  <2> QED
    BY <2>3, <2>9 DEF t, u
<1>4. z = [y EXCEPT !.mem.ports[Len(y.mem.ports)] = b]
  <2>1. y.mem.ports[Len(y.mem.ports)] = a
    BY <1>2, <1>3
  <2> HIDE DEF y
  <2> QED
    BY <2>1
<1>5. z = [x EXCEPT !.mem = m]
  <2>1. z = [y EXCEPT !.mem = [y.mem EXCEPT !.ports = [Append(s, a) EXCEPT ![Len(Append(s, a))] = b]]]
    BY <1>2, <1>4
  <2>2. z = [y EXCEPT !.mem = [y.mem EXCEPT !.ports = Append(s, b)]]
    BY <1>3, <2>1
  <2>3. y.mem = [x.mem EXCEPT !.ports = Append(s, a)]
    BY <1>2 DEF Books, HasState
  <2>4. [y.mem EXCEPT !.ports = Append(s, b)] = m
    BY <2>3
  <2> HIDE DEF m, z
  <2> QED
    BY <1>2, <2>2, <2>4
<1>6. ref \notin RefsOf(s) /\ Distinct(s)
  BY DEF Settled, Books
<1> HIDE DEF a, b
<1>7. Distinct(Append(s, b)) /\ RefsOf(Append(s, b)) = RefsOf(s) \cup {ref}
  BY <1>1, <1>6, DistinctAppended
<1>8. /\ DOMAIN m = DOMAIN x.mem /\ m.buffer = x.mem.buffer /\ m.ports = Append(s, b)
      /\ m.complete = x.mem.complete
      /\ m.newProfile = x.mem.newProfile
      /\ m.locks = x.mem.locks
  BY DEF Books, AccFields
<1> HIDE DEF m, y, z
<1>9. HasState(z) /\ z.mem = m /\ z.db = x.db /\ z.map = x.map /\ z.said = x.said
  BY <1>5, OtherMem DEF Books
<1>10. Answered(z) = Answered(x) /\ RefsOf(z.mem.ports) = RefsOf(x.mem.ports) \cup {ref}
  BY <1>7, <1>8, <1>9 DEF Answered
<1>11. Settled(z) = Settled(x) \cup {ref}
  BY <1>10 DEF Settled
<1>12. Books(z)
  BY <1>7, <1>8, <1>9, <1>10 DEF Books, Settled, LocksKnown
<1>13. SameRest(x, z)
  BY <1>8, <1>9 DEF SameRest
<1> QED
  BY <1>9, <1>11, <1>12, <1>13 DEF Settles, z, y, a, PortAdded, PortOwned

-----------------------------------------------------------------------------
(* Accounts of DM 1.2: what a lock covers. *)

\* d and e differ at most in p; locked profiles stay and are locked; they stay.
Only(d, e, p) == DOMAIN e = DOMAIN d /\ \A q \in DOMAIN d \ {p} : e[q] = d[q]
Keeps(d, e) ==
  \A q \in DOMAIN d : d[q].locked => /\ q \in DOMAIN e /\ e[q].locked = d[q].locked
                                     /\ A12!Covered(e[q]) = A12!Covered(d[q])
Covers(d, e) ==
  \A q \in DOMAIN d : d[q].locked => q \in DOMAIN e /\ A12!Covered(e[q]) = A12!Covered(d[q])

LEMMA KeepsSelf ==
  ASSUME NEW d
  PROVE  Keeps(d, d) /\ Covers(d, d)
BY DEF Keeps, Covers

LEMMA KeepsTransitive ==
  ASSUME NEW d, NEW e, NEW f, Keeps(d, e)
  PROVE  (Keeps(e, f) => Keeps(d, f)) /\ (Covers(e, f) => Covers(d, f))
BY DEF Keeps, Covers

LEMMA OnlyKeeps ==
  ASSUME NEW d, NEW e, NEW p, Only(d, e, p), ~d[p].locked
  PROVE  Keeps(d, e) /\ Covers(d, e)
BY DEF Only, Keeps, Covers

\* The items a lock does not cover.
WithField(d, p, f, v) == [d EXCEPT ![p] = [d[p] EXCEPT ![f] = v]]
LEMMA NotCovered ==
  ASSUME NEW d, NEW p, NEW v, NEW f \in A12!AuthFields \cup {"locked", "port"}
  PROVE  LET e == WithField(d, p, f, v)
         IN  /\ DOMAIN e = DOMAIN d
             /\ \A q \in DOMAIN d : A12!Covered(e[q]) = A12!Covered(d[q])
             /\ f # "locked" => \A q \in DOMAIN d : e[q].locked = d[q].locked
<1> DEFINE r == [d[p] EXCEPT ![f] = v]
           e == [d EXCEPT ![p] = r]
<1>1. A12!Covered(r) = A12!Covered(d[p])
  <2>1. DOMAIN r = DOMAIN d[p] /\ \A g \in DOMAIN r \ {f} : r[g] = d[p][g]
    OBVIOUS
  <2> HIDE DEF r
  <2> QED
    BY <2>1 DEF A12!Covered, A12!AuthFields
<1>2. f # "locked" => r.locked = d[p].locked
  OBVIOUS
<1> HIDE DEF r
<1>3. DOMAIN e = DOMAIN d /\ \A q \in DOMAIN d : e[q] = IF q = p THEN r ELSE d[q]
  OBVIOUS
<1> HIDE DEF e
<1>4. \A q \in DOMAIN d : A12!Covered(e[q]) = A12!Covered(d[q])
  BY <1>1, <1>3
<1>5. f # "locked" => \A q \in DOMAIN d : e[q].locked = d[q].locked
  BY <1>2, <1>3
<1> QED
  BY <1>3, <1>4, <1>5 DEF WithField, e, r

\* SetAuthInfoL asks no lock, and changes nothing that is locked.
LEMMA AuthInfo ==
  ASSUME NEW d, NEW p, NEW field \in A12!AuthFields, NEW obj
  PROVE  LET e == A12!SetAuthInfo(d, p, field, obj)
         IN  DOMAIN e = DOMAIN d /\ Keeps(d, e) /\ Covers(d, e)
<1> DEFINE e == WithField(d, p, field, obj.text)
<1>1. A12!SetAuthInfo(d, p, field, obj) = e
  BY DEF A12!SetAuthInfo, A12!AuthFields, WithField
<1>2. field # "locked"
  BY DEF A12!AuthFields
<1>3. /\ DOMAIN e = DOMAIN d
      /\ \A q \in DOMAIN d : e[q].locked = d[q].locked /\ A12!Covered(e[q]) = A12!Covered(d[q])
  BY <1>2, NotCovered
<1> HIDE DEF e
<1> QED
  BY <1>1, <1>3 DEF Keeps, Covers

\* Setting the lock of a profile.
LEMMA LockSet ==
  ASSUME NEW d, NEW p, NEW lock
  PROVE  LET e == A12!SetProfileLock(d, p, lock)
         IN  /\ DOMAIN e = DOMAIN d
             /\ \A q \in DOMAIN d : A12!Covered(e[q]) = A12!Covered(d[q])
<1> DEFINE v == (lock = 1)
           e == WithField(d, p, "locked", v)
<1> HIDE DEF v
<1>1. /\ DOMAIN e = DOMAIN d
      /\ \A q \in DOMAIN d : A12!Covered(e[q]) = A12!Covered(d[q])
  BY NotCovered
<1>2. [d EXCEPT ![p].locked = (lock = 1)] = e
  BY DEF WithField, v
<1> HIDE DEF e
<1>3. A12!SetProfileLock(d, p, lock) \in {e, d}
  BY <1>2 DEF A12!SetProfileLock
<1> QED
  BY <1>1, <1>3

\* A port that is put into an address.
LEMMA PortSet ==
  ASSUME NEW d, NEW e, NEW leafType
  PROVE  LET f == A12!SetProfileConnectionPortNr(d, e, leafType).db
         IN  /\ DOMAIN f = DOMAIN d /\ Keeps(d, f)
             /\ \A q \in DOMAIN d : A12!Covered(f[q]) = A12!Covered(d[q])
<1> DEFINE n == A12!WithPort(leafType, d[e.id].URL, e.port)
           f == [d EXCEPT ![e.id] = [d[e.id] EXCEPT !["port"] = n]]
           g == A12!SetProfileConnectionPortNr(d, e, leafType).db
<1> HIDE DEF n
<1>1. /\ DOMAIN f = DOMAIN d
      /\ \A q \in DOMAIN d : f[q].locked = d[q].locked /\ A12!Covered(f[q]) = A12!Covered(d[q])
  <2> DEFINE field == "port"
  <2>1. field \in A12!AuthFields \cup {"locked", "port"} /\ field # "locked"
    OBVIOUS
  <2>2. f = WithField(d, e.id, field, n)
    BY DEF WithField
  <2> HIDE DEF f, field
  <2>3. DOMAIN f = DOMAIN d /\ \A q \in DOMAIN d : A12!Covered(f[q]) = A12!Covered(d[q])
    BY <2>1, <2>2, NotCovered
  <2>4. \A q \in DOMAIN d : f[q].locked = d[q].locked
    BY <2>1, <2>2, NotCovered
  <2> QED
    BY <2>3, <2>4
<1>2. [d EXCEPT ![e.id].port = n] = f
  OBVIOUS
<1> HIDE DEF f
<1>3. g \in {f, d}
  BY <1>2 DEF A12!SetProfileConnectionPortNr, n
<1> HIDE DEF g
<1>4. DOMAIN g = DOMAIN d
      /\ \A q \in DOMAIN d : g[q].locked = d[q].locked /\ A12!Covered(g[q]) = A12!Covered(d[q])
  BY <1>1, <1>3
<1> QED
  BY <1>4 DEF Keeps, g

\* The items SetDMFieldDataL writes are those of the profile.
LEMMA ItemSet ==
  ASSUME NEW x, HasState(x), NEW p, NEW obj, NEW field
  PROVE  LET r == A12!SetItem(x, p, obj, field)
         IN  r.x = x \/ \E d : r.x = [x EXCEPT !.db = d] /\ Only(x.db, d, p)
<1> DEFINE r == A12!SetItem(x, p, obj, field)
           Done(z) == z = x \/ \E d : z = [x EXCEPT !.db = d] /\ Only(x.db, d, p)
<1>1. ASSUME NEW d, Only(x.db, d, p)
      PROVE  Done([x EXCEPT !.db = d])
  BY <1>1
<1>2. Done(x)
  OBVIOUS
<1>3. Only(x.db, A12!SetProfileServerURI(x.db, p, obj, x.mem.leafType), p)
  BY DEF A12!SetProfileServerURI, Only
<1>4. /\ Only(x.db, A12!SetProfileServerId(x.db, p, obj), p)
      /\ Only(x.db, A12!SetProfileServerPassword(x.db, p, obj), p)
      /\ Only(x.db, A12!SetProfileUserName(x.db, p, obj), p)
      /\ Only(x.db, A12!SetProfilePassword(x.db, p, obj), p)
      /\ Only(x.db, A12!SetProfileDisplayName(x.db, p, obj), p)
      /\ Only(x.db, A12!SetProfileHttpUserName(x.db, p, obj), p)
      /\ Only(x.db, A12!SetProfileHttpPassword(x.db, p, obj), p)
  BY DEF A12!SetProfileServerId, A12!SetProfileServerPassword, A12!SetProfileUserName,
     A12!SetProfilePassword, A12!SetProfileDisplayName, A12!SetProfileHttpUserName,
     A12!SetProfileHttpPassword, Only
<1>5. Only(x.db, A12!SetConRef(x.db, p, obj).db, p)
  <2>1. Only(x.db, x.db, p) /\ Only(x.db, [x.db EXCEPT ![p].IAP = obj.text], p)
    BY DEF Only
  <2>2. A12!SetConRef(x.db, p, obj).db \in {x.db, [x.db EXCEPT ![p].IAP = obj.text]}
    <3>1. \A d, e : [err |-> e, db |-> d].db = d
      OBVIOUS
    <3>2. \/ \E e : A12!SetConRef(x.db, p, obj) = [err |-> e, db |-> x.db]
          \/ \E e : A12!SetConRef(x.db, p, obj) = [err |-> e, db |-> [x.db EXCEPT ![p].IAP = obj.text]]
      BY Zenon DEF A12!SetConRef
    <3> QED
      BY <3>1, <3>2
  <2> QED
    BY <2>1, <2>2
<1> HIDE DEF Done
<1>6. \A d, e : [err |-> e, x |-> d].x = d
  OBVIOUS
<1> DEFINE put(d) == [err |-> "KErrNone", x |-> [x EXCEPT !.db = d]]
           only(e) == [err |-> e, x |-> x]
<1> HIDE DEF put, only
<1>7. /\ field = "URL" => r = put(A12!SetProfileServerURI(x.db, p, obj, x.mem.leafType))
      /\ field = "ServerId" => r = put(A12!SetProfileServerId(x.db, p, obj))
      /\ field = "SharedSecret" => r = put(A12!SetProfileServerPassword(x.db, p, obj))
      /\ field = "UserName" => r = put(A12!SetProfileUserName(x.db, p, obj))
      /\ field = "Password" => r = put(A12!SetProfilePassword(x.db, p, obj))
      /\ field = "Name" => r = put(A12!SetProfileDisplayName(x.db, p, obj))
      /\ field = "TransportName" => r = put(A12!SetProfileHttpUserName(x.db, p, obj))
      /\ field = "TransportPassword" => r = put(A12!SetProfileHttpPassword(x.db, p, obj))
      /\ field = "IAP" => r.x = [x EXCEPT !.db = A12!SetConRef(x.db, p, obj).db]
  BY DEF A12!SetItem, put
<1>8. /\ field = "Transport" => r = only(A12!SetProfileAddrType(x.db, p, obj))
      /\ field \in {"TransportData", "AddrType", "Id"} => r = only("KErrNone")
      /\ field \notin {"URL", "ServerId", "SharedSecret", "UserName", "Password", "Name",
                       "TransportName", "TransportPassword", "IAP", "Transport",
                       "TransportData", "AddrType", "Id"} => r = only("KErrNotSupported")
  BY DEF A12!SetItem, only
<1>9. (\A d : put(d).x = [x EXCEPT !.db = d]) /\ (\A e : only(e).x = x)
  BY DEF put, only
<1> HIDE DEF r
<1>10. (\A d : Only(x.db, d, p) => Done(put(d).x)) /\ (\A e : Done(only(e).x))
  BY <1>1, <1>2, <1>9
<1>11. Done([x EXCEPT !.db = A12!SetConRef(x.db, p, obj).db])
  BY <1>1, <1>5
<1> HIDE DEF Only, put, only
<1>12. Done(r.x)
  BY <1>3, <1>4, <1>7, <1>8, <1>10, <1>11
<1> QED
  BY <1>12 DEF Done, r

-----------------------------------------------------------------------------
(* Accounts of DM 1.2: commands on leaves. *)

Books12(x) == Books(x) /\ {"locks", "newProfile"} \subseteq DOMAIN x.mem
LockRef(r) == r.op = "leaf" /\ r.leaf[2] = "ProfileLock"
Written(x, z, R, K) ==
  /\ Settles(x, z, R, K)
  /\ DOMAIN z.db = DOMAIN x.db /\ Covers(x.db, z.db)
  /\ x.mem.newProfile => Keeps(x.db, z.db)

LEMMA WrittenAfter ==
  ASSUME NEW x, Books(x), NEW y, Quiet(x, y), y.db = x.db, "newProfile" \in DOMAIN x.mem,
         NEW z, NEW R, NEW K, Written(y, z, R, K)
  PROVE  Written(x, z, R, K)
<1>1. Settles(x, z, R, K)
  BY QuietSettles DEF Written
<1>2. y.mem.newProfile = x.mem.newProfile
  BY DEF Quiet, SameRest
<1> QED
  BY <1>1, <1>2 DEF Written

\* An answer, at once or after the profiles changed.
LEMMA WrittenAnswer ==
  ASSUME NEW x, Books(x), NEW ref, ref \notin Settled(x), NEW status, NEW K
  PROVE  LET z == A12!SetStatus(x, ref, status)
         IN  Written(x, z, {ref}, K) /\ z.db = x.db
<1> DEFINE z == A12!SetStatus(x, ref, status)
<1>1. Settles(x, z, {ref}, {}) /\ z.db = x.db
  BY AnswerGiven DEF A12!SetStatus
<1> HIDE DEF z
<1>2. Settles(x, z, {ref}, K)
  BY <1>1, SettlesMore
<1> QED
  BY <1>1, <1>2, KeepsSelf DEF Written, z

LEMMA WrittenDb ==
  ASSUME NEW x, Books(x), NEW d, DOMAIN d = DOMAIN x.db, Covers(x.db, d),
         x.mem.newProfile => Keeps(x.db, d),
         NEW ref, ref \notin Settled(x), NEW status, NEW K
  PROVE  Written(x, A12!SetStatus([x EXCEPT !.db = d], ref, status), {ref}, K)
<1> DEFINE y == [x EXCEPT !.db = d]
           z == A12!SetStatus(y, ref, status)
<1>1. Quiet(x, y) /\ y.db = d
  BY QuietDb, OtherDb DEF Books
<1> HIDE DEF y
<1>2. Books(y) /\ ref \notin Settled(y)
  BY <1>1, QuietBooks
<1>3. Written(y, z, {ref}, K) /\ z.db = d
  BY <1>1, <1>2, WrittenAnswer
<1> HIDE DEF z
<1>4. Settles(x, z, {ref}, K)
  BY <1>1, <1>3, QuietSettles DEF Written
<1> QED
  BY <1>3, <1>4 DEF Written, y, z

\* SetDMFieldDataL.
DataDone(x, r, p, obj, field) ==
  /\ field = "Lock" =>
       \/ r.x = x /\ ~x.mem.newProfile
       \/ x.mem.newProfile /\ \E l : r.x = [x EXCEPT !.mem.locks = Append(@, l)]
       \/ ~x.mem.newProfile /\ r.x = [x EXCEPT !.db = A12!SetProfileLock(@, p, obj.num)]
  /\ field = "Port" =>
       \/ r.x = x /\ r.err # "KErrNone"
       \/ r.x = PortAdded(x, p, obj.num) /\ r.err = "KErrNone"
  /\ field \notin {"Lock", "Port"} =>
       \/ r.x = x
       \/ ~x.db[p].locked /\ \E d : r.x = [x EXCEPT !.db = d] /\ Only(x.db, d, p)

LEMMA DataSet ==
  ASSUME NEW x, HasState(x), NEW p, NEW obj, NEW field
  PROVE  DataDone(x, A12!SetDMFieldData(x, p, obj, field), p, obj, field)
<1> DEFINE r == A12!SetDMFieldData(x, p, obj, field)
           error == [err |-> A12!IsProfileLocked(x.db, p), x |-> x]
<1>1. CASE field = "Lock"
  <2>1. r = A12!SetLock(x, p, obj)
    BY <1>1 DEF A12!SetDMFieldData
  <2> DEFINE l == [id |-> p, lock |-> IF obj.num = 1 THEN 1 ELSE 0]
             longer == [x EXCEPT !.mem.locks = Append(@, l)]
             set == [x EXCEPT !.db = A12!SetProfileLock(@, p, obj.num)]
  <2>2. \A e, z : [err |-> e, x |-> z].x = z
    OBVIOUS
  <2>3. CASE x.mem.newProfile
    <3>1. r = [err |-> "KErrNone", x |-> longer]
      BY <2>1, <2>3, Zenon DEF A12!SetLock
    <3> HIDE DEF r, longer
    <3>2. r.x = longer
      BY <2>2, <3>1
    <3> QED
      BY <1>1, <2>3, <3>2 DEF r, longer, DataDone
  <2>4. CASE ~x.mem.newProfile
    <3>1. \E e : r = [err |-> e, x |-> x] \/ r = [err |-> e, x |-> set]
      BY <2>1, <2>4, Zenon DEF A12!SetLock
    <3> HIDE DEF r, set, DataDone
    <3>2. r.x \in {x, set}
      BY <2>2, <3>1
    <3> QED
      BY <1>1, <2>4, <3>2 DEF r, set, DataDone
  <2> QED
    BY <2>3, <2>4
<1>2. CASE field # "Lock" /\ A12!IsProfileLocked(x.db, p) # "KErrNone"
  <2>1. r = error
    BY <1>2 DEF A12!SetDMFieldData
  <2> QED
    BY <1>2, <2>1 DEF DataDone
<1>3. CASE field = "Port" /\ A12!IsProfileLocked(x.db, p) = "KErrNone"
  <2> DEFINE longer == PortAdded(x, p, obj.num)
             refused == A12!PortError(obj)
  <2>1. r = A12!SetPort(x, p, obj)
    BY <1>3 DEF A12!SetDMFieldData
  <2>2. r \in {[err |-> "KErrNone", x |-> longer], [err |-> refused, x |-> x]}
    BY <2>1, Zenon DEF A12!SetPort, PortAdded
  <2>3. refused # "KErrNone"
    BY DEF A12!PortError
  <2> HIDE DEF r, longer, refused
  <2>4. (r.x = longer /\ r.err = "KErrNone") \/ (r.x = x /\ r.err # "KErrNone")
    BY <2>2, <2>3
  <2> QED
    BY <1>3, <2>4 DEF r, longer, DataDone
<1>4. CASE field \notin {"Lock", "Port"} /\ A12!IsProfileLocked(x.db, p) = "KErrNone"
  <2>1. r = A12!SetItem(x, p, obj, field)
    BY <1>4 DEF A12!SetDMFieldData
  <2>2. ~x.db[p].locked
    BY <1>4 DEF A12!IsProfileLocked
  <2> HIDE DEF r
  <2>3. r.x = x \/ \E d : r.x = [x EXCEPT !.db = d] /\ Only(x.db, d, p)
    BY <2>1, ItemSet
  <2> QED
    BY <1>4, <2>2, <2>3 DEF r, DataDone
<1> QED
  BY <1>1, <1>2, <1>3, <1>4

\* Only the lock is an item of its own.
LEMMA LockField ==
  ASSUME NEW leaf, A12!GetDMField(leaf) = "Lock"
  PROVE  leaf[2] = "ProfileLock"
BY DEF A12!GetDMField, A12!PlainField, A12!CredentialField

\* The lock of a new profile is kept and not answered.
LEMMA LockKept ==
  ASSUME NEW x, Books12(x), x.mem.newProfile, NEW l, NEW ref, NEW K, ref \in K
  PROVE  Written(x, [x EXCEPT !.mem.locks = Append(@, l)], {ref}, K)
<1> DEFINE t == Append(x.mem.locks, l)
           m == [x.mem EXCEPT !.locks = t]
           y == [x EXCEPT !.mem = m]
<1>1. [x EXCEPT !.mem.locks = Append(@, l)] = y
  BY DEF Books12, Books, HasState
<1>2. IsSeq(x.mem.locks)
  BY DEF Books12, Books, LocksKnown
<1> HIDE DEF t
<1>3. /\ DOMAIN m = DOMAIN x.mem /\ m.buffer = x.mem.buffer /\ m.ports = x.mem.ports
      /\ m.complete = x.mem.complete /\ m.newProfile = x.mem.newProfile
  BY DEF Books12, Books, AccFields
<1>9. m.locks = t
  BY DEF Books12
<1> HIDE DEF m
<1>4. HasState(y) /\ y.mem = m /\ y.db = x.db /\ y.said = x.said
  BY OtherMem DEF Books12, Books
<1> HIDE DEF y
<1>5. IsSeq(y.mem.locks)
  BY <1>2, <1>4, <1>9, SeqAppend DEF t
<1>6. Quiet(x, y)
  BY <1>3, <1>4, <1>5 DEF Quiet, SameRest, LocksKnown
<1>7. Books(y) /\ Settled(y) = Settled(x)
  BY <1>6, QuietBooks DEF Books12
<1>8. Settles(x, y, {ref}, K)
  BY <1>6, <1>7 DEF Settles, Quiet
<1> QED
  BY <1>1, <1>4, <1>8, KeepsSelf DEF Written

\* UpdateLeafObjectL for a profile it knows.
LEMMA KnownWritten ==
  ASSUME NEW x, Books12(x), NEW p, NEW leaf, NEW obj, NEW ref, ref \notin Settled(x),
         NEW K, leaf[2] = "ProfileLock" => ref \in K
  PROVE  Written(x, A12!UpdateKnown(x, p, leaf, obj, ref), {ref}, K)
<1> DEFINE field == A12!GetDMField(leaf)
           y == [x EXCEPT !.mem.parent = p]
           r == A12!SetDMFieldData(y, p, obj, field)
           z == A12!UpdateKnown(x, p, leaf, obj, ref)
<1>1. Quiet(x, y) /\ y.db = x.db
  BY QuietParent DEF Books12, Books
<1>2. Books(y) /\ Books12(y) /\ ref \notin Settled(y) /\ y.mem.newProfile = x.mem.newProfile
      /\ Books(x) /\ "newProfile" \in DOMAIN x.mem /\ HasState(y)
  BY <1>1, QuietBooks DEF Books12, Quiet, SameRest
<1>3. field = "Lock" => ref \in K
  BY LockField
<1>4. \A s : Written(x, A12!SetStatus(x, ref, s), {ref}, K)
  BY <1>2, WrittenAnswer
<1>5. \A s : Written(y, A12!SetStatus(y, ref, s), {ref}, K)
  BY <1>2, WrittenAnswer
<1>6. ASSUME NEW d, DOMAIN d = DOMAIN y.db, Covers(y.db, d), y.mem.newProfile => Keeps(y.db, d)
      PROVE  \A s : Written(y, A12!SetStatus([y EXCEPT !.db = d], ref, s), {ref}, K)
  BY <1>2, <1>6, WrittenDb
<1>7. ASSUME field \in A12!AuthFields
      PROVE  \A s : Written(y, A12!SetStatus([y EXCEPT !.db = A12!SetAuthInfo(@, p, field, obj)], ref, s), {ref}, K)
  <2> DEFINE d == A12!SetAuthInfo(y.db, p, field, obj)
  <2>1. DOMAIN d = DOMAIN y.db /\ Keeps(y.db, d) /\ Covers(y.db, d)
    BY <1>7, AuthInfo
  <2>2. [y EXCEPT !.db = A12!SetAuthInfo(@, p, field, obj)] = [y EXCEPT !.db = d]
    BY <1>2 DEF HasState
  <2> HIDE DEF d, y, field
  <2> QED
    BY <1>6, <2>1, <2>2
<1> HIDE DEF y, z, field
<1>12. DataDone(y, r, p, obj, field)
  BY <1>2, DataSet
<1>8. ASSUME NEW v, Written(y, v, {ref}, K)
      PROVE  Written(x, v, {ref}, K)
  BY <1>1, <1>2, <1>8, WrittenAfter
<1>9. ASSUME field = "Lock"
      PROVE  IF x.mem.newProfile THEN Written(y, r.x, {ref}, K)
             ELSE \A s : Written(y, A12!SetStatus(r.x, ref, s), {ref}, K)
  <2> HIDE DEF r
  <2>1. ASSUME x.mem.newProfile, NEW l
        PROVE  Written(y, [y EXCEPT !.mem.locks = Append(@, l)], {ref}, K)
    BY <1>2, <1>3, <1>9, <2>1, LockKept
  <2>2. ASSUME ~x.mem.newProfile
        PROVE  \A s : Written(y, A12!SetStatus([y EXCEPT !.db = A12!SetProfileLock(@, p, obj.num)], ref, s), {ref}, K)
    <3> DEFINE d == A12!SetProfileLock(y.db, p, obj.num)
    <3>1. /\ DOMAIN d = DOMAIN y.db
          /\ \A q \in DOMAIN y.db : A12!Covered(d[q]) = A12!Covered(y.db[q])
      BY LockSet
    <3>2. [y EXCEPT !.db = A12!SetProfileLock(@, p, obj.num)] = [y EXCEPT !.db = d]
      BY <1>2 DEF HasState
    <3> HIDE DEF d
    <3>3. Covers(y.db, d)
      BY <3>1 DEF Covers
    <3> QED
      BY <1>2, <1>6, <2>2, <3>1, <3>2, <3>3
  <2>3. \/ r.x = y /\ ~y.mem.newProfile
        \/ y.mem.newProfile /\ \E l : r.x = [y EXCEPT !.mem.locks = Append(@, l)]
        \/ ~y.mem.newProfile /\ r.x = [y EXCEPT !.db = A12!SetProfileLock(@, p, obj.num)]
    BY <1>2, <1>9, <1>12 DEF DataDone
  <2> QED
    BY <1>2, <1>5, <2>1, <2>2, <2>3
<1>10. ASSUME field \notin {"Lock", "Port"}
       PROVE  \A s : Written(y, A12!SetStatus(r.x, ref, s), {ref}, K)
  <2> HIDE DEF r
  <2>1. r.x = y \/ (~y.db[p].locked /\ \E d : r.x = [y EXCEPT !.db = d] /\ Only(y.db, d, p))
    BY <1>10, <1>12 DEF DataDone
  <2>2. ASSUME NEW d, Only(y.db, d, p), ~y.db[p].locked
        PROVE  DOMAIN d = DOMAIN y.db /\ Covers(y.db, d) /\ Keeps(y.db, d)
    BY <2>2, OnlyKeeps DEF Only
  <2> QED
    BY <1>5, <1>6, <2>1, <2>2
<1>11. ASSUME field = "Port"
       PROVE  /\ r.err = "KErrNone" =>
                   Written(y, PortOwned(r.x, ref), {ref}, K)
              /\ r.err # "KErrNone" => \A s : Written(y, A12!SetStatus(r.x, ref, s), {ref}, K)
  <2> DEFINE w == PortAdded(y, p, obj.num)
             v == PortOwned(w, ref)
  <2>1. Settles(y, v, {ref}, {}) /\ v.db = y.db
    BY <1>2, PortWaits
  <2>2. Written(y, v, {ref}, K)
    <3> HIDE DEF v
    <3>1. Settles(y, v, {ref}, K)
      BY <2>1, SettlesMore
    <3> QED
      BY <2>1, <3>1, KeepsSelf DEF Written
  <2> HIDE DEF r
  <2>3. \/ r.x = y /\ r.err # "KErrNone"
        \/ r.x = w /\ r.err = "KErrNone"
    BY <1>11, <1>12 DEF DataDone
  <2> HIDE DEF w
  <2> QED
    BY <1>5, <2>2, <2>3
<1> DEFINE auth ==
             IF A12!FindProfileId(y.db, p)
                 THEN A12!SetStatus([y EXCEPT !.db = A12!SetAuthInfo(@, p, field, obj)], ref, "EOk")
                 ELSE A12!SetStatus(y, ref, "ENotFound")
           plain ==
             CASE field = "Port" /\ r.err = "KErrNone" -> PortOwned(r.x, ref)
               [] field = "Port" /\ r.err = "KErrOverflow" ->
                    A12!SetStatus(r.x, ref, "ETooLargeObject")
               [] field = "Port" /\ r.err \notin {"KErrNone", "KErrOverflow"} ->
                    A12!SetStatus(r.x, ref, "EError")
               [] field = "Lock" /\ x.mem.newProfile -> r.x
               [] OTHER -> A12!SetStatus(r.x, ref, A12!UpdateStatus(r.err))
           rest == IF field \in A12!AuthFields THEN auth ELSE plain
<1>13. \/ \E s : z = A12!SetStatus(x, ref, s)
       \/ \E s : z = A12!SetStatus(y, ref, s)
       \/ z = rest
  BY Zenon DEF A12!UpdateKnown, z, y, field, rest, auth, plain, PortOwned
<1>14. Written(y, rest, {ref}, K)
  <2> HIDE DEF r
  <2>1. CASE field \in A12!AuthFields
    <3>1. \/ auth = A12!SetStatus([y EXCEPT !.db = A12!SetAuthInfo(@, p, field, obj)], ref, "EOk")
          \/ auth = A12!SetStatus(y, ref, "ENotFound")
      BY Zenon
    <3>2. Written(y, auth, {ref}, K)
      BY <1>5, <1>7, <2>1, <3>1, Zenon
    <3> QED
      BY <2>1, <3>2, Zenon
  <2>2. CASE field = "Port"
    <3>1. /\ r.err = "KErrNone" => plain = PortOwned(r.x, ref)
          /\ r.err # "KErrNone" => \/ plain = A12!SetStatus(r.x, ref, "ETooLargeObject")
                                   \/ plain = A12!SetStatus(r.x, ref, "EError")
      BY <2>2
    <3> HIDE DEF plain
    <3>2. Written(y, plain, {ref}, K)
      BY <1>11, <2>2, <3>1
    <3> QED
      BY <2>2, <3>2 DEF A12!AuthFields
  <2>3. CASE field = "Lock"
    <3>1. \/ x.mem.newProfile /\ plain = r.x
          \/ ~x.mem.newProfile /\ plain = A12!SetStatus(r.x, ref, A12!UpdateStatus(r.err))
      BY <2>3
    <3> HIDE DEF plain
    <3>2. Written(y, plain, {ref}, K)
      BY <1>9, <2>3, <3>1
    <3> QED
      BY <2>3, <3>2 DEF A12!AuthFields
  <2>4. CASE field \notin A12!AuthFields \cup {"Port", "Lock"}
    <3>1. plain = A12!SetStatus(r.x, ref, A12!UpdateStatus(r.err))
      BY <2>4, SMT
    <3> HIDE DEF plain
    <3>2. Written(y, plain, {ref}, K)
      BY <1>10, <2>4, <3>1
    <3> QED
      BY <2>4, <3>2
  <2> QED
    BY <2>1, <2>2, <2>3, <2>4
<1> HIDE DEF rest
<1>15. Written(x, z, {ref}, K)
  BY <1>4, <1>5, <1>8, <1>13, <1>14
<1> QED
  BY <1>15 DEF z

-----------------------------------------------------------------------------
(* Accounts: buffers of new nodes and their leaves. *)

Root(e) == IF "ref" \in DOMAIN e THEN e.ref ELSE NodeRef(e.name)
OfNode(e) == {Root(e)} \cup RefsOf(e.leaves)
IsNode(e) == Distinct(e.leaves) /\ Root(e) \notin RefsOf(e.leaves)
IsNodes(b) ==
  /\ IsSeq(b)
  /\ \A i \in DOMAIN b : IsNode(b[i])
  /\ \A i, j \in DOMAIN b : i # j => OfNode(b[i]) \cap OfNode(b[j]) = {}
OfNodes(b) == UNION {OfNode(b[i]) : i \in DOMAIN b}

LEMMA NodesEmpty == IsNodes(<< >>) /\ OfNodes(<< >>) = {} /\ Len(<< >>) = 0
<1>1. << >> \in Seq({}) /\ DOMAIN << >> = {}
  OBVIOUS
<1> QED
  BY <1>1 DEF IsNodes, OfNodes, IsSeq

LEMMA NodeAppended ==
  ASSUME NEW b, IsNodes(b), NEW e, IsNode(e), OfNode(e) \cap OfNodes(b) = {}
  PROVE  IsNodes(Append(b, e)) /\ OfNodes(Append(b, e)) = OfNodes(b) \cup OfNode(e)
<1> DEFINE t == Append(b, e)
           last == Len(b) + 1
<1>1. /\ IsSeq(t) /\ t[last] = e /\ DOMAIN t = DOMAIN b \cup {last}
      /\ \A i \in DOMAIN b : t[i] = b[i]
  BY SeqAppend DEF IsNodes
<1>2. last \notin DOMAIN b
  BY SeqDomain DEF IsNodes
<1> HIDE DEF t, last
<1>3. \A i \in DOMAIN t : IsNode(t[i])
  BY <1>1 DEF IsNodes
<1>4. \A i \in DOMAIN b : OfNode(b[i]) \cap OfNode(e) = {}
  BY DEF OfNodes
<1>5. ASSUME NEW i \in DOMAIN t, NEW j \in DOMAIN t, i # j
      PROVE  OfNode(t[i]) \cap OfNode(t[j]) = {}
  <2>1. CASE i \in DOMAIN b /\ j \in DOMAIN b
    BY <1>1, <1>5, <2>1 DEF IsNodes
  <2>2. CASE i = last \/ j = last
    BY <1>1, <1>2, <1>4, <1>5, <2>2
  <2> QED
    BY <1>1, <2>1, <2>2
<1>6. OfNodes(t) = OfNodes(b) \cup OfNode(e)
  BY <1>1 DEF OfNodes
<1> QED
  BY <1>1, <1>3, <1>5, <1>6 DEF IsNodes, t

\* A node with one leaf more.
LEMMA NodeReplaced ==
  ASSUME NEW b, IsNodes(b), NEW i \in DOMAIN b, NEW e, IsNode(e), NEW r,
         OfNode(e) = OfNode(b[i]) \cup {r}, r \notin OfNodes(b)
  PROVE  LET t == [b EXCEPT ![i] = e]
         IN  IsNodes(t) /\ OfNodes(t) = OfNodes(b) \cup {r} /\ DOMAIN t = DOMAIN b
<1> DEFINE t == [b EXCEPT ![i] = e]
<1>1. /\ IsSeq(t) /\ DOMAIN t = DOMAIN b /\ t[i] = e
      /\ \A j \in DOMAIN b \ {i} : t[j] = b[j]
  BY SeqExcept DEF IsNodes
<1> HIDE DEF t
<1>2. \A j \in DOMAIN t : IsNode(t[j])
  BY <1>1 DEF IsNodes
<1>3. \A j \in DOMAIN b : OfNode(b[j]) \subseteq OfNodes(b)
  BY DEF OfNodes
<1>4. ASSUME NEW j \in DOMAIN t, NEW k \in DOMAIN t, j # k
      PROVE  OfNode(t[j]) \cap OfNode(t[k]) = {}
  <2>1. CASE j # i /\ k # i
    BY <1>1, <1>4, <2>1 DEF IsNodes
  <2>2. CASE j = i
    <3>1. OfNode(b[i]) \cap OfNode(b[k]) = {} /\ t[k] = b[k] /\ t[j] = e
      BY <1>1, <1>4, <2>2 DEF IsNodes
    <3> QED
      BY <1>1, <1>3, <3>1
  <2>3. CASE k = i
    <3>1. OfNode(b[i]) \cap OfNode(b[j]) = {} /\ t[j] = b[j] /\ t[k] = e
      BY <1>1, <1>4, <2>3 DEF IsNodes
    <3> QED
      BY <1>1, <1>3, <3>1
  <2> QED
    BY <2>1, <2>2, <2>3
<1>5. OfNodes(t) = OfNodes(b) \cup {r}
  <2>1. OfNodes(t) = UNION {OfNode(t[j]) : j \in DOMAIN b}
    BY <1>1 DEF OfNodes
  <2>2. \A j \in DOMAIN b : OfNode(t[j]) = IF j = i THEN OfNode(b[i]) \cup {r} ELSE OfNode(b[j])
    BY <1>1
  <2> QED
    BY <2>1, <2>2 DEF OfNodes
<1> QED
  BY <1>1, <1>2, <1>4, <1>5 DEF IsNodes, t

\* A node less.
Shorter(b, t, i) ==
  /\ IsSeq(t) /\ Len(t) = Len(b) - 1
  /\ \A j \in DOMAIN t : t[j] = b[IF j < i THEN j ELSE j + 1]

LEMMA NodeRemoved ==
  ASSUME NEW b, IsNodes(b), NEW i \in DOMAIN b, NEW t, Shorter(b, t, i)
  PROVE  /\ IsNodes(t)
         /\ OfNodes(t) = OfNodes(b) \ OfNode(b[i])
         /\ OfNode(b[i]) \subseteq OfNodes(b)
<1> DEFINE at(j) == IF j < i THEN j ELSE j + 1
<1>1. /\ DOMAIN b = 1 .. Len(b) /\ Len(b) \in Nat
      /\ DOMAIN t = 1 .. Len(b) - 1
      /\ \A j \in DOMAIN t : t[j] = b[at(j)]
  BY SeqDomain DEF IsNodes, Shorter
<1>2. /\ \A j \in DOMAIN t : at(j) \in DOMAIN b \ {i}
      /\ \A j, k \in DOMAIN t : j # k => at(j) # at(k)
      /\ \A k \in DOMAIN b \ {i} : \E j \in DOMAIN t : at(j) = k
  <2>1. i \in Nat /\ i >= 1 /\ i <= Len(b)
    BY <1>1
  <2>2. ASSUME NEW j \in DOMAIN t
        PROVE  at(j) \in DOMAIN b \ {i}
    BY <1>1, <2>1
  <2>3. ASSUME NEW j \in DOMAIN t, NEW k \in DOMAIN t, j # k
        PROVE  at(j) # at(k)
    BY <1>1, <2>1, <2>3
  <2>4. ASSUME NEW k \in DOMAIN b \ {i}
        PROVE  \E j \in DOMAIN t : at(j) = k
    <3>1. CASE k < i
      <4>1. k \in DOMAIN t /\ at(k) = k
        BY <1>1, <2>1, <3>1
      <4> QED
        BY <4>1
    <3>2. CASE k > i
      <4>1. k - 1 \in DOMAIN t /\ at(k - 1) = k
        BY <1>1, <2>1, <3>2
      <4> QED
        BY <4>1
    <3> QED
      BY <1>1, <2>1, <3>1, <3>2
  <2> HIDE DEF at
  <2> QED
    BY <2>2, <2>3, <2>4
<1> HIDE DEF at
<1>3. \A j \in DOMAIN t : IsNode(t[j])
  BY <1>1, <1>2 DEF IsNodes
<1>4. \A j, k \in DOMAIN t : j # k => OfNode(t[j]) \cap OfNode(t[k]) = {}
  BY <1>1, <1>2 DEF IsNodes
<1>5. OfNodes(t) = OfNodes(b) \ OfNode(b[i])
  <2>1. ASSUME NEW r, r \in OfNodes(t)
        PROVE  r \in OfNodes(b) /\ r \notin OfNode(b[i])
    <3>1. PICK j \in DOMAIN t : r \in OfNode(t[j])
      BY <2>1 DEF OfNodes
    <3>2. r \in OfNode(b[at(j)]) /\ at(j) \in DOMAIN b /\ at(j) # i
      BY <1>1, <1>2, <3>1
    <3> QED
      BY <3>2 DEF OfNodes, IsNodes
  <2>2. ASSUME NEW r, r \in OfNodes(b), r \notin OfNode(b[i])
        PROVE  r \in OfNodes(t)
    <3>1. PICK k \in DOMAIN b : r \in OfNode(b[k])
      BY <2>2 DEF OfNodes
    <3>2. k \in DOMAIN b \ {i}
      BY <2>2, <3>1
    <3>3. PICK j \in DOMAIN t : at(j) = k
      BY <1>2, <3>2
    <3> QED
      BY <1>1, <3>1, <3>3 DEF OfNodes
  <2> QED
    BY <2>1, <2>2
<1>6. OfNode(b[i]) \subseteq OfNodes(b)
  BY DEF OfNodes
<1> QED
  BY <1>1, <1>3, <1>4, <1>5, <1>6 DEF IsNodes, Shorter

LEMMA EntryCut ==
  ASSUME NEW b, IsSeq(b), NEW i \in DOMAIN b
  PROVE  Shorter(b, RemoveAt(b, i), i)
<1> DEFINE u == SubSeq(b, 1, i - 1)
           v == SubSeq(b, i + 1, Len(b))
           n == Len(b)
<1>1. PICK S : b \in Seq(S)
  BY DEF IsSeq
<1>2. n \in Nat /\ i \in 1 .. n
  BY <1>1
<1>3. u \in Seq(S) /\ Len(u) = i - 1
  BY <1>1, <1>2
<1>4. v \in Seq(S) /\ Len(v) = n - i
  BY <1>1, <1>2
<1>5. \A j \in 1 .. i - 1 : u[j] = b[j]
  BY <1>1, <1>2
<1>6. \A j \in 1 .. n - i : v[j] = b[j + i]
  BY <1>1, <1>2
<1>7. RemoveAt(b, i) = u \o v
  BY DEF RemoveAt
<1> HIDE DEF u, v, n
<1> DEFINE w == u \o v
<1>8. w \in Seq(S) /\ Len(w) = n - 1
  BY <1>2, <1>3, <1>4
<1>9. \A j \in 1 .. i - 1 : w[j] = u[j]
  BY <1>2, <1>3, <1>4
<1>10. \A j \in i .. n - 1 : w[j] = v[j - (i - 1)]
  BY <1>2, <1>3, <1>4
<1> HIDE DEF w
<1>11. DOMAIN w = 1 .. n - 1
  BY <1>8
<1>12. ASSUME NEW j \in DOMAIN w
       PROVE  w[j] = b[IF j < i THEN j ELSE j + 1]
  <2>1. CASE j < i
    BY <1>2, <1>5, <1>9, <1>11, <2>1
  <2>2. CASE j >= i
    <3>1. j \in i .. n - 1 /\ j - (i - 1) \in 1 .. n - i /\ (j - (i - 1)) + i = j + 1 /\ ~(j < i)
      BY <1>2, <1>11, <2>2
    <3>2. w[j] = v[j - (i - 1)]
      BY <1>10, <3>1
    <3>3. v[j - (i - 1)] = b[(j - (i - 1)) + i]
      BY <1>6, <3>1
    <3> QED
      BY <3>1, <3>2, <3>3
  <2> QED
    BY <1>2, <1>11, <2>1, <2>2
<1> QED
  BY <1>7, <1>8, <1>12 DEF Shorter, IsSeq, w, n

LEMMA FirstCut ==
  ASSUME NEW b, IsSeq(b), b # << >>
  PROVE  1 \in DOMAIN b /\ Shorter(b, Tail(b), 1)
<1>1. PICK S : b \in Seq(S)
  BY DEF IsSeq
<1>2. Tail(b) \in Seq(S) /\ Len(Tail(b)) = Len(b) - 1 /\ Len(b) \in Nat /\ Len(b) > 0
  BY <1>1
<1>3. \A j \in 1 .. Len(b) - 1 : Tail(b)[j] = b[j + 1]
  BY <1>1, <1>2
<1>4. DOMAIN Tail(b) = 1 .. Len(b) - 1 /\ DOMAIN b = 1 .. Len(b)
  BY <1>1, <1>2
<1>5. \A j \in DOMAIN Tail(b) : ~(j < 1)
  BY <1>4
<1>6. \A j \in DOMAIN Tail(b) : Tail(b)[j] = b[IF j < 1 THEN j ELSE j + 1]
  BY <1>3, <1>4, <1>5
<1> QED
  BY <1>2, <1>4, <1>6 DEF Shorter, IsSeq

-----------------------------------------------------------------------------
(* Accounts of DM servers: what the adapter accounts for. *)

\* The books with the buffer, and all commands the adapter answered or has.
Ledger(x) ==
  /\ Books(x)
  /\ IsNodes(x.mem.buffer)
  /\ OfNodes(x.mem.buffer) \cap Settled(x) = {}
Accounted(x) == Settled(x) \cup OfNodes(x.mem.buffer)

\* A handler of the commands R: those of K may be forgotten.
Moves(x, y, R, K) ==
  /\ Ledger(y) /\ DOMAIN y.mem = DOMAIN x.mem
  /\ (Accounted(x) \cup R) \ K \subseteq Accounted(y)
  /\ Accounted(y) \subseteq Accounted(x) \cup R

LEMMA SettlesMoves ==
  ASSUME NEW x, Ledger(x), NEW y, NEW R, NEW K, Settles(x, y, R, K), R \cap OfNodes(x.mem.buffer) = {}
  PROVE  Moves(x, y, R, K)
<1>1. y.mem.buffer = x.mem.buffer /\ DOMAIN y.mem = DOMAIN x.mem
  BY DEF Settles, SameRest
<1>2. Ledger(y)
  BY <1>1 DEF Ledger, Settles
<1> QED
  BY <1>1, <1>2 DEF Moves, Accounted, Settles

LEMMA QuietLedger ==
  ASSUME NEW x, Ledger(x), NEW y, Quiet(x, y)
  PROVE  Ledger(y) /\ Accounted(y) = Accounted(x) /\ Settled(y) = Settled(x)
<1>1. Books(y) /\ Settled(y) = Settled(x) /\ y.mem.buffer = x.mem.buffer
  BY QuietBooks DEF Ledger, Quiet, SameRest
<1> QED
  BY <1>1 DEF Ledger, Accounted

LEMMA MovesSelf ==
  ASSUME NEW x, Ledger(x), NEW K
  PROVE  Moves(x, x, {}, K)
BY DEF Moves

LEMMA MovesQuiet ==
  ASSUME NEW x, NEW y, NEW z, NEW R, NEW K
  PROVE  /\ Ledger(x) /\ Quiet(x, y) /\ Moves(y, z, R, K) => Moves(x, z, R, K)
         /\ Moves(x, y, R, K) /\ Quiet(y, z) => Moves(x, z, R, K)
<1>1. ASSUME Ledger(x), Quiet(x, y), Moves(y, z, R, K)
      PROVE  Moves(x, z, R, K)
  <2>1. Accounted(y) = Accounted(x) /\ DOMAIN y.mem = DOMAIN x.mem
    BY <1>1, QuietLedger DEF Quiet, SameRest
  <2> QED
    BY <1>1, <2>1 DEF Moves
<1>2. ASSUME Moves(x, y, R, K), Quiet(y, z)
      PROVE  Moves(x, z, R, K)
  <2>1. Ledger(z) /\ Accounted(z) = Accounted(y) /\ DOMAIN z.mem = DOMAIN y.mem
    BY <1>2, QuietLedger DEF Quiet, SameRest, Moves
  <2> QED
    BY <1>2, <2>1 DEF Moves
<1> QED
  BY <1>1, <1>2

LEMMA MovesTransitive ==
  ASSUME NEW x, NEW y, NEW z, NEW K, NEW R, Moves(x, y, R, K), Moves(y, z, {}, K)
  PROVE  Moves(x, z, R, K)
BY DEF Moves

\* The buffer changes and nothing else.
WithBuffer(x, b) == [x EXCEPT !.mem.buffer = b]
LEMMA BufferChanged ==
  ASSUME NEW x, Books(x), NEW b
  PROVE  LET y == WithBuffer(x, b)
         IN  /\ Books(y) /\ Settled(y) = Settled(x) /\ y.mem.buffer = b
             /\ DOMAIN y.mem = DOMAIN x.mem /\ y.db = x.db /\ y.map = x.map
             /\ y.mem.complete = x.mem.complete /\ y.mem.newProfile = x.mem.newProfile
             /\ y.mem.ports = x.mem.ports /\ y.said = x.said
<1> DEFINE m == [x.mem EXCEPT !.buffer = b]
           y == [x EXCEPT !.mem = m]
<1>1. [x EXCEPT !.mem.buffer = b] = y
  BY DEF Books, HasState
<1>2. /\ DOMAIN m = DOMAIN x.mem /\ m.buffer = b /\ m.ports = x.mem.ports
      /\ m.complete = x.mem.complete /\ m.newProfile = x.mem.newProfile
      /\ m.locks = x.mem.locks
  BY DEF Books, AccFields
<1> HIDE DEF m
<1>3. HasState(y) /\ y.mem = m /\ y.db = x.db /\ y.map = x.map /\ y.said = x.said
  BY OtherMem DEF Books
<1> HIDE DEF y
<1>4. Books(y) /\ Settled(y) = Settled(x)
  BY <1>2, <1>3 DEF Books, Settled, Answered, LocksKnown
<1> QED
  BY <1>1, <1>2, <1>3, <1>4 DEF y, WithBuffer

\* A new node waits.
LEMMA NodeWaits ==
  ASSUME NEW x, Ledger(x), NEW e, IsNode(e), OfNode(e) \cap Accounted(x) = {}, NEW K
  PROVE  LET y == [x EXCEPT !.mem.buffer = Append(@, e)]
         IN  Moves(x, y, OfNode(e), K) /\ y.db = x.db
<1> DEFINE b == Append(x.mem.buffer, e)
           y == WithBuffer(x, b)
<1>1. [x EXCEPT !.mem.buffer = Append(@, e)] = y
  BY DEF WithBuffer, Ledger, Books, HasState, AccFields
<1>2. IsNodes(b) /\ OfNodes(b) = OfNodes(x.mem.buffer) \cup OfNode(e)
  BY NodeAppended DEF Ledger, Accounted
<1> HIDE DEF b
<1>3. /\ Books(y) /\ Settled(y) = Settled(x) /\ y.mem.buffer = b
      /\ DOMAIN y.mem = DOMAIN x.mem /\ y.db = x.db
  BY BufferChanged DEF Ledger
<1> HIDE DEF y
<1> QED
  BY <1>1, <1>2, <1>3 DEF Moves, Ledger, Accounted, y

-----------------------------------------------------------------------------
(* Accounts of DM 1.2: the buffer. *)

LEMMA Buffered12 ==
  ASSUME NEW x, IsSeq(x.mem.buffer), NEW name
  PROVE  A12!BufferIndex(x, name) > 0 => A12!BufferIndex(x, name) \in DOMAIN x.mem.buffer
<1> DEFINE b == x.mem.buffer
           I == {i \in 1 .. Len(b) : b[i].name = name}
<1>1. DOMAIN b = 1 .. Len(b) /\ Len(b) \in Nat
  BY SeqDomain
<1>2. A12!BufferIndex(x, name) = IF I # {} THEN A12!Min(I) ELSE 0
  BY DEF A12!BufferIndex, A12!SelectInSeq
<1>3. I \subseteq DOMAIN b /\ I \in SUBSET Nat
  BY <1>1
<1> HIDE DEF b, I
<1>4. I # {} => A12!Min(I) \in I
  BY <1>3, LeastNumber DEF A12!Min
<1> QED
  BY <1>2, <1>3, <1>4 DEF b

\* UpdateLeafObjectL of a node that is not buffered.
LEMMA StoredWritten ==
  ASSUME NEW x, Books12(x), NEW name, NEW luid, NEW leaf, NEW obj, NEW ref, ref \notin Settled(x),
         NEW K, leaf[2] = "ProfileLock" => ref \in K
  PROVE  Written(x, A12!UpdateStored(x, name, luid, leaf, obj, ref), {ref}, K)
<1> DEFINE y == IF luid = A12!NoLuid /\ A12!Predefined(name) THEN A12!ConstructTree(x) ELSE x
           p == IF luid = A12!NoLuid /\ A12!Predefined(name) THEN A12!TreeLuid(x, name) ELSE luid
           z == A12!UpdateStored(x, name, luid, leaf, obj, ref)
<1>1. Quiet(x, y) /\ y.db = x.db
  <2>1. HasState(x)
    BY DEF Books12, Books
  <2>2. y = x \/ \E n : y = [x EXCEPT !.map = n]
    BY DEF A12!ConstructTree
  <2>3. ASSUME NEW n
        PROVE  Quiet(x, [x EXCEPT !.map = n]) /\ [x EXCEPT !.map = n].db = x.db
    BY <2>1, QuietMap, OtherMap
  <2>4. Quiet(x, x)
    BY <2>1, QuietSelf
  <2> HIDE DEF y
  <2> QED
    BY <2>2, <2>3, <2>4
<1>2. z = A12!SetStatus(y, ref, "ENotFound") \/ z = A12!UpdateKnown(y, p, leaf, obj, ref)
  BY Zenon DEF A12!UpdateStored
<1> HIDE DEF y, p, z
<1>3. Books(y) /\ Books12(y) /\ ref \notin Settled(y) /\ Books(x) /\ "newProfile" \in DOMAIN x.mem
  BY <1>1, QuietBooks DEF Books12, Quiet, SameRest
<1>4. Written(y, A12!SetStatus(y, ref, "ENotFound"), {ref}, K)
  BY <1>3, WrittenAnswer
<1>5. Written(y, A12!UpdateKnown(y, p, leaf, obj, ref), {ref}, K)
  BY <1>3, KnownWritten
<1>6. Written(y, z, {ref}, K)
  BY <1>2, <1>4, <1>5
<1>7. Written(x, z, {ref}, K)
  BY <1>1, <1>3, <1>6, WrittenAfter
<1> QED
  BY <1>7 DEF z

\* The leaves of a buffered node are written one after another.
LocksKept(s, K) == \A j \in DOMAIN s : s[j].leaf[2] = "ProfileLock" => s[j].ref \in K
Replayed(x, z, R, K) ==
  /\ Settles(x, z, R, K)
  /\ DOMAIN z.db = DOMAIN x.db /\ Keeps(x.db, z.db)

LEMMA ReplayedNext ==
  ASSUME NEW x, NEW y, NEW z, NEW Q, NEW R, NEW K, Replayed(x, y, Q, K), Written(y, z, R, K),
         y.mem.newProfile
  PROVE  Replayed(x, z, Q \cup R, K)
<1>1. Settles(x, z, Q \cup R, K)
  BY SettlesTransitive DEF Replayed, Written
<1> QED
  BY <1>1, KeepsTransitive DEF Replayed, Written

LEMMA Replayed12 ==
  ASSUME NEW x, Books12(x), x.mem.newProfile, NEW luid, NEW e, Distinct(e.leaves),
         RefsOf(e.leaves) \cap Settled(x) = {}, NEW K, LocksKept(e.leaves, K)
  PROVE  Replayed(x, A12!Replay(x, luid, e), RefsOf(e.leaves), K)
<1> DEFINE N == Len(e.leaves)
           F(g, n) == IF n = 0 THEN x
                      ELSE A12!UpdateStored(g[n - 1], e.name, luid, e.leaves[n].leaf,
                                            e.leaves[n].obj, e.leaves[n].ref)
           Loops(m, g) == g = [n \in 0 .. m |-> F(g, n)]
           replayed == CHOOSE g : Loops(N, g)
           R(n) == {e.leaves[j].ref : j \in 1 .. n}
           S == {m \in Nat : \E g : Loops(m, g)}
           Done(n) == Replayed(x, replayed[n], R(n), K)
           T == {n \in 0 .. N : Done(n)}
<1>0. N \in Nat /\ DOMAIN e.leaves = 1 .. N
  BY SeqDomain DEF Distinct
<1> HIDE DEF N
<1>1. 0 \in S
  <2>1. Loops(0, [n \in 0 .. 0 |-> x])
    OBVIOUS
  <2> QED
    BY <2>1
<1>2. ASSUME NEW m \in Nat, m \in S
      PROVE  m + 1 \in S
  <2>1. PICK g : Loops(m, g)
    BY <1>2
  <2> DEFINE h == [n \in 0 .. m + 1 |-> IF n <= m THEN g[n] ELSE F(g, n)]
  <2>2. ASSUME NEW n \in 0 .. m + 1
        PROVE  h[n] = F(h, n)
    <3>1. n # 0 => n - 1 \in 0 .. m /\ h[n - 1] = g[n - 1]
      OBVIOUS
    <3>2. F(h, n) = F(g, n)
      <4> HIDE DEF h
      <4> QED
        BY <3>1
    <3>3. n <= m => g[n] = F(g, n)
      <4> HIDE DEF F
      <4> QED
        BY <2>1
    <3> QED
      BY <3>2, <3>3
  <2>3. Loops(m + 1, h)
    BY <2>2
  <2> HIDE DEF h, Loops
  <2> QED
    BY <2>3
<1>3. \E g : Loops(N, g)
  <2>1. 0 .. N \subseteq S
    <3> HIDE DEF S
    <3> QED
      BY <1>0, <1>1, <1>2, InductionUpTo DEF S
  <2> HIDE DEF Loops
  <2> QED
    BY <1>0, <2>1
<1>4. Loops(N, replayed)
  BY <1>3
<1>5. \A n \in 0 .. N : replayed[n] = F(replayed, n)
  <2> HIDE DEF F
  <2> QED
    BY <1>4
<1>6. A12!Replay(x, luid, e) = replayed[N]
  BY DEF A12!Replay, replayed, N
<1> HIDE DEF replayed
<1>7. 0 \in T
  <2>1. replayed[0] = x /\ R(0) = {}
    BY <1>0, <1>5
  <2>2. Settles(x, x, {}, K)
    BY DEF Settles, SameRest, Books12
  <2>3. Replayed(x, x, {}, K)
    BY <2>2, KeepsSelf DEF Replayed
  <2>4. Done(0)
    BY <2>1, <2>3
  <2> HIDE DEF Done
  <2> QED
    BY <1>0, <2>4
<1>8. ASSUME NEW n \in 0 .. N - 1, n \in T
      PROVE  n + 1 \in T
  <2> DEFINE c == e.leaves[n + 1]
             y == replayed[n]
  <2>1. n + 1 \in 0 .. N /\ n + 1 \in DOMAIN e.leaves /\ (n + 1) - 1 = n /\ n + 1 # 0
    BY <1>0
  <2>2. replayed[n + 1] = A12!UpdateStored(y, e.name, luid, c.leaf, c.obj, c.ref)
    BY <1>5, <2>1
  <2>3. R(n + 1) = R(n) \cup {c.ref}
    BY <1>0
  <2>4. c.ref \notin R(n)
    <3>1. ASSUME NEW j \in 1 .. n, e.leaves[j].ref = c.ref
          PROVE  FALSE
      <4>1. j \in DOMAIN e.leaves /\ j # n + 1
        BY <1>0
      <4> QED
        BY <2>1, <3>1, <4>1 DEF Distinct
    <3> QED
      BY <3>1
  <2>5. Replayed(x, y, R(n), K)
    BY <1>8
  <2>6. c.ref \in RefsOf(e.leaves) /\ (c.leaf[2] = "ProfileLock" => c.ref \in K)
    BY <2>1 DEF RefsOf, LocksKept
  <2> HIDE DEF R, c, y, T, F, S, Loops
  <2>7. Books12(y) /\ y.mem.newProfile /\ c.ref \notin Settled(y)
    BY <2>4, <2>5, <2>6 DEF Replayed, Settles, SameRest, Books12
  <2>8. Written(y, replayed[n + 1], {c.ref}, K)
    BY <2>2, <2>6, <2>7, StoredWritten
  <2>9. Replayed(x, replayed[n + 1], R(n) \cup {c.ref}, K)
    BY <2>5, <2>7, <2>8, ReplayedNext
  <2> QED
    BY <2>1, <2>3, <2>9 DEF T, Done
<1>9. N \in T
  <2>1. T \in SUBSET Nat
    OBVIOUS
  <2> HIDE DEF T
  <2>2. 0 .. N \subseteq T
    BY <1>0, <1>7, <1>8, <2>1, InductionUpTo
  <2> QED
    BY <1>0, <2>2
<1>10. R(N) = RefsOf(e.leaves)
  BY <1>0 DEF RefsOf
<1> QED
  BY <1>6, <1>9, <1>10

\* ExecuteBufferL.
LEMMA Created12 ==
  ASSUME NEW x, HasState(x), NEW name, NEW p
  PROVE  LET y == A12!SetMapping(A12!CreateNewProfile(x, p), name, p)
         IN  /\ Quiet(x, y)
             /\ DOMAIN x.db \subseteq DOMAIN y.db /\ p \in DOMAIN y.db
             /\ p \notin DOMAIN x.db => Keeps(x.db, y.db)
<1> DEFINE d == A12!With(x.db, p, A12!NewProfile)
           w == [x EXCEPT !.db = d]
           n == A12!With(w.map, name, p)
           y == [w EXCEPT !.map = n]
<1>1. A12!SetMapping(A12!CreateNewProfile(x, p), name, p) = y
  BY DEF A12!SetMapping, A12!CreateNewProfile, HasState
<1>2. /\ DOMAIN d = DOMAIN x.db \cup {p}
      /\ \A q \in DOMAIN x.db : q # p => d[q] = x.db[q]
  BY DEF A12!With
<1> HIDE DEF d
<1>3. Quiet(x, w) /\ w.db = d
  BY QuietDb, OtherDb
<1> HIDE DEF n
<1>4. Quiet(w, y) /\ y.db = d
  BY <1>3, QuietMap, OtherMap DEF Quiet
<1> HIDE DEF y, w
<1>5. Quiet(x, y)
  BY <1>3, <1>4, QuietTransitive
<1>6. p \notin DOMAIN x.db => Keeps(x.db, d)
  BY <1>2 DEF Keeps
<1> QED
  BY <1>1, <1>2, <1>4, <1>5, <1>6 DEF y, w, d, n

LEMMA Opened12 ==
  ASSUME NEW x, Books12(x), NEW name, NEW p, NEW ref, ref \notin Settled(x)
  PROVE  LET y == IF x.mem.complete
                      THEN A12!SetStatus(x, ref, "EError")
                      ELSE A12!SetStatus(A12!SetMapping(A12!CreateNewProfile(x, p), name, p), ref, "EOk")
         IN  /\ Settles(x, y, {ref}, {})
             /\ DOMAIN x.db \subseteq DOMAIN y.db /\ (~x.mem.complete => p \in DOMAIN y.db)
             /\ x.mem.complete \/ p \notin DOMAIN x.db => Keeps(x.db, y.db)
<1> DEFINE w == A12!SetMapping(A12!CreateNewProfile(x, p), name, p)
           refused == A12!SetStatus(x, ref, "EError")
           made == A12!SetStatus(w, ref, "EOk")
<1>1. Books(x)
  BY DEF Books12
<1>2. Settles(x, refused, {ref}, {}) /\ refused.db = x.db
  BY <1>1, AnswerGiven DEF A12!SetStatus
<1>3. /\ Quiet(x, w)
      /\ DOMAIN x.db \subseteq DOMAIN w.db /\ p \in DOMAIN w.db
      /\ p \notin DOMAIN x.db => Keeps(x.db, w.db)
  BY <1>1, Created12 DEF Books
<1> HIDE DEF w
<1>4. Books(w) /\ ref \notin Settled(w)
  BY <1>1, <1>3, QuietBooks
<1>5. Settles(w, made, {ref}, {}) /\ made.db = w.db
  BY <1>4, AnswerGiven DEF A12!SetStatus
<1> HIDE DEF refused, made
<1>6. Settles(x, made, {ref}, {})
  BY <1>1, <1>3, <1>5, QuietSettles
<1>7. Keeps(x.db, x.db)
  BY KeepsSelf
<1> QED
  BY <1>2, <1>3, <1>5, <1>6, <1>7 DEF w, refused, made

LEMMA Executed12 ==
  ASSUME NEW x, Ledger(x), Books12(x), x.mem.newProfile, NEW i \in DOMAIN x.mem.buffer, NEW p,
         NEW K, LocksKept(x.mem.buffer[i].leaves, K), "ref" \notin DOMAIN x.mem.buffer[i]
  PROVE  LET z == A12!ExecuteBuffer(x, i, p)
         IN  /\ Moves(x, z, {}, K)
             /\ Shorter(x.mem.buffer, z.mem.buffer, i)
             /\ z.mem.newProfile = x.mem.newProfile
             /\ z.mem.complete = x.mem.complete
             /\ DOMAIN x.db \subseteq DOMAIN z.db /\ (~x.mem.complete => p \in DOMAIN z.db)
             /\ x.mem.complete \/ p \notin DOMAIN x.db => Keeps(x.db, z.db)
<1> DEFINE b == x.mem.buffer
           e == b[i]
           ref == A12!NodeRef(e.name)
           y == IF x.mem.complete
                    THEN A12!SetStatus(x, ref, "EError")
                    ELSE A12!SetStatus(A12!SetMapping(A12!CreateNewProfile(x, p), e.name, p), ref, "EOk")
           luid == IF x.mem.complete THEN A12!NoLuid ELSE p
           r == A12!Replay(y, luid, e)
           t == A12!RemoveAt(b, i)
           z == A12!ExecuteBuffer(x, i, p)
<1>1. /\ Books(x) /\ IsNodes(b) /\ OfNodes(b) \cap Settled(x) = {} /\ IsSeq(b)
      /\ "newProfile" \in DOMAIN x.mem
  BY DEF Ledger, IsNodes, Books12
<1>2. z = [r EXCEPT !.mem.buffer = A12!RemoveAt(@, i)]
  BY DEF A12!ExecuteBuffer
<1>3. OfNode(e) = {ref} \cup RefsOf(e.leaves) /\ IsNode(e) /\ OfNode(e) \subseteq OfNodes(b)
      /\ ref \notin RefsOf(e.leaves)
  BY <1>1 DEF OfNode, Root, IsNodes, IsNode, OfNodes, A12!NodeRef, NodeRef
<1>4. Shorter(b, t, i)
  BY <1>1, EntryCut DEF A12!RemoveAt, RemoveAt
<1>5. /\ IsNodes(t) /\ OfNodes(t) = OfNodes(b) \ OfNode(e)
  BY <1>1, <1>4, NodeRemoved
<1> HIDE DEF ref, luid, z
<1>6. /\ Settles(x, y, {ref}, {})
      /\ DOMAIN x.db \subseteq DOMAIN y.db /\ (~x.mem.complete => p \in DOMAIN y.db)
      /\ x.mem.complete \/ p \notin DOMAIN x.db => Keeps(x.db, y.db)
  BY <1>1, <1>3, Opened12
<1> HIDE DEF y
<1>7. Books12(y) /\ y.mem.newProfile /\ y.mem.newProfile = x.mem.newProfile
  BY <1>1, <1>6 DEF Settles, SameRest, Books12
<1>8. RefsOf(e.leaves) \cap Settled(y) = {}
  BY <1>1, <1>3, <1>6 DEF Settles
<1>9. Distinct(e.leaves) /\ LocksKept(e.leaves, K)
  BY <1>3 DEF IsNode
<1> HIDE DEF e
<1>10. Replayed(y, r, RefsOf(e.leaves), K)
  BY <1>7, <1>8, <1>9, Replayed12
<1> HIDE DEF r
<1>11. Settles(x, r, OfNode(e), K)
  <2>1. Settles(x, y, {ref}, K)
    BY <1>6, SettlesMore
  <2>2. Settles(x, r, {ref} \cup RefsOf(e.leaves), K)
    BY <1>10, <2>1, SettlesTransitive DEF Replayed
  <2> QED
    BY <1>3, <2>2
<1>12. /\ Books(r) /\ r.mem.buffer = b /\ DOMAIN r.mem = DOMAIN x.mem
       /\ r.mem.complete = x.mem.complete /\ r.mem.newProfile = x.mem.newProfile
  BY <1>1, <1>11 DEF Settles, SameRest
<1>13. z = WithBuffer(r, t)
  BY <1>2, <1>12 DEF WithBuffer, Books, HasState, AccFields
<1> HIDE DEF t, b
<1>14. /\ Books(z) /\ Settled(z) = Settled(r) /\ z.mem.buffer = t
       /\ DOMAIN z.mem = DOMAIN x.mem /\ z.db = r.db
       /\ z.mem.complete = x.mem.complete /\ z.mem.newProfile = x.mem.newProfile
  <2>0. Books(r)
    BY <1>12
  <2>1. Books(WithBuffer(r, t))
    BY <2>0, BufferChanged
  <2>2. Settled(WithBuffer(r, t)) = Settled(r)
    BY <2>0, BufferChanged
  <2>3. DOMAIN WithBuffer(r, t).mem = DOMAIN r.mem
    BY <2>0, BufferChanged
  <2>4. WithBuffer(r, t).mem.buffer = t
    BY <2>0, BufferChanged
  <2>5. WithBuffer(r, t).db = r.db
    BY <2>0, BufferChanged
  <2>6. WithBuffer(r, t).mem.complete = r.mem.complete
    BY <2>0, BufferChanged
  <2>7. WithBuffer(r, t).mem.newProfile = r.mem.newProfile
    BY <2>0, BufferChanged
  <2> QED
    BY <1>12, <1>13, <2>1, <2>2, <2>3, <2>4, <2>5, <2>6, <2>7
<1>15. Ledger(z)
  BY <1>1, <1>5, <1>11, <1>14 DEF Ledger, Settles
<1>16. Moves(x, z, {}, K)
  BY <1>1, <1>3, <1>5, <1>11, <1>14, <1>15 DEF Moves, Accounted, Settles, b
<1>17. DOMAIN r.db = DOMAIN y.db /\ Keeps(y.db, r.db)
  BY <1>10 DEF Replayed
<1>18. x.mem.complete \/ p \notin DOMAIN x.db => Keeps(x.db, z.db)
  BY <1>6, <1>14, <1>17, KeepsTransitive
<1> QED
  BY <1>4, <1>6, <1>14, <1>16, <1>17, <1>18 DEF z, b

\* CompleteOutstandingCmdsL, first part: nodes that are not complete.
Shaped(e) == {"name", "leaves"} \subseteq DOMAIN e /\ "ref" \notin DOMAIN e
Named(b, K) == \A i \in DOMAIN b : LocksKept(b[i].leaves, K) /\ Shaped(b[i])

LEMMA NamedShorter ==
  ASSUME NEW b, IsSeq(b), NEW i, i \in DOMAIN b, NEW t, Shorter(b, t, i), NEW K, Named(b, K)
  PROVE  Named(t, K)
<1>1. /\ DOMAIN b = 1 .. Len(b) /\ Len(b) \in Nat /\ DOMAIN t = 1 .. Len(b) - 1
      /\ \A j \in DOMAIN t : t[j] = b[IF j < i THEN j ELSE j + 1]
  BY SeqDomain DEF Shorter
<1>2. \A j \in DOMAIN t : (IF j < i THEN j ELSE j + 1) \in DOMAIN b
  BY <1>1
<1> QED
  BY <1>1, <1>2 DEF Named

WithComplete(x, c) == [x EXCEPT !.mem.complete = c]
LEMMA CompleteChanged ==
  ASSUME NEW x, Ledger(x), NEW c
  PROVE  LET y == WithComplete(x, c)
         IN  /\ Ledger(y) /\ Accounted(y) = Accounted(x) /\ DOMAIN y.mem = DOMAIN x.mem
             /\ y.mem.complete = c /\ y.mem.buffer = x.mem.buffer
             /\ y.mem.newProfile = x.mem.newProfile /\ y.db = x.db
<1> DEFINE m == [x.mem EXCEPT !.complete = c]
           y == [x EXCEPT !.mem = m]
<1>1. [x EXCEPT !.mem.complete = c] = y
  BY DEF Ledger, Books, HasState
<1>2. /\ DOMAIN m = DOMAIN x.mem /\ m.buffer = x.mem.buffer /\ m.ports = x.mem.ports
      /\ m.complete = c /\ m.newProfile = x.mem.newProfile
      /\ m.locks = x.mem.locks
  BY DEF Ledger, Books, AccFields
<1> HIDE DEF m
<1>3. HasState(y) /\ y.mem = m /\ y.db = x.db /\ y.map = x.map /\ y.said = x.said
  BY OtherMem DEF Ledger, Books
<1> HIDE DEF y
<1>4. Books(y) /\ Settled(y) = Settled(x)
  BY <1>2, <1>3 DEF Ledger, Books, Settled, Answered, LocksKnown
<1>5. Ledger(y) /\ Accounted(y) = Accounted(x)
  BY <1>2, <1>3, <1>4 DEF Ledger, Accounted
<1> QED
  BY <1>1, <1>2, <1>3, <1>5 DEF y, WithComplete

Completing(x) == WithComplete(x, TRUE)
LEMMA CompletingSame ==
  ASSUME NEW x, Ledger(x)
  PROVE  LET y == Completing(x)
         IN  /\ Ledger(y) /\ Accounted(y) = Accounted(x) /\ DOMAIN y.mem = DOMAIN x.mem
             /\ y.mem.complete = TRUE /\ y.mem.buffer = x.mem.buffer
             /\ y.mem.newProfile = x.mem.newProfile /\ y.db = x.db
BY CompleteChanged DEF Completing

LEMMA Halved ==
  ASSUME NEW k \in Nat
  PROVE  (k + 1) \div 2 \in Nat /\ 2 * ((k + 1) \div 2) <= k + 1
OBVIOUS

\* The state after some nodes were executed from an unchanged database of locks.
Executes(x, y, K) ==
  /\ Moves(x, y, {}, K) /\ Named(y.mem.buffer, K)
  /\ y.mem.newProfile = x.mem.newProfile
  /\ DOMAIN x.db \subseteq DOMAIN y.db /\ Keeps(x.db, y.db)

LEMMA ExecutedNext12 ==
  ASSUME NEW x, NEW y, NEW K, Executes(x, y, K), Books12(x), x.mem.newProfile,
         NEW i \in DOMAIN y.mem.buffer, NEW p
  PROVE  LET z == A12!ExecuteBuffer(Completing(y), i, p)
         IN  Executes(x, z, K) /\ Len(z.mem.buffer) = Len(y.mem.buffer) - 1
<1> DEFINE w == Completing(y)
           z == A12!ExecuteBuffer(w, i, p)
<1>1. Ledger(y) /\ IsSeq(y.mem.buffer) /\ DOMAIN y.mem = DOMAIN x.mem
  BY DEF Executes, Moves, Ledger, IsNodes
<1>2. /\ Ledger(w) /\ Accounted(w) = Accounted(y) /\ DOMAIN w.mem = DOMAIN y.mem
      /\ w.mem.complete = TRUE /\ w.mem.buffer = y.mem.buffer
      /\ w.mem.newProfile = y.mem.newProfile /\ w.db = y.db
  BY <1>1, CompletingSame
<1> HIDE DEF w
<1>3. Books12(w) /\ w.mem.newProfile
  BY <1>1, <1>2 DEF Books12, Ledger, Executes
<1>4. i \in DOMAIN w.mem.buffer /\ LocksKept(w.mem.buffer[i].leaves, K)
      /\ "ref" \notin DOMAIN w.mem.buffer[i]
  BY <1>2 DEF Executes, Named, Shaped
<1>5. /\ Moves(w, z, {}, K)
      /\ Shorter(w.mem.buffer, z.mem.buffer, i)
      /\ z.mem.newProfile = w.mem.newProfile
      /\ DOMAIN w.db \subseteq DOMAIN z.db
      /\ Keeps(w.db, z.db)
  BY <1>2, <1>3, <1>4, Executed12
<1> HIDE DEF z
<1>6. Moves(y, z, {}, K)
  BY <1>2, <1>5 DEF Moves
<1>7. Moves(x, z, {}, K)
  BY <1>6, MovesTransitive DEF Executes
<1>8. Named(z.mem.buffer, K) /\ Len(z.mem.buffer) = Len(y.mem.buffer) - 1
  BY <1>1, <1>2, <1>5, NamedShorter DEF Executes, Shorter
<1>9. Keeps(x.db, z.db) /\ DOMAIN x.db \subseteq DOMAIN z.db
  BY <1>2, <1>5, KeepsTransitive DEF Executes
<1>10. Executes(x, z, K)
  BY <1>2, <1>5, <1>7, <1>8, <1>9 DEF Executes
<1> QED
  BY <1>8, <1>10 DEF z, w

LEMMA Everything12 ==
  ASSUME NEW x, Ledger(x), Books12(x), x.mem.buffer # << >> => x.mem.newProfile,
         NEW K, Named(x.mem.buffer, K)
  PROVE  /\ Executes(x, A12!ExecuteEvery(x), K)
         /\ x.mem.buffer = << >> => A12!ExecuteEvery(x).mem.buffer = << >>
<1> DEFINE N == (Len(x.mem.buffer) + 1) \div 2
           F(g, n) == IF n = 0 THEN x
                      ELSE A12!ExecuteBuffer(Completing(g[n - 1]), n, A12!NoLuid)
           Loops(m, g) == g = [n \in 0 .. m |-> F(g, n)]
           executed == CHOOSE g : Loops(N, g)
           S == {m \in Nat : \E g : Loops(m, g)}
           Done(n) == /\ Executes(x, executed[n], K)
                      /\ Len(executed[n].mem.buffer) = Len(x.mem.buffer) - n
           T == {n \in 0 .. N : Done(n)}
<1>00. Len(x.mem.buffer) \in Nat /\ (Len(x.mem.buffer) = 0 => x.mem.buffer = << >>)
  <2>1. IsSeq(x.mem.buffer)
    BY DEF Ledger, IsNodes
  <2> QED
    BY <2>1 DEF IsSeq
<1>0. N \in Nat /\ 2 * N <= Len(x.mem.buffer) + 1
  BY <1>00, Halved
<1> HIDE DEF N
<1>1. 0 \in S
  <2>1. Loops(0, [n \in 0 .. 0 |-> x])
    OBVIOUS
  <2> QED
    BY <2>1
<1>2. ASSUME NEW m \in Nat, m \in S
      PROVE  m + 1 \in S
  <2>1. PICK g : Loops(m, g)
    BY <1>2
  <2> DEFINE h == [n \in 0 .. m + 1 |-> IF n <= m THEN g[n] ELSE F(g, n)]
  <2>2. ASSUME NEW n \in 0 .. m + 1
        PROVE  h[n] = F(h, n)
    <3>1. n # 0 => n - 1 \in 0 .. m /\ h[n - 1] = g[n - 1]
      OBVIOUS
    <3>2. F(h, n) = F(g, n)
      <4> HIDE DEF h
      <4> QED
        BY <3>1
    <3>3. n <= m => g[n] = F(g, n)
      <4> HIDE DEF F
      <4> QED
        BY <2>1
    <3> QED
      BY <3>2, <3>3
  <2>3. Loops(m + 1, h)
    BY <2>2
  <2> HIDE DEF h, Loops
  <2> QED
    BY <2>3
<1>3. \E g : Loops(N, g)
  <2>1. 0 .. N \subseteq S
    <3> HIDE DEF S
    <3> QED
      BY <1>0, <1>1, <1>2, InductionUpTo DEF S
  <2> HIDE DEF Loops
  <2> QED
    BY <1>0, <2>1
<1>4. Loops(N, executed)
  BY <1>3
<1>5. \A n \in 0 .. N : executed[n] = F(executed, n)
  <2> HIDE DEF F
  <2> QED
    BY <1>4
<1>6. A12!ExecuteEvery(x) = executed[N]
  BY DEF A12!ExecuteEvery, Completing, WithComplete, executed, N
<1> HIDE DEF executed
<1>7. 0 \in T
  <2>1. executed[0] = x
    BY <1>0, <1>5
  <2>2. Executes(x, x, K)
    BY KeepsSelf DEF Executes, Moves
  <2>3. Done(0)
    BY <1>00, <2>1, <2>2
  <2> HIDE DEF Done
  <2> QED
    BY <1>0, <2>3
<1>8. ASSUME NEW n \in 0 .. N - 1, n \in T
      PROVE  n + 1 \in T
  <2> DEFINE y == executed[n]
  <2>1. n + 1 \in 0 .. N /\ (n + 1) - 1 = n /\ n + 1 # 0
    BY <1>0
  <2>2. executed[n + 1] = A12!ExecuteBuffer(Completing(y), n + 1, A12!NoLuid)
    BY <1>5, <2>1
  <2>3. Executes(x, y, K) /\ Len(y.mem.buffer) = Len(x.mem.buffer) - n
    BY <1>8
  <2> HIDE DEF y, T, F, S, Loops
  <2>4. IsSeq(y.mem.buffer)
    BY <2>3 DEF Executes, Moves, Ledger, IsNodes
  <2>5. n + 1 \in DOMAIN y.mem.buffer /\ Len(x.mem.buffer) # 0
    <3>1. n + 1 >= 1 /\ n + 1 <= Len(x.mem.buffer) - n /\ n + 1 \in Nat /\ Len(x.mem.buffer) # 0
      BY <1>0, <1>00
    <3>2. DOMAIN y.mem.buffer = 1 .. Len(y.mem.buffer)
      BY <2>4, SeqDomain
    <3> QED
      BY <1>00, <2>3, <3>1, <3>2
  <2>6. x.mem.buffer # << >>
    BY <2>5
  <2>7. /\ Executes(x, executed[n + 1], K)
        /\ Len(executed[n + 1].mem.buffer) = Len(y.mem.buffer) - 1
    BY <2>2, <2>3, <2>5, <2>6, ExecutedNext12, ZenonT(60)
  <2>8. Len(executed[n + 1].mem.buffer) = Len(x.mem.buffer) - (n + 1)
    <3> DEFINE a == Len(x.mem.buffer)
               b == Len(y.mem.buffer)
               c == Len(executed[n + 1].mem.buffer)
    <3>1. a \in Nat /\ n \in Nat /\ b = a - n /\ c = b - 1
      BY <1>0, <1>00, <2>3, <2>7
    <3> HIDE DEF a, b, c
    <3>2. c = a - (n + 1)
      BY <3>1
    <3> QED
      BY <3>2 DEF a, c
  <2> QED
    BY <2>1, <2>7, <2>8 DEF T, Done
<1>9. N \in T
  <2>1. T \in SUBSET Nat
    OBVIOUS
  <2> HIDE DEF T
  <2>2. 0 .. N \subseteq T
    BY <1>0, <1>7, <1>8, <2>1, InductionUpTo
  <2> QED
    BY <1>0, <2>2
<1>10. ASSUME x.mem.buffer = << >>
       PROVE  executed[N].mem.buffer = << >>
  <2>1. Len(x.mem.buffer) = 0
    BY <1>10
  <2>2. N = 0
    BY <1>0, <2>1
  <2>3. executed[N] = x
    BY <1>0, <1>5, <2>2
  <2> QED
    BY <1>10, <2>3
<1>11. Executes(x, executed[N], K)
  BY <1>9
<1> HIDE DEF T, F
<1> QED
  BY <1>6, <1>10, <1>11

\* CompleteOutstandingCmdsL, second part: the locks that wait.
SameCovered(d, e) == DOMAIN e = DOMAIN d /\ \A q \in DOMAIN d : A12!Covered(e[q]) = A12!Covered(d[q])

LEMMA AllLocked12 ==
  ASSUME NEW d, NEW locks, IsSeq(locks)
  PROVE  SameCovered(d, A12!LockedAs(d, locks))
<1> DEFINE N == Len(locks)
           F(g, n) == IF n = 0 THEN d ELSE A12!SetProfileLock(g[n - 1], locks[n].id, locks[n].lock)
           Loops(m, g) == g = [n \in 0 .. m |-> F(g, n)]
           locked == CHOOSE g : Loops(N, g)
           S == {m \in Nat : \E g : Loops(m, g)}
           Done(n) == SameCovered(d, locked[n])
           T == {n \in 0 .. N : Done(n)}
<1>0. N \in Nat
  BY SeqDomain
<1> HIDE DEF N
<1>1. 0 \in S
  <2>1. Loops(0, [n \in 0 .. 0 |-> d])
    OBVIOUS
  <2> QED
    BY <2>1
<1>2. ASSUME NEW m \in Nat, m \in S
      PROVE  m + 1 \in S
  <2>1. PICK g : Loops(m, g)
    BY <1>2
  <2> DEFINE h == [n \in 0 .. m + 1 |-> IF n <= m THEN g[n] ELSE F(g, n)]
  <2>2. ASSUME NEW n \in 0 .. m + 1
        PROVE  h[n] = F(h, n)
    <3>1. n # 0 => n - 1 \in 0 .. m /\ h[n - 1] = g[n - 1]
      OBVIOUS
    <3>2. F(h, n) = F(g, n)
      <4> HIDE DEF h
      <4> QED
        BY <3>1
    <3>3. n <= m => g[n] = F(g, n)
      <4> HIDE DEF F
      <4> QED
        BY <2>1
    <3> QED
      BY <3>2, <3>3
  <2>3. Loops(m + 1, h)
    BY <2>2
  <2> HIDE DEF h, Loops
  <2> QED
    BY <2>3
<1>3. \E g : Loops(N, g)
  <2>1. 0 .. N \subseteq S
    <3> HIDE DEF S
    <3> QED
      BY <1>0, <1>1, <1>2, InductionUpTo DEF S
  <2> HIDE DEF Loops
  <2> QED
    BY <1>0, <2>1
<1>4. Loops(N, locked)
  BY <1>3
<1>5. \A n \in 0 .. N : locked[n] = F(locked, n)
  <2> HIDE DEF F
  <2> QED
    BY <1>4
<1>6. A12!LockedAs(d, locks) = locked[N]
  BY DEF A12!LockedAs, locked, N
<1> HIDE DEF locked
<1>7. 0 \in T
  <2>1. locked[0] = d
    BY <1>0, <1>5
  <2>2. Done(0)
    BY <2>1 DEF SameCovered
  <2> HIDE DEF Done
  <2> QED
    BY <1>0, <2>2
<1>8. ASSUME NEW n \in 0 .. N - 1, n \in T
      PROVE  n + 1 \in T
  <2> DEFINE e == locked[n]
  <2>1. n + 1 \in 0 .. N /\ (n + 1) - 1 = n /\ n + 1 # 0
    BY <1>0
  <2>2. locked[n + 1] = A12!SetProfileLock(e, locks[n + 1].id, locks[n + 1].lock)
    BY <1>5, <2>1
  <2>3. SameCovered(d, e)
    BY <1>8
  <2> HIDE DEF e, T, F, S, Loops
  <2>4. SameCovered(e, locked[n + 1])
    BY <2>2, LockSet DEF SameCovered
  <2>5. SameCovered(d, locked[n + 1])
    BY <2>3, <2>4 DEF SameCovered
  <2> QED
    BY <2>1, <2>5 DEF T, Done
<1>9. N \in T
  <2>1. T \in SUBSET Nat
    OBVIOUS
  <2> HIDE DEF T
  <2>2. 0 .. N \subseteq T
    BY <1>0, <1>7, <1>8, <2>1, InductionUpTo
  <2> QED
    BY <1>0, <2>2
<1> QED
  BY <1>6, <1>9

LEMMA LocksApplied12 ==
  ASSUME NEW x, Ledger(x), Books12(x)
  PROVE  LET y == A12!ApplyLocks(x)
         IN  Quiet(x, y) /\ SameCovered(x.db, y.db)
<1> DEFINE d == A12!LockedAs(x.db, x.mem.locks)
           y == [x EXCEPT !.db = d]
<1>1. HasState(x) /\ IsSeq(x.mem.locks)
  BY DEF Books12, Books, LocksKnown
<1>2. A12!ApplyLocks(x) = y
  BY <1>1 DEF A12!ApplyLocks, HasState
<1>3. SameCovered(x.db, d)
  BY <1>1, AllLocked12
<1> HIDE DEF d
<1>4. Quiet(x, y) /\ y.db = d
  BY <1>1, QuietDb, OtherDb
<1> HIDE DEF y
<1> QED
  BY <1>2, <1>3, <1>4

\* Third part: the ports that wait.
Answers(x, y, R) ==
  /\ HasState(y) /\ y.mem = x.mem
  /\ Distinct(y.said) /\ Answered(y) = Answered(x) \cup R
WithAnswer(x, ref, status) == [x EXCEPT !.said = Append(@, [ref |-> ref, status |-> status])]
LEMMA AnswerNext ==
  ASSUME NEW x, HasState(x), Distinct(x.said), NEW ref, ref \notin Answered(x), NEW status
  PROVE  LET y == WithAnswer(x, ref, status)
         IN  Answers(x, y, {ref}) /\ y.db = x.db
<1> DEFINE a == [ref |-> ref, status |-> status]
           s == Append(x.said, a)
           y == [x EXCEPT !.said = s]
<1>1. a.ref = ref
  OBVIOUS
<1>2. [x EXCEPT !.said = Append(@, [ref |-> ref, status |-> status])] = y
  BY DEF HasState
<1> HIDE DEF a
<1>3. ref \notin RefsOf(x.said)
  BY DEF Answered, RefsOf
<1>4. Distinct(s) /\ RefsOf(s) = RefsOf(x.said) \cup {ref}
  BY <1>1, <1>3, DistinctAppended
<1> HIDE DEF s
<1>5. HasState(y) /\ y.mem = x.mem /\ y.db = x.db /\ y.said = s
  BY OtherSaid
<1> HIDE DEF y
<1>6. Answered(y) = Answered(x) \cup {ref}
  BY <1>4, <1>5 DEF Answered, RefsOf
<1> QED
  BY <1>2, <1>4, <1>5, <1>6 DEF Answers, WithAnswer, y

LEMMA PortApplied12 ==
  ASSUME NEW x, HasState(x), Distinct(x.said), NEW e, e.ref \notin Answered(x)
  PROVE  LET y == A12!ApplyPort(x, e)
         IN  Answers(x, y, {e.ref}) /\ SameCovered(x.db, y.db)
<1> DEFINE d == A12!SetProfileConnectionPortNr(x.db, e, "EDMUnset").db
           w == [x EXCEPT !.db = d]
           y == A12!ApplyPort(x, e)
<1>1. \E s : y = WithAnswer(w, e.ref, s)
  BY DEF A12!ApplyPort, A12!SetStatus, WithAnswer
<1>2. SameCovered(x.db, d)
  BY PortSet DEF SameCovered
<1> HIDE DEF d, y
<1>3. HasState(w) /\ w.mem = x.mem /\ w.db = d /\ w.said = x.said
  BY OtherDb
<1> HIDE DEF w
<1>4. Answered(w) = Answered(x)
  BY <1>3 DEF Answered
<1>5. \A s : Answers(w, WithAnswer(w, e.ref, s), {e.ref}) /\ WithAnswer(w, e.ref, s).db = w.db
  BY <1>3, <1>4, AnswerNext
<1> QED
  BY <1>1, <1>2, <1>3, <1>4, <1>5 DEF Answers, y

LEMMA EveryPort12 ==
  ASSUME NEW x, Books(x)
  PROVE  LET y == A12!ApplyEveryPort(x)
         IN  Answers(x, y, RefsOf(x.mem.ports)) /\ SameCovered(x.db, y.db)
<1> DEFINE N == Len(x.mem.ports)
           F(g, n) == IF n = 0 THEN x ELSE A12!ApplyPort(g[n - 1], x.mem.ports[n])
           Loops(m, g) == g = [n \in 0 .. m |-> F(g, n)]
           applied == CHOOSE g : Loops(N, g)
           R(n) == {x.mem.ports[j].ref : j \in 1 .. n}
           S == {m \in Nat : \E g : Loops(m, g)}
           Done(n) == Answers(x, applied[n], R(n)) /\ SameCovered(x.db, applied[n].db)
           T == {n \in 0 .. N : Done(n)}
<1>0. N \in Nat /\ DOMAIN x.mem.ports = 1 .. N
  BY SeqDomain DEF Books, Distinct
<1> HIDE DEF N
<1>1. 0 \in S
  <2>1. Loops(0, [n \in 0 .. 0 |-> x])
    OBVIOUS
  <2> QED
    BY <2>1
<1>2. ASSUME NEW m \in Nat, m \in S
      PROVE  m + 1 \in S
  <2>1. PICK g : Loops(m, g)
    BY <1>2
  <2> DEFINE h == [n \in 0 .. m + 1 |-> IF n <= m THEN g[n] ELSE F(g, n)]
  <2>2. ASSUME NEW n \in 0 .. m + 1
        PROVE  h[n] = F(h, n)
    <3>1. n # 0 => n - 1 \in 0 .. m /\ h[n - 1] = g[n - 1]
      OBVIOUS
    <3>2. F(h, n) = F(g, n)
      <4> HIDE DEF h
      <4> QED
        BY <3>1
    <3>3. n <= m => g[n] = F(g, n)
      <4> HIDE DEF F
      <4> QED
        BY <2>1
    <3> QED
      BY <3>2, <3>3
  <2>3. Loops(m + 1, h)
    BY <2>2
  <2> HIDE DEF h, Loops
  <2> QED
    BY <2>3
<1>3. \E g : Loops(N, g)
  <2>1. 0 .. N \subseteq S
    <3> HIDE DEF S
    <3> QED
      BY <1>0, <1>1, <1>2, InductionUpTo DEF S
  <2> HIDE DEF Loops
  <2> QED
    BY <1>0, <2>1
<1>4. Loops(N, applied)
  BY <1>3
<1>5. \A n \in 0 .. N : applied[n] = F(applied, n)
  <2> HIDE DEF F
  <2> QED
    BY <1>4
<1>6. A12!ApplyEveryPort(x) = applied[N]
  BY DEF A12!ApplyEveryPort, applied, N
<1> HIDE DEF applied
<1>7. 0 \in T
  <2>1. applied[0] = x /\ R(0) = {}
    BY <1>0, <1>5
  <2>2. Answers(x, x, {}) /\ SameCovered(x.db, x.db)
    BY DEF Answers, Books, SameCovered
  <2>3. Done(0)
    BY <2>1, <2>2
  <2> HIDE DEF Done
  <2> QED
    BY <1>0, <2>3
<1>8. ASSUME NEW n \in 0 .. N - 1, n \in T
      PROVE  n + 1 \in T
  <2> DEFINE c == x.mem.ports[n + 1]
             y == applied[n]
             z == applied[n + 1]
  <2>1. n + 1 \in 0 .. N /\ n + 1 \in DOMAIN x.mem.ports /\ (n + 1) - 1 = n /\ n + 1 # 0
    BY <1>0
  <2>2. z = A12!ApplyPort(y, c)
    BY <1>5, <2>1
  <2>3. R(n + 1) = R(n) \cup {c.ref}
    BY <1>0
  <2>4. c.ref \notin R(n)
    <3>1. ASSUME NEW j \in 1 .. n, x.mem.ports[j].ref = c.ref
          PROVE  FALSE
      <4>1. j \in DOMAIN x.mem.ports /\ j # n + 1
        BY <1>0
      <4> QED
        BY <2>1, <3>1, <4>1 DEF Distinct, Books
    <3> QED
      BY <3>1
  <2>5. Answers(x, y, R(n)) /\ SameCovered(x.db, y.db)
    BY <1>8
  <2>6. c.ref \notin Answered(x)
    BY <2>1 DEF Books, RefsOf
  <2> HIDE DEF R, c, y, z, T, F, S, Loops
  <2>7. Answers(y, z, {c.ref}) /\ SameCovered(y.db, z.db)
    BY <2>2, <2>4, <2>5, <2>6, PortApplied12 DEF Answers
  <2>8. Answers(x, z, R(n) \cup {c.ref}) /\ SameCovered(x.db, z.db)
    BY <2>5, <2>7 DEF Answers, SameCovered
  <2> QED
    BY <2>1, <2>3, <2>8 DEF T, Done, z
<1>9. N \in T
  <2>1. T \in SUBSET Nat
    OBVIOUS
  <2> HIDE DEF T
  <2>2. 0 .. N \subseteq T
    BY <1>0, <1>7, <1>8, <2>1, InductionUpTo
  <2> QED
    BY <1>0, <2>2
<1>10. R(N) = RefsOf(x.mem.ports)
  BY <1>0 DEF RefsOf
<1> QED
  BY <1>6, <1>9, <1>10

\* No port waits any more.
NoPorts(x) == [x EXCEPT !.mem.ports = << >>]
LEMMA PortsDone ==
  ASSUME NEW x, Ledger(x), NEW y, Answers(x, y, RefsOf(x.mem.ports)), NEW K
  PROVE  LET z == NoPorts(y)
         IN  /\ Moves(x, z, {}, K) /\ z.db = y.db /\ z.mem.buffer = x.mem.buffer
             /\ z.mem.newProfile = x.mem.newProfile
<1> DEFINE m == [y.mem EXCEPT !.ports = << >>]
           z == [y EXCEPT !.mem = m]
<1>1. [y EXCEPT !.mem.ports = << >>] = z
  BY DEF Answers, HasState
<1>2. /\ DOMAIN m = DOMAIN x.mem /\ m.buffer = x.mem.buffer /\ m.ports = << >>
      /\ m.complete = x.mem.complete /\ m.newProfile = x.mem.newProfile
      /\ m.locks = x.mem.locks
  BY DEF Ledger, Books, AccFields, Answers
<1> HIDE DEF m
<1>3. HasState(z) /\ z.mem = m /\ z.db = y.db /\ z.said = y.said
  BY OtherMem DEF Answers
<1> HIDE DEF z
<1>4. Distinct(z.mem.ports) /\ RefsOf(z.mem.ports) = {}
  BY <1>2, <1>3, DistinctEmpty
<1>5. Answered(z) = Answered(x) \cup RefsOf(x.mem.ports)
  BY <1>3 DEF Answers, Answered
<1>6. Settled(z) = Settled(x)
  BY <1>4, <1>5 DEF Settled
<1>7. Books(z)
  BY <1>2, <1>3, <1>4, <1>5 DEF Ledger, Books, LocksKnown, Answers
<1>8. Moves(x, z, {}, K)
  BY <1>2, <1>3, <1>6, <1>7 DEF Moves, Ledger, Accounted
<1> QED
  BY <1>1, <1>2, <1>3, <1>8 DEF z, NoPorts

\* CompleteOutstandingCmdsL.
LEMMA Completed12 ==
  ASSUME NEW x, Ledger(x), Books12(x), x.mem.buffer # << >> => x.mem.newProfile,
         NEW K, Named(x.mem.buffer, K)
  PROVE  LET z == A12!CompleteOutstandingCmds(x)
         IN  /\ Moves(x, z, {}, K) /\ Named(z.mem.buffer, K)
             /\ z.mem.newProfile = x.mem.newProfile
             /\ x.mem.buffer = << >> => z.mem.buffer = << >>
             /\ Covers(x.db, z.db)
<1> DEFINE u == A12!ExecuteEvery(x)
           v == A12!ApplyLocks(u)
           w == A12!ApplyEveryPort(v)
           z == NoPorts(w)
<1>1. A12!CompleteOutstandingCmds(x) = z
  BY DEF A12!CompleteOutstandingCmds, A12!ApplyPorts, NoPorts
<1>2. Executes(x, u, K) /\ (x.mem.buffer = << >> => u.mem.buffer = << >>)
  BY Everything12
<1> HIDE DEF u
<1>3. Ledger(u) /\ Books12(u)
  BY <1>2 DEF Executes, Moves, Ledger, Books12
<1>4. Quiet(u, v) /\ SameCovered(u.db, v.db)
  BY <1>3, LocksApplied12
<1> HIDE DEF v
<1>5. /\ Ledger(v) /\ v.mem.buffer = u.mem.buffer /\ v.mem.newProfile = u.mem.newProfile
      /\ Moves(x, v, {}, K)
  BY <1>2, <1>3, <1>4, QuietLedger, MovesQuiet DEF Quiet, SameRest, Executes, Books12
<1>6. Answers(v, w, RefsOf(v.mem.ports)) /\ SameCovered(v.db, w.db)
  BY <1>5, EveryPort12 DEF Ledger
<1> HIDE DEF w
<1>7. /\ Moves(v, z, {}, K) /\ z.db = w.db /\ z.mem.buffer = v.mem.buffer
      /\ z.mem.newProfile = v.mem.newProfile
  BY <1>5, <1>6, PortsDone
<1> HIDE DEF z
<1>8. Moves(x, z, {}, K)
  BY <1>5, <1>7, MovesTransitive
<1>9. Covers(x.db, z.db)
  BY <1>2, <1>4, <1>6, <1>7 DEF Executes, SameCovered, Keeps, Covers
<1> QED
  BY <1>1, <1>2, <1>5, <1>7, <1>8, <1>9 DEF Executes

\* A handler: the locks of K may be left, and what is locked stays.
Handled(x, z, R, K) ==
  /\ Moves(x, z, R, K) /\ Named(z.mem.buffer, K)
  /\ z.mem.buffer # << >> => z.mem.newProfile
  /\ Covers(x.db, z.db)

\* AddLeafBufferL.
WithLeaf(x, i, c, has) ==
  LET e == x.mem.buffer[i]
      f == [e EXCEPT !.leaves = Append(e.leaves, c), !.has = has]
  IN  WithBuffer(x, [x.mem.buffer EXCEPT ![i] = f])
LEMMA LeafRest ==
  ASSUME NEW x, Books(x), NEW i, NEW c, NEW has
  PROVE  LET y == WithLeaf(x, i, c, has)
         IN  /\ y.db = x.db /\ y.mem.newProfile = x.mem.newProfile
             /\ y.mem.complete = x.mem.complete
<1> DEFINE e == x.mem.buffer[i]
           t == [x.mem.buffer EXCEPT ![i] = [e EXCEPT !.leaves = Append(e.leaves, c), !.has = has]]
<1>1. WithLeaf(x, i, c, has) = WithBuffer(x, t)
  BY Zenon DEF WithLeaf
<1> HIDE DEF t
<1>2. WithBuffer(x, t).db = x.db
  BY BufferChanged
<1>3. WithBuffer(x, t).mem.newProfile = x.mem.newProfile
  BY BufferChanged
<1>4. WithBuffer(x, t).mem.complete = x.mem.complete
  BY BufferChanged
<1> QED
  BY <1>1, <1>2, <1>3, <1>4

LEMMA LeafKept12 ==
  ASSUME NEW x, Ledger(x), NEW i \in DOMAIN x.mem.buffer, NEW c,
         c.ref \notin Accounted(x), NEW has, NEW K, Named(x.mem.buffer, K),
         c.leaf[2] = "ProfileLock" => c.ref \in K
  PROVE  LET y == WithLeaf(x, i, c, has)
         IN  /\ Moves(x, y, {c.ref}, K) /\ Named(y.mem.buffer, K) /\ i \in DOMAIN y.mem.buffer
             /\ y.db = x.db /\ y.mem.newProfile = x.mem.newProfile
             /\ y.mem.complete = x.mem.complete
<1> DEFINE b == x.mem.buffer
           s == Append(b[i].leaves, c)
           e == [b[i] EXCEPT !.leaves = s, !.has = has]
           t == [b EXCEPT ![i] = e]
           y == WithBuffer(x, t)
<1>2. /\ IsNodes(b) /\ IsSeq(b) /\ IsNode(b[i]) /\ Shaped(b[i]) /\ LocksKept(b[i].leaves, K)
      /\ c.ref \notin OfNodes(b) /\ Books(x)
  BY DEF Ledger, IsNodes, Named, Accounted
<1>3. OfNode(b[i]) \subseteq OfNodes(b)
  BY DEF OfNodes
<1>4. DOMAIN e = DOMAIN b[i] /\ e.name = b[i].name /\ e.leaves = s
  BY <1>2 DEF Shaped
<1>5. Distinct(b[i].leaves) /\ c.ref \notin RefsOf(b[i].leaves)
  BY <1>2, <1>3 DEF OfNode, IsNode
<1>6. Distinct(s) /\ RefsOf(s) = RefsOf(b[i].leaves) \cup {c.ref}
  BY <1>5, DistinctAppended, SMTT(40)
<1>7. LocksKept(s, K)
  <2>1. /\ DOMAIN s = DOMAIN b[i].leaves \cup {Len(b[i].leaves) + 1}
        /\ s[Len(b[i].leaves) + 1] = c
        /\ \A j \in DOMAIN b[i].leaves : s[j] = b[i].leaves[j]
    BY <1>5, SeqAppend DEF Distinct
  <2> HIDE DEF s
  <2> QED
    BY <1>2, <2>1 DEF LocksKept
<1> HIDE DEF s, e
<1>8. Shaped(e) /\ Root(e) = Root(b[i])
  BY <1>2, <1>4 DEF Shaped, Root
<1>9. IsNode(e) /\ OfNode(e) = OfNode(b[i]) \cup {c.ref}
  BY <1>2, <1>3, <1>4, <1>6, <1>8 DEF IsNode, OfNode
<1>10. IsNodes(t) /\ OfNodes(t) = OfNodes(b) \cup {c.ref} /\ DOMAIN t = DOMAIN b
  BY <1>2, <1>9, NodeReplaced
<1>11. \A j \in DOMAIN b : t[j] = IF j = i THEN e ELSE b[j]
  OBVIOUS
<1> HIDE DEF t
<1>12. Named(t, K)
  BY <1>4, <1>7, <1>8, <1>10, <1>11 DEF Named
<1>13. /\ Books(y) /\ Settled(y) = Settled(x) /\ y.mem.buffer = t
       /\ y.db = x.db
       /\ y.mem.complete = x.mem.complete /\ y.mem.newProfile = x.mem.newProfile
  BY <1>2, BufferChanged
<1>14. DOMAIN y.mem = DOMAIN x.mem
  BY <1>2, BufferChanged
<1> HIDE DEF y
<1>15. Moves(x, y, {c.ref}, K)
  <2>1. Ledger(y)
    BY <1>2, <1>10, <1>13 DEF Ledger, Accounted, b
  <2> QED
    BY <1>10, <1>13, <1>14, <2>1 DEF Moves, Accounted, b
<1>16. y = WithLeaf(x, i, c, has)
  BY Zenon DEF y, t, e, s, WithLeaf
<1> HIDE DEF b
<1>17. i \in DOMAIN y.mem.buffer
  BY <1>10, <1>13 DEF b
<1> QED
  BY <1>12, <1>13, <1>15, <1>16, <1>17

LEMMA BufferedLeaf12 ==
  ASSUME NEW x, Ledger(x), Books12(x), x.mem.newProfile, NEW i \in DOMAIN x.mem.buffer, NEW leaf,
         NEW obj, NEW ref, ref \notin Accounted(x), NEW K, Named(x.mem.buffer, K),
         leaf[2] = "ProfileLock" => ref \in K, NEW p
  PROVE  LET z == A12!AddLeafBuffer(x, i, leaf, obj, ref, p)
         IN  /\ DOMAIN x.db \subseteq DOMAIN z.db
             /\ p \notin DOMAIN x.db \/ p \notin DOMAIN z.db => Handled(x, z, {ref}, K)
<1> DEFINE c == [leaf |-> leaf, obj |-> obj, ref |-> ref]
           e == x.mem.buffer[i]
           has == e.has \cup A12!Brings(x, leaf, obj)
           y == WithLeaf(x, i, c, has)
           w == A12!ExecuteBuffer(y, i, p)
           z == A12!AddLeafBuffer(x, i, leaf, obj, ref, p)
<1>1. z = y \/ z = w
  <2> DEFINE f == [e EXCEPT !.leaves = Append(e.leaves, c), !.has = has]
             v == [x EXCEPT !.mem.buffer[i] = f]
  <2>1. z = v \/ z = A12!ExecuteBuffer(v, i, p)
    BY Zenon DEF A12!AddLeafBuffer
  <2> HIDE DEF f
  <2>2. v = WithBuffer(x, [x.mem.buffer EXCEPT ![i] = f])
    BY DEF WithBuffer, Ledger, Books, HasState, AccFields
  <2>3. v = y
    BY <2>2, Zenon DEF WithLeaf, f
  <2> HIDE DEF y, v
  <2> QED
    BY <2>1, <2>3
<1> HIDE DEF has, z
<1>2. /\ Moves(x, y, {ref}, K) /\ Named(y.mem.buffer, K) /\ i \in DOMAIN y.mem.buffer
      /\ y.db = x.db /\ y.mem.newProfile = x.mem.newProfile
      /\ y.mem.complete = x.mem.complete
  <2>1. c.ref = ref /\ c.leaf = leaf
    OBVIOUS
  <2> HIDE DEF c
  <2>2. c.ref \notin Accounted(x) /\ (c.leaf[2] = "ProfileLock" => c.ref \in K)
    BY <2>1
  <2>3. /\ Moves(x, WithLeaf(x, i, c, has), {c.ref}, K)
        /\ Named(WithLeaf(x, i, c, has).mem.buffer, K)
        /\ i \in DOMAIN WithLeaf(x, i, c, has).mem.buffer
    BY <2>2, LeafKept12
  <2>4. Books(x)
    BY DEF Ledger
  <2>5. WithLeaf(x, i, c, has).db = x.db
    BY <2>4, LeafRest
  <2>6. WithLeaf(x, i, c, has).mem.newProfile = x.mem.newProfile
    BY <2>4, LeafRest
  <2>7. WithLeaf(x, i, c, has).mem.complete = x.mem.complete
    BY <2>4, LeafRest
  <2> QED
    BY <2>1, <2>3, <2>5, <2>6, <2>7
<1> HIDE DEF y
<1>3. Ledger(y) /\ Books12(y) /\ y.mem.newProfile
  BY <1>2 DEF Moves, Ledger, Books12
<1>4. LocksKept(y.mem.buffer[i].leaves, K) /\ "ref" \notin DOMAIN y.mem.buffer[i]
  BY <1>2 DEF Named, Shaped
<1>5. /\ Moves(y, w, {}, K)
      /\ Shorter(y.mem.buffer, w.mem.buffer, i)
      /\ w.mem.newProfile = y.mem.newProfile
      /\ DOMAIN y.db \subseteq DOMAIN w.db /\ (~y.mem.complete => p \in DOMAIN w.db)
      /\ y.mem.complete \/ p \notin DOMAIN y.db => Keeps(y.db, w.db)
  BY <1>2, <1>3, <1>4, Executed12
<1> HIDE DEF w
<1>6. Handled(x, y, {ref}, K)
  BY <1>2, <1>3, KeepsSelf DEF Handled
<1>7. Moves(x, w, {ref}, K)
  BY <1>2, <1>5, MovesTransitive
<1>8. Named(w.mem.buffer, K)
  BY <1>2, <1>3, <1>5, NamedShorter DEF Ledger, IsNodes
<1>9. p \notin DOMAIN x.db \/ p \notin DOMAIN w.db => Covers(x.db, w.db)
  BY <1>2, <1>5 DEF Keeps, Covers
<1>10. p \notin DOMAIN x.db \/ p \notin DOMAIN w.db => Handled(x, w, {ref}, K)
  BY <1>3, <1>5, <1>7, <1>8, <1>9 DEF Handled
<1> QED
  BY <1>1, <1>2, <1>5, <1>6, <1>10 DEF z

\* UpdateLeafObjectL.
LEMMA Updated12 ==
  ASSUME NEW x, Ledger(x), Books12(x), x.mem.buffer # << >> => x.mem.newProfile,
         NEW name, NEW leaf, NEW obj, NEW ref, ref \notin Accounted(x), NEW K, Named(x.mem.buffer, K),
         leaf[2] = "ProfileLock" => ref \in K, NEW p
  PROVE  LET z == A12!UpdateLeafObject(x, name, leaf, obj, ref, p)
         IN  /\ DOMAIN x.db \subseteq DOMAIN z.db
             /\ p \notin DOMAIN x.db \/ p \notin DOMAIN z.db => Handled(x, z, {ref}, K)
<1> DEFINE i == A12!BufferIndex(x, name)
           stored == A12!UpdateStored(x, name, A12!Luid(x.map, name), leaf, obj, ref)
           added == A12!AddLeafBuffer(x, i, leaf, obj, ref, p)
           z == A12!UpdateLeafObject(x, name, leaf, obj, ref, p)
<1>1. (i > 0 /\ z = added) \/ z = stored
  BY DEF A12!UpdateLeafObject
<1>2. IsSeq(x.mem.buffer) /\ ref \notin Settled(x) /\ ref \notin OfNodes(x.mem.buffer)
  BY DEF Ledger, IsNodes, Accounted
<1>3. i > 0 => i \in DOMAIN x.mem.buffer
  BY <1>2, Buffered12
<1> HIDE DEF i
<1>4. Written(x, stored, {ref}, K)
  BY <1>2, StoredWritten
<1> HIDE DEF stored, z
<1>5. DOMAIN x.db \subseteq DOMAIN stored.db /\ Handled(x, stored, {ref}, K)
  <2>1. Moves(x, stored, {ref}, K)
    BY <1>2, <1>4, SettlesMoves DEF Written
  <2>2. stored.mem.buffer = x.mem.buffer /\ stored.mem.newProfile = x.mem.newProfile
    BY <1>4 DEF Written, Settles, SameRest, Books12
  <2> QED
    BY <1>4, <2>1, <2>2 DEF Handled, Written
<1>6. i > 0 => x.mem.newProfile
  <2>1. i > 0 => x.mem.buffer # << >>
    BY <1>3
  <2> QED
    BY <2>1
<1> HIDE DEF added
<1>7. i > 0 => /\ DOMAIN x.db \subseteq DOMAIN added.db
               /\ p \notin DOMAIN x.db \/ p \notin DOMAIN added.db => Handled(x, added, {ref}, K)
  BY <1>3, <1>6, BufferedLeaf12 DEF added
<1> QED
  BY <1>1, <1>5, <1>7 DEF z

-----------------------------------------------------------------------------
(* Accounts of DM 1.2: the other handlers. *)

Ready12(x, K) ==
  /\ Ledger(x) /\ Books12(x) /\ Named(x.mem.buffer, K)
  /\ x.mem.buffer # << >> => x.mem.newProfile

\* A command that is answered at once, perhaps after a change of unlocked profiles.
AtOnce(x, z, ref) ==
  \E y, s : Quiet(x, y) /\ z = A12!SetStatus(y, ref, s) /\ Covers(x.db, y.db)

LEMMA QuietHandled ==
  ASSUME NEW x, NEW K, Ready12(x, K), NEW y, Quiet(x, y), Covers(x.db, y.db)
  PROVE  Ready12(y, K) /\ Handled(x, y, {}, K) /\ Accounted(y) = Accounted(x)
<1>1. Ledger(y) /\ Accounted(y) = Accounted(x)
  BY QuietLedger DEF Ready12
<1>2. /\ y.mem.buffer = x.mem.buffer /\ y.mem.newProfile = x.mem.newProfile
      /\ DOMAIN y.mem = DOMAIN x.mem
  BY DEF Quiet, SameRest, Ready12, Books12
<1>3. Moves(x, y, {}, K)
  BY <1>1, <1>2 DEF Moves
<1> QED
  BY <1>1, <1>2, <1>3 DEF Handled, Ready12, Books12, Ledger

LEMMA WrittenHandled ==
  ASSUME NEW x, NEW K, Ready12(x, K), NEW ref, ref \notin Accounted(x), NEW z, Written(x, z, {ref}, K)
  PROVE  Handled(x, z, {ref}, K)
<1>1. Moves(x, z, {ref}, K)
  BY SettlesMoves DEF Written, Ready12, Accounted
<1>2. z.mem.buffer = x.mem.buffer /\ z.mem.newProfile = x.mem.newProfile
  BY DEF Written, Settles, SameRest, Ready12, Books12
<1> QED
  BY <1>1, <1>2 DEF Handled, Written, Ready12

LEMMA HandledAfter ==
  ASSUME NEW x, NEW K, Ready12(x, K), NEW y, Quiet(x, y), y.db = x.db, NEW R, NEW z
  PROVE  Handled(y, z, R, K) => Handled(x, z, R, K)
<1>1. Moves(y, z, R, K) => Moves(x, z, R, K)
  BY MovesQuiet DEF Ready12
<1> QED
  BY <1>1 DEF Handled

LEMMA HandledBefore ==
  ASSUME NEW x, NEW K, Ready12(x, K), NEW y, NEW R, Handled(x, y, R, K), NEW z, Quiet(y, z), z.db = y.db
  PROVE  Handled(x, z, R, K)
<1>1. Moves(x, z, R, K)
  BY MovesQuiet DEF Handled
<1>2. "newProfile" \in DOMAIN y.mem
  BY DEF Handled, Moves, Ready12, Books12
<1> QED
  BY <1>1, <1>2 DEF Handled, Quiet, SameRest

LEMMA AtOnceHandled ==
  ASSUME NEW x, NEW K, Ready12(x, K), NEW ref, ref \notin Accounted(x), NEW z, AtOnce(x, z, ref)
  PROVE  Handled(x, z, {ref}, K) /\ ref \in Answered(z)
<1>1. PICK y, s : Quiet(x, y) /\ z = A12!SetStatus(y, ref, s) /\ Covers(x.db, y.db)
  BY DEF AtOnce
<1>2. Ready12(y, K) /\ Accounted(y) = Accounted(x) /\ Handled(x, y, {}, K)
  BY <1>1, QuietHandled
<1>3. Books(y) /\ ref \notin Settled(y)
  BY <1>2 DEF Ready12, Ledger, Accounted
<1>4. Settles(y, z, {ref}, {}) /\ z.mem = y.mem /\ z.db = y.db
  BY <1>1, <1>3, AnswerGiven DEF A12!SetStatus
<1>5. Settles(y, z, {ref}, K)
  BY <1>4, SettlesMore
<1>6. {ref} \cap OfNodes(y.mem.buffer) = {}
  BY <1>2 DEF Accounted
<1>7. Moves(y, z, {ref}, K)
  BY <1>2, <1>5, <1>6, SettlesMoves DEF Ready12
<1>8. Moves(x, z, {ref}, K)
  BY <1>1, <1>7, MovesQuiet DEF Ready12
<1>9. Handled(x, z, {ref}, K)
  BY <1>1, <1>2, <1>4, <1>8 DEF Handled
<1>10. ref \in Answered(z)
  <2>1. ref \notin RefsOf(z.mem.ports)
    BY <1>3, <1>4 DEF Settled
  <2> QED
    BY <1>4, <2>1 DEF Settles, Settled
<1> QED
  BY <1>9, <1>10

\* DeleteObjectL of a node.
LEMMA Deleted12 ==
  ASSUME NEW x, HasState(x), NEW p, NEW ref
  PROVE  AtOnce(x, A12!DeleteNode(x, p, ref), ref)
<1> DEFINE d == A12!Without(x.db, {p})
           y == [x EXCEPT !.db = d]
           z == A12!DeleteNode(x, p, ref)
<1>1. A12!DeleteProfile(x, p) = y
  BY DEF A12!DeleteProfile, HasState
<1>2. \/ z = A12!SetStatus(x, ref, "ENotAllowed")
      \/ z = A12!SetStatus(y, ref, "EOk") /\ A12!IsProfileLocked(x.db, p) = "KErrNone"
  BY <1>1, Zenon DEF A12!DeleteNode
<1> HIDE DEF z
<1>3. Quiet(x, x) /\ Covers(x.db, x.db)
  BY QuietSelf, KeepsSelf
<1>4. A12!IsProfileLocked(x.db, p) = "KErrNone" => Covers(x.db, d)
  BY DEF A12!IsProfileLocked, A12!Without, Covers
<1> HIDE DEF d
<1>5. Quiet(x, y) /\ y.db = d
  BY QuietDb, OtherDb
<1> HIDE DEF y
<1> QED
  BY <1>2, <1>3, <1>4, <1>5 DEF AtOnce, z

\* DeleteObjectL of a leaf.
LEMMA LeafDeleted12 ==
  ASSUME NEW x, NEW K, Ready12(x, K), NEW name, NEW p, NEW leaf, NEW ref, ref \notin Accounted(x),
         leaf[2] = "ProfileLock" => ref \in K
  PROVE  Handled(x, A12!DeleteLeaf(x, name, p, leaf, ref), {ref}, K)
<1> DEFINE y == [x EXCEPT !.mem.parent = p]
           u == [y EXCEPT !.mem.leafType = "EDMDelete"]
           v == A12!UpdateStored(u, name, p, leaf, A12!Nothing, ref)
           w == [v EXCEPT !.mem.leafType = "EDMUnset"]
           z == A12!DeleteLeaf(x, name, p, leaf, ref)
<1>1. \/ z = A12!SetStatus(x, ref, "ENotAllowed")
      \/ z = A12!SetStatus(y, ref, "EOk")
      \/ z = w
  BY Zenon DEF A12!DeleteLeaf
<1>2. Quiet(x, y) /\ y.db = x.db
  BY QuietParent DEF Ready12, Ledger, Books
<1> HIDE DEF y, z
<1>3. Ready12(y, K) /\ Accounted(y) = Accounted(x) /\ HasState(y)
  BY <1>2, QuietHandled, KeepsSelf DEF Quiet
<1>4. Quiet(y, u) /\ u.db = y.db
  BY <1>3, QuietLeafType
<1> HIDE DEF u
<1>5. Ready12(u, K) /\ Accounted(u) = Accounted(x)
  BY <1>3, <1>4, QuietHandled, KeepsSelf
<1>6. Written(u, v, {ref}, K)
  BY <1>5, StoredWritten DEF Ready12, Accounted
<1> HIDE DEF v
<1>7. Handled(u, v, {ref}, K)
  BY <1>5, <1>6, WrittenHandled
<1>8. Handled(x, v, {ref}, K)
  BY <1>2, <1>3, <1>4, <1>7, HandledAfter
<1>9. Quiet(v, w) /\ w.db = v.db
  BY <1>6, QuietLeafType DEF Written, Settles, Books
<1> HIDE DEF w
<1>10. Handled(x, w, {ref}, K)
  BY <1>8, <1>9, HandledBefore
<1>11. AtOnce(x, A12!SetStatus(x, ref, "ENotAllowed"), ref)
  BY QuietSelf, KeepsSelf DEF AtOnce, Ready12, Ledger, Books
<1>12. AtOnce(x, A12!SetStatus(y, ref, "EOk"), ref)
  BY <1>2, KeepsSelf DEF AtOnce
<1> QED
  BY <1>1, <1>10, <1>11, <1>12, AtOnceHandled DEF z

\* ConstructTreeL and the lists of nodes.
LEMMA Mapped12 ==
  ASSUME NEW x, HasState(x)
  PROVE  /\ \A n : Quiet(x, [x EXCEPT !.map = n]) /\ Covers(x.db, [x EXCEPT !.map = n].db)
         /\ Quiet(x, x) /\ Covers(x.db, x.db)
<1>1. ASSUME NEW n
      PROVE  Quiet(x, [x EXCEPT !.map = n]) /\ Covers(x.db, [x EXCEPT !.map = n].db)
  <2> DEFINE y == [x EXCEPT !.map = n]
  <2>1. Quiet(x, y) /\ y.db = x.db
    BY QuietMap, OtherMap
  <2> HIDE DEF y
  <2>2. Covers(x.db, y.db)
    BY <2>1, KeepsSelf
  <2> QED
    BY <2>1, <2>2 DEF y
<1> QED
  BY <1>1, QuietSelf, KeepsSelf

LEMMA Mappings12 ==
  ASSUME NEW x, HasState(x), NEW ref, NEW s, NEW y,
         y = x \/ \E n : y = [x EXCEPT !.map = n]
  PROVE  AtOnce(x, A12!SetStatus(y, ref, s), ref)
<1>1. Quiet(x, y) /\ Covers(x.db, y.db)
  BY Mapped12
<1> QED
  BY <1>1 DEF AtOnce

LEMMA Constructed12 ==
  ASSUME NEW x
  PROVE  A12!ConstructTree(x) = x \/ \E n : A12!ConstructTree(x) = [x EXCEPT !.map = n]
BY DEF A12!ConstructTree

LEMMA Listed12 ==
  ASSUME NEW x, HasState(x), NEW ref
  PROVE  /\ AtOnce(x, A12!ListProfiles(x, ref), ref)
         /\ \A name, luid : AtOnce(x, A12!ListProfile(x, name, luid, ref), ref)
         /\ \A known : AtOnce(x, A12!ListInner(x, known, ref), ref)
<1>1. AtOnce(x, A12!ListProfiles(x, ref), ref)
  <2>1. PICK n : A12!ListProfiles(x, ref) = A12!SetStatus([x EXCEPT !.map = n], ref, "EOk")
    BY DEF A12!ListProfiles
  <2> QED
    BY <2>1, Mappings12
<1>2. ASSUME NEW name, NEW luid
      PROVE  AtOnce(x, A12!ListProfile(x, name, luid, ref), ref)
  <2>1. \E s : \/ A12!ListProfile(x, name, luid, ref) = A12!SetStatus(x, ref, s)
               \/ A12!ListProfile(x, name, luid, ref) = A12!SetStatus(A12!ConstructTree(x), ref, s)
    BY Zenon DEF A12!ListProfile
  <2>2. \A s : AtOnce(x, A12!SetStatus(x, ref, s), ref)
    BY Mappings12
  <2>3. \A s : AtOnce(x, A12!SetStatus(A12!ConstructTree(x), ref, s), ref)
    BY Constructed12, Mappings12
  <2> QED
    BY <2>1, <2>2, <2>3
<1>3. ASSUME NEW known
      PROVE  AtOnce(x, A12!ListInner(x, known, ref), ref)
  <2>1. \E s : A12!ListInner(x, known, ref) = A12!SetStatus(x, ref, s)
    BY Zenon DEF A12!ListInner
  <2>2. \A s : AtOnce(x, A12!SetStatus(x, ref, s), ref)
    BY Mappings12
  <2> QED
    BY <2>1, <2>2
<1> QED
  BY <1>1, <1>2, <1>3

\* FetchLeafObjectL and FetchLeafObjectSizeL.
LEMMA Fetched12 ==
  ASSUME NEW x, HasState(x), NEW name, NEW luid, NEW leaf, NEW ref
  PROVE  AtOnce(x, A12!FetchLeafObject(x, name, luid, leaf, ref), ref)
<1> DEFINE z == A12!FetchLeafObject(x, name, luid, leaf, ref)
<1>1. \E s : z = A12!SetStatus(x, ref, s) \/ z = A12!SetStatus(A12!ConstructTree(x), ref, s)
  BY Zenon DEF A12!FetchLeafObject
<1>2. \A s : AtOnce(x, A12!SetStatus(x, ref, s), ref)
  BY Mappings12
<1>3. \A s : AtOnce(x, A12!SetStatus(A12!ConstructTree(x), ref, s), ref)
  BY Constructed12, Mappings12
<1> QED
  BY <1>1, <1>2, <1>3

\* A value that is not empty was found.
LEMMA Got12 ==
  ASSUME NEW r, NEW leaf
  PROVE  \/ A12!GetObject(r, leaf).err = "KErrNone"
         \/ A12!GetObject(r, leaf).text = ""
<1> DEFINE value(t) == [err |-> "KErrNone", text |-> t]
           nothing == ""
           field == A12!GetDMField(leaf)
           g == A12!GetObject(r, leaf)
           good(v) == v.err = "KErrNone" \/ v.text = nothing
<1>1. \A t : good(value(t))
  OBVIOUS
<1>2. \A e : good([err |-> e, text |-> nothing])
  BY Zenon
<1>3. good(A12!GetHttpUsername(r))
  <2>1. \/ A12!GetHttpUsername(r) = value(r.HttpName)
        \/ A12!GetHttpUsername(r) = [err |-> "KErrNotFound", text |-> nothing]
    BY Zenon DEF A12!GetHttpUsername
  <2> HIDE DEF good, value, nothing
  <2> QED
    BY <1>1, <1>2, <2>1
<1> HIDE DEF good
<1>4. /\ leaf[2] = "AppID" => g = value("w7")
      /\ leaf[2] # "AppID" =>
           /\ field = "URL" => g = value(A12!GetProfileServerURL(r))
           /\ field = "Port" => g = value(A12!GetProfilePortNumber(r))
           /\ field \in {"Name", "UserName", "ServerId"} => g = value(A12!GetProfileText(r, field))
           /\ field = "IAP" => g = value(A12!GetConRef(r))
           /\ field = "TransportName" => g = A12!GetHttpUsername(r)
           /\ field \in A12!AuthFields \cup {"AAuthType"} => g = value(A12!GetDMAuthInfo(r, field))
           /\ field = "Lock" => g = value(IF r.locked THEN "1" ELSE "0")
           /\ field \in {"Password", "SharedSecret"} => g = [err |-> "EInvalidObject", text |-> nothing]
           /\ field \notin {"URL", "Port", "Name", "UserName", "ServerId", "IAP", "TransportName",
                            "AAuthType", "Lock", "Password", "SharedSecret"} \cup A12!AuthFields
                => g = value(nothing)
  <2>1. leaf[2] = "AppID" => field = "IAP"
    <3>1. leaf[2] = "AppID" => A12!GetDMField(leaf) = A12!PlainField[leaf[2]]
      BY DEF A12!GetDMField, A12!CredentialField, A12!PlainField
    <3> QED
      BY <3>1 DEF A12!PlainField
  <2> HIDE DEF field
  <2> QED
    BY <2>1 DEF A12!GetObject, A12!AuthFields, value, field
<1> HIDE DEF value, nothing, g, field
<1>5. good(g)
  BY <1>1, <1>2, <1>3, <1>4
<1> QED
  BY <1>5, Zenon DEF good, g, nothing

LEMMA SizeFetched12 ==
  ASSUME NEW x, HasState(x), NEW luid, NEW leaf, NEW ref,
         luid \in DOMAIN x.db => A12!GetObject(x.db[luid], leaf).text # ""
  PROVE  AtOnce(x, A12!FetchLeafObjectSize(x, luid, leaf, ref), ref)
<1> DEFINE z == A12!FetchLeafObjectSize(x, luid, leaf, ref)
<1>1. luid \in DOMAIN x.db => A12!GetObject(x.db[luid], leaf).err = "KErrNone"
  BY Got12, Zenon
<1>2. \E s : z = A12!SetStatus(x, ref, s)
  BY <1>1, Zenon DEF A12!FetchLeafObjectSize, A12!FindProfileId
<1>3. \A s : AtOnce(x, A12!SetStatus(x, ref, s), ref)
  BY Mappings12
<1> QED
  BY <1>2, <1>3

\* AddNodeObjectL.
Renewed(x) == [x EXCEPT !.mem.newProfile = TRUE]
LEMMA RenewedSame ==
  ASSUME NEW x, NEW K, Ready12(x, K)
  PROVE  LET y == Renewed(x)
         IN  /\ Ready12(y, K) /\ Accounted(y) = Accounted(x) /\ DOMAIN y.mem = DOMAIN x.mem
             /\ y.mem.newProfile = TRUE /\ y.mem.buffer = x.mem.buffer /\ y.db = x.db
<1> DEFINE m == [x.mem EXCEPT !.newProfile = TRUE]
           y == [x EXCEPT !.mem = m]
<1>0. Ledger(x) /\ Books12(x) /\ Books(x) /\ HasState(x)
  BY DEF Ready12, Ledger, Books
<1>1. [x EXCEPT !.mem.newProfile = TRUE] = y
  BY <1>0 DEF HasState
<1>2. /\ DOMAIN m = DOMAIN x.mem /\ m.buffer = x.mem.buffer /\ m.ports = x.mem.ports
      /\ m.complete = x.mem.complete /\ m.newProfile = TRUE
      /\ m.locks = x.mem.locks
  BY <1>0 DEF Books12
<1> HIDE DEF m
<1>3. HasState(y) /\ y.mem = m /\ y.db = x.db /\ y.map = x.map /\ y.said = x.said
  BY <1>0, OtherMem
<1> HIDE DEF y
<1>4. Books(y) /\ Settled(y) = Settled(x)
  BY <1>0, <1>2, <1>3 DEF Books, Settled, Answered, LocksKnown
<1>5. Ledger(y) /\ Accounted(y) = Accounted(x)
  BY <1>0, <1>2, <1>3, <1>4 DEF Ledger, Accounted
<1>6. Ready12(y, K)
  BY <1>0, <1>2, <1>3, <1>4, <1>5 DEF Ready12, Books12
<1> QED
  BY <1>1, <1>2, <1>3, <1>5, <1>6 DEF y, Renewed

LEMMA HandledFrom ==
  ASSUME NEW x, NEW y, Accounted(y) = Accounted(x), DOMAIN y.mem = DOMAIN x.mem, y.db = x.db,
         NEW z, NEW R, NEW K, Handled(y, z, R, K)
  PROVE  Handled(x, z, R, K)
BY DEF Handled, Moves

LEMMA NodeBuffered12 ==
  ASSUME NEW x, NEW K, Ready12(x, K), x.mem.newProfile, NEW name,
         A12!NodeRef(name) \notin Accounted(x)
  PROVE  Handled(x, A12!AddNodeBuffer(x, name, A12!NodeRef(name)), {A12!NodeRef(name)}, K)
<1> DEFINE ref == A12!NodeRef(name)
           e == [name |-> name, leaves |-> << >>, has |-> {}]
           refused == A12!SetStatus(x, ref, "EAlreadyExists")
           b == Append(x.mem.buffer, e)
           y == [x EXCEPT !.mem.buffer = Append(@, e)]
           z == A12!AddNodeBuffer(x, name, ref)
<1>0. Ledger(x) /\ Books12(x) /\ Books(x) /\ HasState(x) /\ IsSeq(x.mem.buffer)
  BY DEF Ready12, Ledger, Books, IsNodes
<1>1. z = refused \/ z = y
  BY Zenon DEF A12!AddNodeBuffer
<1>2. AtOnce(x, refused, ref)
  BY <1>0, QuietSelf, KeepsSelf DEF AtOnce
<1>3. e.name = name /\ e.leaves = << >> /\ DOMAIN e = {"name", "leaves", "has"}
  OBVIOUS
<1> HIDE DEF e
<1>4. Root(e) = ref
  BY <1>3 DEF Root, A12!NodeRef, NodeRef
<1>5. IsNode(e) /\ OfNode(e) = {ref}
  BY <1>3, <1>4, DistinctEmpty DEF IsNode, OfNode
<1>6. LocksKept(e.leaves, K) /\ Shaped(e)
  <2>1. DOMAIN << >> = {}
    OBVIOUS
  <2> QED
    BY <1>3, <2>1 DEF LocksKept, Shaped
<1> HIDE DEF ref
<1>7. Moves(x, y, OfNode(e), K) /\ y.db = x.db
  <2>1. OfNode(e) \cap Accounted(x) = {}
    BY <1>5 DEF ref
  <2> QED
    BY <1>0, <1>5, <2>1, NodeWaits
<1>8. Named(b, K)
  <2>1. /\ DOMAIN b = DOMAIN x.mem.buffer \cup {Len(x.mem.buffer) + 1}
        /\ b[Len(x.mem.buffer) + 1] = e
        /\ \A j \in DOMAIN x.mem.buffer : b[j] = x.mem.buffer[j]
    BY <1>0, SeqAppend
  <2> HIDE DEF b
  <2> QED
    BY <1>6, <2>1 DEF Named, Ready12
<1> HIDE DEF b
<1>9. y = WithBuffer(x, b)
  BY <1>0 DEF WithBuffer, Books, HasState, AccFields, b
<1> HIDE DEF y
<1>10. y.mem.buffer = b /\ y.mem.newProfile = x.mem.newProfile
  <2>1. WithBuffer(x, b).mem.buffer = b
    BY <1>0, BufferChanged
  <2>2. WithBuffer(x, b).mem.newProfile = x.mem.newProfile
    BY <1>0, BufferChanged
  <2> QED
    BY <1>9, <2>1, <2>2
<1>11. Handled(x, y, {ref}, K)
  BY <1>5, <1>7, <1>8, <1>10, KeepsSelf DEF Handled
<1>12. Handled(x, refused, {ref}, K)
  BY <1>2, AtOnceHandled DEF ref
<1> HIDE DEF refused, z
<1> QED
  BY <1>1, <1>11, <1>12 DEF z, ref

LEMMA NodeAdded12 ==
  ASSUME NEW x, NEW K, Ready12(x, K), NEW name, A12!NodeRef(name) \notin Accounted(x)
  PROVE  Handled(x, A12!AddNodeObject(x, name, A12!NodeRef(name)), {A12!NodeRef(name)}, K)
<1> DEFINE ref == A12!NodeRef(name)
           p == A12!Luid(x.map, name)
           y == IF p = A12!NoLuid THEN x ELSE [x EXCEPT !.mem.parent = p]
           u == A12!RemoveMapping(y, name)
           w == Renewed(u)
           z == A12!AddNodeObject(x, name, ref)
<1>0. Ledger(x) /\ Books12(x) /\ Books(x) /\ HasState(x)
  BY DEF Ready12, Ledger, Books
<1>1. z = A12!SetStatus(y, ref, "EAlreadyExists") \/ z = A12!AddNodeBuffer(w, name, ref)
  BY Zenon DEF A12!AddNodeObject, Renewed
<1> HIDE DEF p
<1>2. Quiet(x, y) /\ y.db = x.db
  <2>1. Quiet(x, x)
    BY <1>0, QuietSelf
  <2>2. Quiet(x, [x EXCEPT !.mem.parent = p]) /\ [x EXCEPT !.mem.parent = p].db = x.db
    BY <1>0, QuietParent
  <2> QED
    BY <2>1, <2>2
<1> HIDE DEF y
<1>3. Covers(x.db, y.db) /\ HasState(y)
  BY <1>2, KeepsSelf DEF Quiet
<1>4. Ready12(y, K) /\ Accounted(y) = Accounted(x) /\ DOMAIN y.mem = DOMAIN x.mem
  BY <1>2, <1>3, QuietHandled DEF Quiet, SameRest
<1>5. Quiet(y, u) /\ u.db = y.db /\ Covers(y.db, u.db)
  <2> DEFINE n == A12!Without(y.map, {name})
  <2>1. u = [y EXCEPT !.map = n]
    BY <1>3 DEF A12!RemoveMapping, HasState
  <2> HIDE DEF n, u
  <2>2. Quiet(y, [y EXCEPT !.map = n]) /\ [y EXCEPT !.map = n].db = y.db
    BY <1>3, QuietMap, OtherMap
  <2>3. Quiet(y, u) /\ u.db = y.db
    BY <2>1, <2>2
  <2> QED
    BY <2>3, KeepsSelf
<1> HIDE DEF u
<1>6. Ready12(u, K) /\ Accounted(u) = Accounted(x) /\ DOMAIN u.mem = DOMAIN x.mem /\ u.db = x.db
  BY <1>2, <1>4, <1>5, QuietHandled DEF Quiet, SameRest
<1>7. /\ Ready12(w, K) /\ Accounted(w) = Accounted(x) /\ DOMAIN w.mem = DOMAIN x.mem
      /\ w.mem.newProfile = TRUE /\ w.db = x.db
  BY <1>6, RenewedSame
<1> HIDE DEF w, z
<1>8. Handled(w, A12!AddNodeBuffer(w, name, ref), {ref}, K)
  BY <1>7, NodeBuffered12
<1>9. Handled(x, A12!AddNodeBuffer(w, name, ref), {ref}, K)
  BY <1>7, <1>8, HandledFrom
<1>10. AtOnce(x, A12!SetStatus(y, ref, "EAlreadyExists"), ref)
  BY <1>2, <1>3 DEF AtOnce
<1>11. Handled(x, A12!SetStatus(y, ref, "EAlreadyExists"), {ref}, K)
  BY <1>10, AtOnceHandled
<1> HIDE DEF ref
<1> QED
  BY <1>1, <1>9, <1>11 DEF z, ref

-----------------------------------------------------------------------------
(* Accounts: calls of the engine. *)

\* The state a call starts from.
Start(m, d, n) == [mem |-> m, db |-> d, map |-> n, said |-> << >>]

LEMMA StartState ==
  ASSUME NEW m, NEW d, NEW n
  PROVE  LET x == Start(m, d, n)
         IN  /\ HasState(x) /\ x.mem = m /\ x.db = d /\ x.map = n /\ x.said = << >>
             /\ Distinct(x.said) /\ Answered(x) = {}
<1> DEFINE x == Start(m, d, n)
<1>1. HasState(x) /\ x.mem = m /\ x.db = d /\ x.map = n /\ x.said = << >>
  BY DEF Start, HasState
<1> HIDE DEF x
<1>2. Distinct(x.said) /\ Answered(x) = {}
  <2>1. DOMAIN << >> = {}
    OBVIOUS
  <2> QED
    BY <1>1, <2>1, DistinctEmpty DEF Answered
<1> QED
  BY <1>1, <1>2 DEF x

\* After a call the adapter has what it accounts for and has not answered.
LEMMA NextLedger ==
  ASSUME NEW z, Ledger(z), NEW d, NEW n
  PROVE  LET y == Start(z.mem, d, n)
         IN  Ledger(y) /\ Accounted(y) = Accounted(z) \ Answered(z)
<1> DEFINE y == Start(z.mem, d, n)
<1>1. HasState(y) /\ y.mem = z.mem /\ Distinct(y.said) /\ Answered(y) = {}
  BY StartState
<1> HIDE DEF y
<1>2. Books(y) /\ Settled(y) = RefsOf(z.mem.ports)
  BY <1>1 DEF Ledger, Books, Settled
<1>3. Ledger(y) /\ Accounted(y) = RefsOf(z.mem.ports) \cup OfNodes(z.mem.buffer)
  BY <1>1, <1>2 DEF Ledger, Accounted, Settled
<1>4. Accounted(z) \ Answered(z) = RefsOf(z.mem.ports) \cup OfNodes(z.mem.buffer)
  BY DEF Ledger, Books, Accounted, Settled
<1> QED
  BY <1>3, <1>4 DEF y

\* The commands that are open are those the adapter accounts for, but for some of K.
Owes(x, o, K) ==
  /\ Accounted(x) \subseteq o /\ o \subseteq Accounted(x) \cup K
  /\ \A r \in o : r.op \in {"node", "leaf"}

LEMMA ServedMoves ==
  ASSUME NEW x, NEW J, Owes(x, open, J), NEW R, R \cap open = {}, NEW K, J \subseteq K,
         NEW z, Moves(x, z, R, K), Called(R, z),
         \A r \in R : r \in Answered(z) \/ r.op \in {"node", "leaf"}
  PROVE  /\ mem' = z.mem /\ db' = z.db /\ wrong' = wrong
         /\ open' = (open \cup R) \ Answered(z)
         /\ Ledger(Start(mem', db', map'))
         /\ Owes(Start(mem', db', map'), open', K \cap open')
<1>1. Distinct(z.said) /\ Ledger(z) /\ Answered(z) \subseteq Accounted(z)
  BY DEF Moves, Ledger, Books, Accounted, Settled
<1>2. Answered(z) \subseteq open \cup R
  BY <1>1 DEF Moves, Owes
<1>3. mem' = z.mem /\ db' = z.db /\ wrong' = wrong /\ open' = (open \cup R) \ Answered(z)
  BY <1>1, <1>2, CalledDistinct
<1> DEFINE y == Start(mem', db', map')
<1>4. Ledger(y) /\ Accounted(y) = Accounted(z) \ Answered(z)
  BY <1>1, <1>3, NextLedger
<1> HIDE DEF y
<1>5. Owes(y, open', K \cap open')
  BY <1>3, <1>4 DEF Owes, Moves
<1> QED
  BY <1>3, <1>4, <1>5 DEF y

-----------------------------------------------------------------------------
(* Accounts of DM 1.2: the invariant. *)

LocksOf(o) == {r \in o : LockRef(r)}
Kept12(x, o) == Ready12(x, LocksOf(o)) /\ Owes(x, o, LocksOf(o))
Inv12 == adapter = "A12" /\ Kept12(Start(mem, db, map), open) /\ wrong = {}

LEMMA LocksMore ==
  ASSUME NEW x, NEW K, NEW L, K \subseteq L, Ready12(x, K)
  PROVE  Ready12(x, L)
BY DEF Ready12, Named, LocksKept

\* Locks that wait are open.
LEMMA LocksNamed ==
  ASSUME NEW b, NEW o, NEW K, Named(b, K), OfNodes(b) \subseteq o
  PROVE  Named(b, K \cap o)
<1>1. ASSUME NEW i \in DOMAIN b
      PROVE  LocksKept(b[i].leaves, K \cap o) /\ Shaped(b[i])
  <2>1. OfNode(b[i]) \subseteq o
    BY DEF OfNodes
  <2>2. \A j \in DOMAIN b[i].leaves : b[i].leaves[j].ref \in o
    BY <2>1 DEF OfNode, RefsOf
  <2> QED
    BY <2>2 DEF Named, LocksKept
<1> QED
  BY <1>1 DEF Named

LEMMA Served12 ==
  ASSUME Inv12, adapter' = adapter, NEW R, R \cap open = {}, NEW z,
         Handled(Start(mem, db, map), z, R, LocksOf(open \cup R)), Called(R, z),
         \A r \in R : r \in Answered(z) \/ r.op \in {"node", "leaf"}
  PROVE  Inv12' /\ Covers(db, db')
<1> DEFINE x == Start(mem, db, map)
           y == Start(mem', db', map')
           K == LocksOf(open \cup R)
<1>0. x.mem = mem /\ x.db = db /\ y.mem = mem' /\ y.db = db'
  BY StartState
<1> HIDE DEF x, y
<1>1. /\ Ready12(x, LocksOf(open)) /\ Owes(x, open, LocksOf(open)) /\ LocksOf(open) \subseteq K
      /\ Handled(x, z, R, K)
  BY DEF Inv12, Kept12, LocksOf, x
<1>2. K \cap open' = LocksOf(open') \/ ~(open' \subseteq open \cup R)
  BY DEF LocksOf
<1> HIDE DEF K
<1>3. /\ mem' = z.mem /\ db' = z.db /\ wrong' = wrong
      /\ open' = (open \cup R) \ Answered(z)
      /\ Ledger(y) /\ Owes(y, open', K \cap open')
  BY <1>1, ServedMoves DEF Handled, y
<1>4. K \cap open' = LocksOf(open')
  BY <1>2, <1>3
<1>5. DOMAIN mem' = DOMAIN mem
  BY <1>0, <1>1, <1>3 DEF Handled, Moves
<1>6. Books12(y)
  BY <1>0, <1>1, <1>3, <1>5 DEF Books12, Ready12, Ledger
<1>7. Named(y.mem.buffer, LocksOf(open'))
  <2>1. OfNodes(y.mem.buffer) \subseteq open' /\ Named(y.mem.buffer, K)
    BY <1>0, <1>1, <1>3 DEF Owes, Accounted, Handled
  <2>2. Named(y.mem.buffer, K \cap open')
    BY <2>1, LocksNamed
  <2> QED
    BY <1>4, <2>2
<1>8. Kept12(y, open')
  BY <1>0, <1>1, <1>3, <1>4, <1>6, <1>7 DEF Kept12, Ready12, Handled
<1> QED
  BY <1>0, <1>1, <1>3, <1>8 DEF Inv12, y, Handled

\* A new object, or a new session.
LEMMA Fresh12 ==
  ASSUME NEW d, NEW n
  PROVE  Kept12(Start(A12!NewMem, d, n), {})
<1> DEFINE m == A12!NewMem
           x == Start(m, d, n)
<1>1. /\ m.buffer = << >> /\ m.ports = << >> /\ m.locks = << >>
      /\ AccFields \cup {"locks", "newProfile"} \subseteq DOMAIN m
  BY DEF A12!NewMem, AccFields
<1> HIDE DEF m
<1>2. HasState(x) /\ x.mem = m /\ Distinct(x.said) /\ Answered(x) = {}
  BY StartState
<1> HIDE DEF x
<1>3. DOMAIN << >> = {} /\ IsSeq(<< >>)
  BY DistinctEmpty DEF Distinct
<1>4. Books(x) /\ Settled(x) = {}
  BY <1>1, <1>2, <1>3, DistinctEmpty DEF Books, LocksKnown, Settled
<1>5. Ledger(x) /\ Accounted(x) = {}
  BY <1>1, <1>2, <1>4, NodesEmpty DEF Ledger, Accounted
<1>6. Ready12(x, {})
  BY <1>1, <1>2, <1>3, <1>4, <1>5 DEF Ready12, Books12, Named
<1>7. LocksOf({}) = {}
  BY DEF LocksOf
<1> QED
  BY <1>5, <1>6, <1>7 DEF Kept12, Owes, x, m

\* The profiles may be any.
LEMMA Elsewhere12 ==
  ASSUME NEW m, NEW d, NEW e, NEW n, NEW o, Kept12(Start(m, d, n), o)
  PROVE  Kept12(Start(m, e, n), o)
<1> DEFINE x == Start(m, d, n)
           y == Start(m, e, n)
<1>1. HasState(x) /\ x.mem = m /\ x.said = << >> /\ Answered(x) = {}
  BY StartState
<1>2. HasState(y) /\ y.mem = m /\ y.said = << >> /\ Answered(y) = {}
  BY StartState
<1>3. Kept12(x, o)
  OBVIOUS
<1> HIDE DEF x, y
<1>4. Ledger(y) /\ Accounted(y) = Accounted(x) /\ Books12(y)
  BY <1>1, <1>2, <1>3 DEF Kept12, Ready12, Books12, Ledger, Books, Settled, Accounted
<1>5. Kept12(y, o)
  BY <1>1, <1>2, <1>3, <1>4 DEF Kept12, Ready12, Owes
<1> QED
  BY <1>5 DEF y

\* The commands that can be handed over.
LEMMA RefOps ==
  /\ \A name : NodeRef(name).op = "node"
  /\ \A name, leaf, text : /\ LeafRef(name, leaf, text).op = "leaf"
                           /\ LeafRef(name, leaf, text).leaf = leaf
                           /\ LeafRef(name, leaf, text).name = name
  /\ \A names : DeleteRef(names).op = "delete"
  /\ \A names, of : DeleteWith(names, of).op = "delete"
  /\ \A name, leaf : UnsetRef(name, leaf).op = "unset" /\ GetRef(name, leaf).op = "get"
  /\ Now.op = "now"
BY DEF NodeRef, LeafRef, DeleteRef, DeleteWith, UnsetRef, GetRef, Now

\* A command that is new to the adapter, before it is handled.
LEMMA Offered12 ==
  ASSUME Inv12, NEW ref, ref \notin open
  PROVE  LET x == Start(mem, db, map)
         IN  /\ Ready12(x, LocksOf(open \cup {ref})) /\ ref \notin Accounted(x)
             /\ HasState(x) /\ x.db = db
             /\ LockRef(ref) => ref \in LocksOf(open \cup {ref})
             /\ A12!X = x
<1> DEFINE x == Start(mem, db, map)
<1>1. HasState(x) /\ x.db = db /\ A12!X = x
  BY StartState DEF A12!X, Start
<1> HIDE DEF x
<1>2. LocksOf(open) \subseteq LocksOf(open \cup {ref})
      /\ (LockRef(ref) => ref \in LocksOf(open \cup {ref}))
  BY DEF LocksOf
<1>3. Ready12(x, LocksOf(open)) /\ Accounted(x) \subseteq open
  BY DEF Inv12, Kept12, Owes, x
<1>4. Ready12(x, LocksOf(open \cup {ref}))
  BY <1>2, <1>3, LocksMore
<1> QED
  BY <1>1, <1>2, <1>3, <1>4 DEF x

\* A command that is answered at once.
LEMMA ServedAtOnce12 ==
  ASSUME Inv12, adapter' = adapter, NEW ref, ref.op \notin {"node", "leaf"},
         NEW z, AtOnce(Start(mem, db, map), z, ref), Called({ref}, z)
  PROVE  Inv12' /\ Covers(db, db')
<1>1. ref \notin open
  BY DEF Inv12, Kept12, Owes
<1> DEFINE x == Start(mem, db, map)
<1>2. Ready12(x, LocksOf(open \cup {ref})) /\ ref \notin Accounted(x)
  BY <1>1, Offered12
<1>3. Handled(x, z, {ref}, LocksOf(open \cup {ref})) /\ ref \in Answered(z)
  BY <1>2, AtOnceHandled
<1> QED
  BY <1>1, <1>3, Served12

LEMMA ServedLater12 ==
  ASSUME Inv12, adapter' = adapter, NEW ref, ref.op \in {"node", "leaf"}, ref \notin open,
         NEW z, Handled(Start(mem, db, map), z, {ref}, LocksOf(open \cup {ref})), Called({ref}, z)
  PROVE  Inv12' /\ Covers(db, db')
BY Served12

\* The guard on leaves that are sent: the command is not open.
LEMMA Sendable12 ==
  ASSUME NEW name, NEW leaf, NEW text, A12!Sendable(name, leaf)
  PROVE  LeafRef(name, leaf, text) \notin open
BY RefOps DEF A12!Sendable

LEMMA Step12 ==
  ASSUME Inv12, adapter' = adapter, A12!Next
  PROVE  Inv12' /\ (Covers(db, db') \/ A12!UserDeletes)
<1> DEFINE x == Start(mem, db, map)
<1>0. A12!X = x /\ HasState(x) /\ x.db = db /\ x.map = map /\ x.mem = mem
  BY StartState DEF A12!X, Start
<1>00. Inv12 /\ adapter' = adapter
  OBVIOUS
<1> HIDE DEF x
<1>1. CASE A12!AddNode
  <2>1. PICK name : /\ A12!NodeRef(name) \notin open
                    /\ A12!Serve({A12!NodeRef(name)}, A12!AddNodeObject(x, name, A12!NodeRef(name)))
    BY <1>0, <1>1 DEF A12!AddNode
  <2> DEFINE ref == A12!NodeRef(name)
             z == A12!AddNodeObject(x, name, ref)
  <2>2. Called({ref}, z)
    BY <2>1 DEF A12!Serve, Called, Answered, Again
  <2>3. ref.op = "node" /\ ref \notin open
    BY <2>1 DEF A12!NodeRef
  <2>4. Ready12(x, LocksOf(open \cup {ref})) /\ ref \notin Accounted(x)
    BY <2>3, Offered12 DEF x
  <2>5. Handled(x, z, {ref}, LocksOf(open \cup {ref}))
    BY <2>4, NodeAdded12
  <2> HIDE DEF z, ref
  <2> QED
    BY <1>00, <2>2, <2>3, <2>5, ServedLater12 DEF x
<1>2. CASE A12!UpdateLeaf
  <2>1. PICK name, leaf, obj, p :
          /\ p \in A12!Free \cup {A12!NoLuid}
          /\ A12!Sendable(name, leaf)
          /\ LET ref == A12!LeafRef(name, leaf, obj.text)
                 z == A12!UpdateLeafObject(x, name, leaf, obj, ref, p)
             IN  /\ p \in DOMAIN z.db <=> p \in A12!Free
                 /\ A12!Serve({ref}, z)
    BY <1>0, <1>2 DEF A12!UpdateLeaf
  <2> DEFINE ref == A12!LeafRef(name, leaf, obj.text)
             z == A12!UpdateLeafObject(x, name, leaf, obj, ref, p)
             K == LocksOf(open \cup {ref})
  <2>2. Called({ref}, z)
    BY <2>1 DEF A12!Serve, Called, Answered, Again
  <2>3. ref = LeafRef(name, leaf, obj.text)
    BY DEF A12!LeafRef, LeafRef
  <2>4. p \in DOMAIN z.db <=> p \in A12!Free
    BY <2>1
  <2>5. p \in A12!Free => p \notin DOMAIN db
    BY DEF A12!Free
  <2> HIDE DEF ref
  <2>6. ref.op = "leaf" /\ ref.leaf = leaf /\ ref \notin open
    BY <2>1, <2>3, RefOps, Sendable12
  <2>7. Ready12(x, K) /\ ref \notin Accounted(x) /\ (LockRef(ref) => ref \in K)
    BY <2>6, Offered12 DEF x
  <2> HIDE DEF z, K
  <2>8. leaf[2] = "ProfileLock" => ref \in K
    BY <2>6, <2>7 DEF LockRef
  <2>9. p \notin DOMAIN x.db \/ p \notin DOMAIN z.db => Handled(x, z, {ref}, K)
    BY <2>7, <2>8, Updated12 DEF Ready12, z
  <2>10. Handled(x, z, {ref}, K)
    BY <1>0, <2>4, <2>5, <2>9
  <2> QED
    BY <1>00, <2>2, <2>6, <2>10, ServedLater12 DEF x, K
<1>3. CASE A12!Delete
  <2>1. PICK name : A12!Serve({A12!DeleteRef({name})},
                              A12!DeleteNode(x, A12!Luid(map, name), A12!DeleteRef({name})))
    BY <1>0, <1>3 DEF A12!Delete
  <2> DEFINE ref == A12!DeleteRef({name})
             z == A12!DeleteNode(x, A12!Luid(map, name), ref)
  <2>2. Called({ref}, z)
    BY <2>1 DEF A12!Serve, Called, Answered, Again
  <2>3. ref.op = "delete"
    BY DEF A12!DeleteRef
  <2>4. AtOnce(x, z, ref)
    BY <1>0, Deleted12
  <2> HIDE DEF z, ref
  <2> QED
    BY <1>00, <2>2, <2>3, <2>4, ServedAtOnce12 DEF x
<1>4. CASE A12!DeleteOneLeaf
  <2>1. PICK name, leaf :
          LET ref == A12!LeafRef(name, leaf, "")
          IN  /\ A12!Sendable(name, leaf)
              /\ A12!Serve({ref}, A12!DeleteLeaf(x, name, A12!Luid(map, name), leaf, ref))
    BY <1>0, <1>4 DEF A12!DeleteOneLeaf
  <2> DEFINE nothing == ""
             ref == A12!LeafRef(name, leaf, nothing)
             z == A12!DeleteLeaf(x, name, A12!Luid(map, name), leaf, ref)
             K == LocksOf(open \cup {ref})
  <2>2. A12!Serve({ref}, z) /\ A12!Sendable(name, leaf)
    BY <2>1, Zenon
  <2> HIDE DEF nothing
  <2>3. Called({ref}, z)
    BY <2>2 DEF A12!Serve, Called, Answered, Again
  <2>4. ref = LeafRef(name, leaf, nothing)
    BY DEF A12!LeafRef, LeafRef
  <2> HIDE DEF ref
  <2>5. ref.op = "leaf" /\ ref.leaf = leaf /\ ref \notin open
    BY <2>2, <2>4, RefOps, Sendable12
  <2>6. Ready12(x, K) /\ ref \notin Accounted(x) /\ (LockRef(ref) => ref \in K)
    BY <2>5, Offered12 DEF x
  <2> HIDE DEF z, K
  <2>7. leaf[2] = "ProfileLock" => ref \in K
    BY <2>5, <2>6 DEF LockRef
  <2>8. Handled(x, z, {ref}, K)
    BY <2>6, <2>7, LeafDeleted12 DEF z
  <2> QED
    BY <1>00, <2>3, <2>5, <2>8, ServedLater12 DEF x, K
<1>5. CASE A12!List
  <2>1. PICK z : A12!Serve({A12!Now}, z) /\ AtOnce(x, z, A12!Now)
    <3>1. CASE A12!Serve({A12!Now}, A12!ListProfiles(x, A12!Now))
      BY <1>0, <3>1, Listed12
    <3>2. CASE \E name \in A12!AllNames :
                 A12!Serve({A12!Now}, A12!ListProfile(x, name, A12!Luid(map, name), A12!Now))
      <4>1. PICK name : A12!Serve({A12!Now}, A12!ListProfile(x, name, A12!Luid(map, name), A12!Now))
        BY <3>2
      <4> QED
        BY <1>0, <4>1, Listed12
    <3>3. CASE \E known \in BOOLEAN : A12!Serve({A12!Now}, A12!ListInner(x, known, A12!Now))
      <4>1. PICK known : A12!Serve({A12!Now}, A12!ListInner(x, known, A12!Now))
        BY <3>3
      <4> QED
        BY <1>0, <4>1, Listed12
    <3> QED
      BY <1>0, <1>5, <3>1, <3>2, <3>3 DEF A12!List
  <2>2. Called({A12!Now}, z)
    BY <2>1 DEF A12!Serve, Called, Answered, Again
  <2>3. A12!Now.op = "now"
    BY DEF A12!Now
  <2> QED
    BY <1>00, <2>1, <2>2, <2>3, ServedAtOnce12 DEF x
<1>6. CASE A12!Fetch
  <2>1. PICK name, leaf :
          A12!Serve({A12!Now}, A12!FetchLeafObject(x, name, A12!Luid(map, name), leaf, A12!Now))
    BY <1>0, <1>6 DEF A12!Fetch
  <2> DEFINE z == A12!FetchLeafObject(x, name, A12!Luid(map, name), leaf, A12!Now)
  <2>2. Called({A12!Now}, z)
    BY <2>1 DEF A12!Serve, Called, Answered, Again
  <2>3. AtOnce(x, z, A12!Now)
    BY <1>0, Fetched12
  <2>4. A12!Now.op = "now"
    BY DEF A12!Now
  <2> HIDE DEF z
  <2> QED
    BY <1>00, <2>2, <2>3, <2>4, ServedAtOnce12 DEF x
<1>7. CASE A12!FetchSize
  <2>1. PICK name, leaf :
          LET p == A12!Luid(map, name)
          IN  /\ p \in DOMAIN db => A12!GetObject(db[p], leaf).text \notin {"", "0"}
              /\ A12!Serve({A12!Now}, A12!FetchLeafObjectSize(x, p, leaf, A12!Now))
    BY <1>0, <1>7, Zenon DEF A12!FetchSize
  <2> DEFINE p == A12!Luid(map, name)
             z == A12!FetchLeafObjectSize(x, p, leaf, A12!Now)
  <2>2. Called({A12!Now}, z)
    <3>1. A12!Serve({A12!Now}, z)
      BY <2>1, Zenon
    <3> QED
      BY <3>1 DEF A12!Serve, Called, Answered, Again
  <2>3. p \in DOMAIN x.db => A12!GetObject(x.db[p], leaf).text # ""
    BY <1>0, <2>1, Zenon
  <2> HIDE DEF p
  <2>4. AtOnce(x, z, A12!Now)
    BY <1>0, <2>3, SizeFetched12, Zenon
  <2>5. A12!Now.op = "now"
    BY DEF A12!Now
  <2> HIDE DEF z
  <2> QED
    BY <1>00, <2>2, <2>4, <2>5, ServedAtOnce12 DEF x
<1>8. Ready12(x, LocksOf(open))
  BY DEF Inv12, Kept12, x
<1> DEFINE all == A12!CompleteOutstandingCmds(x)
<1>9. Handled(x, all, {}, LocksOf(open)) /\ Covers(x.db, all.db)
  <2>1. /\ Moves(x, all, {}, LocksOf(open)) /\ Named(all.mem.buffer, LocksOf(open))
        /\ all.mem.newProfile = x.mem.newProfile
        /\ x.mem.buffer = << >> => all.mem.buffer = << >>
        /\ Covers(x.db, all.db)
    BY <1>8, Completed12 DEF Ready12
  <2> HIDE DEF all
  <2> QED
    BY <1>8, <2>1 DEF Handled, Ready12
<1> HIDE DEF all
<1>10. CASE A12!Complete
  <2>1. Called({}, all)
    BY <1>0, <1>10 DEF A12!Complete, A12!Serve, Called, Answered, Again, all
  <2>2. open \cup {} = open
    OBVIOUS
  <2> QED
    BY <1>00, <1>9, <2>1, <2>2, Served12 DEF x
<1>11. CASE A12!EndSession
  <2>1. mem' = A12!NewMem /\ db' = all.db /\ open' = {} /\ wrong' = wrong
    BY <1>0, <1>11 DEF A12!EndSession, A12!EndWith, all
  <2>2. Kept12(Start(A12!NewMem, db', map'), {})
    BY Fresh12
  <2> QED
    BY <1>0, <1>9, <2>1, <2>2 DEF Inv12
<1>12. CASE A12!UserDeletes
  <2>1. mem' = mem /\ map' = map /\ open' = open /\ wrong' = wrong
    BY <1>12 DEF A12!UserDeletes, A12!Elsewhere
  <2>2. Kept12(Start(mem, db', map), open)
    BY Elsewhere12 DEF Inv12
  <2> QED
    BY <1>12, <2>1, <2>2 DEF Inv12
<1> QED
  BY <1>1, <1>2, <1>3, <1>4, <1>5, <1>6, <1>7, <1>10, <1>11, <1>12 DEF A12!Next

LEMMA Initial12 ==
  ASSUME adapter = "A12", A12!Init
  PROVE  Inv12
<1>1. mem = A12!NewMem /\ open = {} /\ wrong = {}
  BY DEF A12!Init, A12!DmInit
<1> QED
  BY <1>1, Fresh12 DEF Inv12

\* What a server does, and what time does, leaves what a lock covers as it was.
THEOREM LockHoldsAlways == AccountsSpec => LockHolds
<1>1. AccountsInit => (adapter = "A12" => Inv12)
  BY Initial12 DEF AccountsInit
<1>2. ASSUME adapter = "A12" => Inv12, [AccountsNext]_runVars
      PROVE  /\ (adapter = "A12" => Inv12)'
             /\ adapter = "A12" => Covers(db, db') \/ A12!UserDeletes
  <2>1. CASE UNCHANGED runVars
    BY <1>2, <2>1, KeepsSelf DEF runVars, dmVars, Inv12
  <2>2. CASE AccountsNext /\ adapter = "A12"
    BY <1>2, <2>2, Step12 DEF AccountsNext
  <2>3. CASE AccountsNext /\ adapter # "A12"
    BY <2>3 DEF AccountsNext
  <2> QED
    BY <1>2, <2>1, <2>2, <2>3
<1>3. AccountsSpec => [](adapter = "A12" => Inv12)
  BY <1>1, <1>2, PTL DEF AccountsSpec
<1>4. (adapter = "A12" => Inv12) /\ [AccountsNext]_runVars
      => [adapter = "A12" =>
            \A p \in DOMAIN db :
               db[p].locked => \/ p \in DOMAIN db' /\ A12!Covered(db'[p]) = A12!Covered(db[p])
                               \/ A12!UserDeletes]_runVars
  BY <1>2 DEF Covers
<1> QED
  BY <1>3, <1>4, PTL DEF AccountsSpec, LockHolds

-----------------------------------------------------------------------------
(* Accounts of DM 1.1: commands on leaves. *)

LEMMA Answer11 ==
  ASSUME NEW x, Books(x), NEW ref, ref \notin Settled(x), NEW status
  PROVE  Settles(x, A11!SetStatus(x, ref, status), {ref}, {})
BY AnswerGiven DEF A11!SetStatus

LEMMA QuietAnswer11 ==
  ASSUME NEW x, Books(x), NEW y, Quiet(x, y), NEW ref, ref \notin Settled(x), NEW status
  PROVE  Settles(x, A11!SetStatus(y, ref, status), {ref}, {})
<1> DEFINE z == A11!SetStatus(y, ref, status)
<1>1. Books(y) /\ ref \notin Settled(y)
  BY QuietBooks
<1>2. Settles(y, z, {ref}, {})
  BY <1>1, Answer11
<1> HIDE DEF z
<1>3. Settles(x, z, {ref}, {})
  BY <1>2, QuietSettles
<1> QED
  BY <1>3 DEF z

\* SetDMFieldDataL.
Fields11 == {"URL", "ServerId", "SharedSecret", "UserName", "Password", "Name", "IAP", "Port",
             "MediumType", "Id"}
LEMMA Field11 ==
  ASSUME NEW leaf, A11!AcceptDMField(leaf)
  PROVE  A11!GetDMField[leaf] \in Fields11 \cup A11!AuthFields
BY DEF A11!AcceptDMField, A11!GetDMField, Fields11, A11!AuthFields

LEMMA PortSet11 ==
  ASSUME NEW x, NEW p, NEW obj
  PROVE  LET r == A11!SetPort(x, p, obj)
         IN  \/ r.x = x /\ r.err # "KErrNone"
             \/ r.x = PortAdded(x, p, obj.num) /\ r.err = "KErrNone"
<1> DEFINE longer == PortAdded(x, p, obj.num)
           refused == A11!PortError(obj)
           r == A11!SetPort(x, p, obj)
<1>1. r \in {[err |-> "KErrNone", x |-> longer], [err |-> refused, x |-> x]}
  BY Zenon DEF A11!SetPort, PortAdded
<1>2. refused # "KErrNone"
  BY DEF A11!PortError
<1> HIDE DEF r, longer, refused
<1>3. (r.x = longer /\ r.err = "KErrNone") \/ (r.x = x /\ r.err # "KErrNone")
  BY <1>1, <1>2
<1> QED
  BY <1>3 DEF r, longer

LEMMA DataSet11 ==
  ASSUME NEW x, HasState(x), NEW p, NEW obj, NEW field \in Fields11 \ {"Port"}
  PROVE  Quiet(x, A11!SetDMFieldData(x, p, obj, field).x)
<1> DEFINE r == A11!SetDMFieldData(x, p, obj, field)
           put(d) == [err |-> "KErrNone", x |-> [x EXCEPT !.db = d]]
           only(e) == [err |-> e, x |-> x]
<1>1. (\A d : put(d).x = [x EXCEPT !.db = d]) /\ (\A e : only(e).x = x)
  OBVIOUS
<1>2. \/ \E d : r = put(d)
      \/ \E e : r = only(e)
  <2> HIDE DEF put, only
  <2>1. /\ field = "URL" => r = put(A11!SetProfileServerURI(x.db, p, obj, x.mem.leafType))
        /\ field = "ServerId" => r = put(A11!SetProfileServerId(x.db, p, obj))
        /\ field = "SharedSecret" => r = put(A11!SetProfileServerPassword(x.db, p, obj))
        /\ field = "UserName" => r = put(A11!SetProfileUserName(x.db, p, obj))
        /\ field = "Password" => r = put(A11!SetProfilePassword(x.db, p, obj))
        /\ field = "Name" => r = put(A11!SetProfileDisplayName(x.db, p, obj))
        /\ field = "IAP" => \/ r = put(A11!SetProfileConnectionProperty(x.db, p, obj))
                            \/ r = only("KErrGeneral")
        /\ field = "MediumType" => r = only("KErrNone") \/ r = only(A11!SetProfileAddrType(obj))
        /\ field = "Id" => r = only("KErrGeneral")
    BY DEF A11!SetDMFieldData, put, only
  <2> HIDE DEF r
  <2> QED
    BY <2>1 DEF Fields11
<1> HIDE DEF r, put, only
<1>3. r.x = x \/ \E d : r.x = [x EXCEPT !.db = d]
  BY <1>1, <1>2
<1>4. Quiet(x, x) /\ \A d : Quiet(x, [x EXCEPT !.db = d])
  BY QuietSelf, QuietDb
<1>5. Quiet(x, r.x)
  BY <1>3, <1>4
<1> QED
  BY <1>5 DEF r

\* UpdateLeafObjectL once the item is known.
LEMMA Written11 ==
  ASSUME NEW x, Books(x), NEW p, NEW field \in Fields11 \cup A11!AuthFields, NEW obj, NEW ref,
         ref \notin Settled(x)
  PROVE  Settles(x, A11!Write(x, p, field, obj, ref), {ref}, {})
<1> DEFINE r == A11!SetDMFieldData(x, p, obj, field)
           z == A11!Write(x, p, field, obj, ref)
           d == A11!SetAuthInfo(x.db, p, field, obj)
           set == [x EXCEPT !.db = d]
<1>0. HasState(x)
  BY DEF Books
<1>1. /\ field \in A11!AuthFields => \/ z = A11!SetStatus(set, ref, "EOk")
                                     \/ z = A11!SetStatus(x, ref, "ENotFound")
      /\ field \in Fields11 => \/ z = A11!SetStatus(x, ref, "ENotFound")
                               \/ z = A11!SetStatus(r.x, ref, "EOk") /\ field # "Port"
                               \/ z = PortOwned(r.x, ref) /\ r.err = "KErrNone" /\ field = "Port"
                               \/ \E s : z = A11!SetStatus(r.x, ref, s) /\ r.err # "KErrNone"
  <2>1. [x EXCEPT !.db = A11!SetAuthInfo(@, p, field, obj)] = set
    BY <1>0 DEF HasState
  <2>2. field \in A11!AuthFields => \/ z = A11!SetStatus(set, ref, "EOk")
                                    \/ z = A11!SetStatus(x, ref, "ENotFound")
    BY <2>1, Zenon DEF A11!Write
  <2>3. ASSUME field \in Fields11
        PROVE  \/ z = A11!SetStatus(x, ref, "ENotFound")
               \/ z = A11!SetStatus(r.x, ref, "EOk") /\ field # "Port"
               \/ z = PortOwned(r.x, ref) /\ r.err = "KErrNone" /\ field = "Port"
               \/ \E s : z = A11!SetStatus(r.x, ref, s) /\ r.err # "KErrNone"
    <3> DEFINE plain ==
                 CASE r.err = "KErrNone" /\ field = "Port" ->
                        [r.x EXCEPT !.mem.ports[Len(r.x.mem.ports)] =
                                        [id |-> @.id, port |-> @.port, ref |-> ref]]
                   [] r.err = "KErrNone" /\ field # "Port" -> A11!SetStatus(r.x, ref, "EOk")
                   [] r.err = "KErrOverflow" -> A11!SetStatus(r.x, ref, "ETooLargeObject")
                   [] OTHER -> A11!SetStatus(r.x, ref, "EError")
    <3>1. field \notin A11!AuthFields
      BY <2>3 DEF Fields11, A11!AuthFields
    <3>2. z = A11!SetStatus(x, ref, "ENotFound") \/ z = plain
      BY <3>1, Zenon DEF A11!Write
    <3> HIDE DEF z, r
    <3>3. \/ plain = A11!SetStatus(r.x, ref, "EOk") /\ field # "Port"
          \/ plain = PortOwned(r.x, ref) /\ r.err = "KErrNone" /\ field = "Port"
          \/ plain = A11!SetStatus(r.x, ref, "ETooLargeObject") /\ r.err # "KErrNone"
          \/ plain = A11!SetStatus(r.x, ref, "EError") /\ r.err # "KErrNone"
      BY DEF PortOwned
    <3> HIDE DEF plain
    <3> QED
      BY <3>2, <3>3
  <2> QED
    BY <2>2, <2>3
<1>2. \A s : Settles(x, A11!SetStatus(x, ref, s), {ref}, {})
  BY Answer11
<1>3. \A s : Settles(x, A11!SetStatus(set, ref, s), {ref}, {})
  BY <1>0, QuietDb, QuietAnswer11
<1> HIDE DEF set, z
<1>4. CASE field \in A11!AuthFields
  BY <1>1, <1>2, <1>3, <1>4 DEF z
<1>5. CASE field \in Fields11 \ {"Port"}
  <2>1. Quiet(x, r.x)
    BY <1>0, <1>5, DataSet11
  <2> HIDE DEF r
  <2>2. \A s : Settles(x, A11!SetStatus(r.x, ref, s), {ref}, {})
    BY <2>1, QuietAnswer11
  <2> QED
    BY <1>1, <1>2, <1>5, <2>2 DEF z
<1>6. CASE field = "Port"
  <2> DEFINE w == PortAdded(x, p, obj.num)
             v == PortOwned(w, ref)
  <2>1. \/ r.x = x /\ r.err # "KErrNone"
        \/ r.x = w /\ r.err = "KErrNone"
    <3>1. r = A11!SetPort(x, p, obj)
      BY <1>6 DEF A11!SetDMFieldData
    <3> HIDE DEF r
    <3> QED
      BY <3>1, PortSet11
  <2>2. Settles(x, v, {ref}, {})
    BY PortWaits
  <2> HIDE DEF r, w
  <2> QED
    BY <1>1, <1>2, <1>6, <2>1, <2>2 DEF z, Fields11
<1> QED
  BY <1>4, <1>5, <1>6

\* UpdateLeafObjectL of a node that is not buffered, or is being executed.
LEMMA Stored11 ==
  ASSUME NEW x, Books(x), NEW luid, NEW leaf, NEW obj, NEW ref, ref \notin Settled(x)
  PROVE  Settles(x, A11!UpdateStored(x, luid, leaf, obj, ref), {ref}, {})
<1> DEFINE y == [x EXCEPT !.mem.parent = luid]
           field == A11!GetDMField[leaf]
           z == A11!UpdateStored(x, luid, leaf, obj, ref)
<1>1. \/ \E s : z = A11!SetStatus(x, ref, s)
      \/ \E s : z = A11!SetStatus(y, ref, s)
      \/ z = A11!Write(y, luid, field, obj, ref) /\ A11!AcceptDMField(leaf)
  BY Zenon DEF A11!UpdateStored
<1>2. Quiet(x, y)
  BY QuietParent DEF Books
<1> HIDE DEF y, z
<1>3. Books(y) /\ ref \notin Settled(y)
  BY <1>2, QuietBooks
<1>4. \A s : Settles(x, A11!SetStatus(x, ref, s), {ref}, {})
  BY Answer11
<1>5. \A s : Settles(x, A11!SetStatus(y, ref, s), {ref}, {})
  BY <1>2, QuietAnswer11
<1>6. ASSUME A11!AcceptDMField(leaf)
      PROVE  Settles(x, A11!Write(y, luid, field, obj, ref), {ref}, {})
  <2>1. field \in Fields11 \cup A11!AuthFields
    BY <1>6, Field11
  <2> HIDE DEF field
  <2>2. Settles(y, A11!Write(y, luid, field, obj, ref), {ref}, {})
    BY <1>3, <2>1, Written11
  <2> QED
    BY <1>2, <2>2, QuietSettles
<1> HIDE DEF field
<1>7. Settles(x, z, {ref}, {})
  BY <1>1, <1>4, <1>5, <1>6
<1> QED
  BY <1>7 DEF z

LEMMA SettlesSelf ==
  ASSUME NEW x, Books(x), NEW K
  PROVE  Settles(x, x, {}, K)
BY DEF Settles, SameRest

\* The leaves of a buffered node are written one after another.
LEMMA Replayed11 ==
  ASSUME NEW x, Books(x), NEW luid, NEW e, Distinct(e.leaves), RefsOf(e.leaves) \cap Settled(x) = {}
  PROVE  Settles(x, A11!Replay(x, luid, e), RefsOf(e.leaves), {})
<1> DEFINE N == Len(e.leaves)
           F(g, n) == IF n = 0 THEN x
                      ELSE A11!UpdateStored(g[n - 1], luid, e.leaves[n].leaf, e.leaves[n].obj,
                                            e.leaves[n].ref)
           Loops(m, g) == g = [n \in 0 .. m |-> F(g, n)]
           replayed == CHOOSE g : Loops(N, g)
           R(n) == {e.leaves[j].ref : j \in 1 .. n}
           S == {m \in Nat : \E g : Loops(m, g)}
           Done(n) == Settles(x, replayed[n], R(n), {})
           T == {n \in 0 .. N : Done(n)}
<1>0. N \in Nat /\ DOMAIN e.leaves = 1 .. N
  BY SeqDomain DEF Distinct
<1> HIDE DEF N
<1>1. 0 \in S
  <2>1. Loops(0, [n \in 0 .. 0 |-> x])
    OBVIOUS
  <2> QED
    BY <2>1
<1>2. ASSUME NEW m \in Nat, m \in S
      PROVE  m + 1 \in S
  <2>1. PICK g : Loops(m, g)
    BY <1>2
  <2> DEFINE h == [n \in 0 .. m + 1 |-> IF n <= m THEN g[n] ELSE F(g, n)]
  <2>2. ASSUME NEW n \in 0 .. m + 1
        PROVE  h[n] = F(h, n)
    <3>1. n # 0 => n - 1 \in 0 .. m /\ h[n - 1] = g[n - 1]
      OBVIOUS
    <3>2. F(h, n) = F(g, n)
      <4> HIDE DEF h
      <4> QED
        BY <3>1
    <3>3. n <= m => g[n] = F(g, n)
      <4> HIDE DEF F
      <4> QED
        BY <2>1
    <3> QED
      BY <3>2, <3>3
  <2>3. Loops(m + 1, h)
    BY <2>2
  <2> HIDE DEF h, Loops
  <2> QED
    BY <2>3
<1>3. \E g : Loops(N, g)
  <2>1. 0 .. N \subseteq S
    <3> HIDE DEF S
    <3> QED
      BY <1>0, <1>1, <1>2, InductionUpTo DEF S
  <2> HIDE DEF Loops
  <2> QED
    BY <1>0, <2>1
<1>4. Loops(N, replayed)
  BY <1>3
<1>5. \A n \in 0 .. N : replayed[n] = F(replayed, n)
  <2> HIDE DEF F
  <2> QED
    BY <1>4
<1>6. A11!Replay(x, luid, e) = replayed[N]
  BY DEF A11!Replay, replayed, N
<1> HIDE DEF replayed
<1>7. 0 \in T
  <2>1. replayed[0] = x /\ R(0) = {}
    BY <1>0, <1>5
  <2>2. Settles(x, x, {}, {})
    BY SettlesSelf
  <2>3. Done(0)
    BY <2>1, <2>2
  <2> HIDE DEF Done
  <2> QED
    BY <1>0, <2>3
<1>8. ASSUME NEW n \in 0 .. N - 1, n \in T
      PROVE  n + 1 \in T
  <2> DEFINE c == e.leaves[n + 1]
             y == replayed[n]
  <2>1. n + 1 \in 0 .. N /\ n + 1 \in DOMAIN e.leaves /\ (n + 1) - 1 = n /\ n + 1 # 0
    BY <1>0
  <2>2. replayed[n + 1] = A11!UpdateStored(y, luid, c.leaf, c.obj, c.ref)
    BY <1>5, <2>1
  <2>3. R(n + 1) = R(n) \cup {c.ref}
    BY <1>0
  <2>4. c.ref \notin R(n)
    <3>1. ASSUME NEW j \in 1 .. n, e.leaves[j].ref = c.ref
          PROVE  FALSE
      <4>1. j \in DOMAIN e.leaves /\ j # n + 1
        BY <1>0
      <4> QED
        BY <2>1, <3>1, <4>1 DEF Distinct
    <3> QED
      BY <3>1
  <2>5. Settles(x, y, R(n), {})
    BY <1>8
  <2>6. c.ref \in RefsOf(e.leaves)
    BY <2>1 DEF RefsOf
  <2> HIDE DEF R, c, y, T, F, S, Loops
  <2>7. Books(y) /\ c.ref \notin Settled(y)
    BY <2>4, <2>5, <2>6 DEF Settles
  <2>8. Settles(y, replayed[n + 1], {c.ref}, {})
    BY <2>2, <2>7, Stored11
  <2>9. Settles(x, replayed[n + 1], R(n) \cup {c.ref}, {})
    BY <2>5, <2>8, SettlesTransitive
  <2> QED
    BY <2>1, <2>3, <2>9 DEF T, Done
<1>9. N \in T
  <2>1. T \in SUBSET Nat
    OBVIOUS
  <2> HIDE DEF T
  <2>2. 0 .. N \subseteq T
    BY <1>0, <1>7, <1>8, <2>1, InductionUpTo
  <2> QED
    BY <1>0, <2>2
<1>10. R(N) = RefsOf(e.leaves)
  BY <1>0 DEF RefsOf
<1> QED
  BY <1>6, <1>9, <1>10

\* ExecuteBufferL.
LEMMA Opened11 ==
  ASSUME NEW x, Books(x), NEW name, NEW p, NEW ref, ref \notin Settled(x)
  PROVE  LET y == IF x.mem.complete
                      THEN A11!SetStatus(x, ref, "EError")
                      ELSE A11!SetStatus(A11!SetMapping(A11!CreateNewProfile(x, p), name, p), ref, "EOk")
         IN  Settles(x, y, {ref}, {})
<1> DEFINE d == A11!With(x.db, p, A11!NewProfile)
           w == [x EXCEPT !.db = d]
           n == A11!With(w.map, name, p)
           v == [w EXCEPT !.map = n]
<1>0. HasState(x)
  BY DEF Books
<1>1. A11!SetMapping(A11!CreateNewProfile(x, p), name, p) = v
  BY <1>0 DEF A11!SetMapping, A11!CreateNewProfile, HasState
<1> HIDE DEF d
<1>2. Quiet(x, w) /\ HasState(w)
  BY <1>0, QuietDb, OtherDb
<1> HIDE DEF n, w
<1>3. Quiet(w, v)
  BY <1>2, QuietMap
<1> HIDE DEF v
<1>4. Quiet(x, v)
  BY <1>2, <1>3, QuietTransitive
<1>5. Settles(x, A11!SetStatus(v, ref, "EOk"), {ref}, {})
  BY <1>4, QuietAnswer11
<1>6. Settles(x, A11!SetStatus(x, ref, "EError"), {ref}, {})
  BY Answer11
<1> QED
  BY <1>1, <1>5, <1>6

\* A node whose commands are settled leaves the buffer.
LEMMA NodeDone ==
  ASSUME NEW x, Ledger(x), NEW r, NEW Q, Settles(x, r, Q, {}), Q \subseteq OfNodes(x.mem.buffer),
         NEW t, IsNodes(t), OfNodes(t) = OfNodes(x.mem.buffer) \ Q
  PROVE  LET z == WithBuffer(r, t)
         IN  Moves(x, z, {}, {}) /\ z.mem.buffer = t
<1> DEFINE z == WithBuffer(r, t)
<1>1. Books(r) /\ DOMAIN r.mem = DOMAIN x.mem /\ Settled(r) = Settled(x) \cup Q
  BY DEF Settles, SameRest
<1>2. Books(z)
  BY <1>1, BufferChanged
<1>3. Settled(z) = Settled(r) /\ z.mem.buffer = t
  BY <1>1, BufferChanged
<1>4. DOMAIN z.mem = DOMAIN r.mem
  BY <1>1, BufferChanged
<1> HIDE DEF z
<1>5. Ledger(z)
  BY <1>1, <1>2, <1>3 DEF Ledger
<1>6. Moves(x, z, {}, {})
  BY <1>1, <1>3, <1>4, <1>5 DEF Moves, Accounted
<1> QED
  BY <1>3, <1>6 DEF z

LEMMA Executed11 ==
  ASSUME NEW x, Ledger(x), NEW i \in DOMAIN x.mem.buffer, NEW p, "ref" \notin DOMAIN x.mem.buffer[i]
  PROVE  LET z == A11!ExecuteBuffer(x, i, p)
         IN  Moves(x, z, {}, {}) /\ Shorter(x.mem.buffer, z.mem.buffer, i)
<1> DEFINE b == x.mem.buffer
           e == b[i]
           ref == A11!NodeRef(e.name)
           y == IF x.mem.complete
                    THEN A11!SetStatus(x, ref, "EError")
                    ELSE A11!SetStatus(A11!SetMapping(A11!CreateNewProfile(x, p), e.name, p), ref, "EOk")
           luid == IF x.mem.complete THEN A11!NoLuid ELSE p
           r == A11!Replay(y, luid, e)
           t == A11!RemoveAt(b, i)
           z == A11!ExecuteBuffer(x, i, p)
<1>1. /\ Books(x) /\ IsNodes(b) /\ OfNodes(b) \cap Settled(x) = {} /\ IsSeq(b)
  BY DEF Ledger, IsNodes
<1>2. z = [r EXCEPT !.mem.buffer = A11!RemoveAt(@, i)]
  BY DEF A11!ExecuteBuffer
<1>3. OfNode(e) = {ref} \cup RefsOf(e.leaves) /\ IsNode(e) /\ OfNode(e) \subseteq OfNodes(b)
      /\ ref \notin RefsOf(e.leaves)
  BY <1>1 DEF OfNode, Root, IsNodes, IsNode, OfNodes, A11!NodeRef, NodeRef
<1>4. Shorter(b, t, i)
  BY <1>1, EntryCut DEF A11!RemoveAt, RemoveAt
<1>5. /\ IsNodes(t) /\ OfNodes(t) = OfNodes(b) \ OfNode(e)
  BY <1>1, <1>4, NodeRemoved
<1> HIDE DEF ref, luid, z
<1>6. Settles(x, y, {ref}, {})
  BY <1>1, <1>3, Opened11
<1> HIDE DEF y
<1>7. Books(y) /\ RefsOf(e.leaves) \cap Settled(y) = {} /\ Distinct(e.leaves)
  BY <1>1, <1>3, <1>6 DEF Settles, IsNode
<1> HIDE DEF e
<1>8. Settles(y, r, RefsOf(e.leaves), {})
  BY <1>7, Replayed11
<1> HIDE DEF r
<1>9. Settles(x, r, OfNode(e), {})
  BY <1>3, <1>6, <1>8, SettlesTransitive
<1> HIDE DEF t
<1>10. Moves(x, WithBuffer(r, t), {}, {}) /\ WithBuffer(r, t).mem.buffer = t
  BY <1>1, <1>3, <1>5, <1>9, NodeDone DEF b
<1>11. z = WithBuffer(r, t)
  <2>1. r.mem.buffer = b /\ Books(r)
    BY <1>9 DEF Settles, SameRest
  <2> HIDE DEF b
  <2> QED
    BY <1>2, <2>1 DEF WithBuffer, Books, HasState, AccFields, t
<1> QED
  BY <1>4, <1>10, <1>11 DEF z, b

\* CompleteOutstandingCmdsL: nodes that are not complete.
EveryShaped(b) == \A i \in DOMAIN b : Shaped(b[i])
Ready11(x) == Ledger(x) /\ EveryShaped(x.mem.buffer)
Handled11(x, z, R) == Moves(x, z, R, {}) /\ EveryShaped(z.mem.buffer)

LEMMA ShapedShorter ==
  ASSUME NEW b, IsSeq(b), NEW i, NEW t, Shorter(b, t, i), i \in DOMAIN b, EveryShaped(b)
  PROVE  EveryShaped(t)
<1>1. /\ DOMAIN b = 1 .. Len(b) /\ Len(b) \in Nat /\ DOMAIN t = 1 .. Len(b) - 1
      /\ \A j \in DOMAIN t : t[j] = b[IF j < i THEN j ELSE j + 1]
  BY SeqDomain DEF Shorter
<1>2. \A j \in DOMAIN t : (IF j < i THEN j ELSE j + 1) \in DOMAIN b
  BY <1>1
<1> QED
  BY <1>1, <1>2 DEF EveryShaped

LEMMA ExecutedNext11 ==
  ASSUME NEW x, NEW y, Handled11(x, y, {}), NEW i \in DOMAIN y.mem.buffer, NEW p
  PROVE  LET z == A11!ExecuteBuffer(Completing(y), i, p)
         IN  Handled11(x, z, {}) /\ Len(z.mem.buffer) = Len(y.mem.buffer) - 1
<1> DEFINE w == Completing(y)
           z == A11!ExecuteBuffer(w, i, p)
<1>1. Ledger(y) /\ IsSeq(y.mem.buffer)
  BY DEF Handled11, Moves, Ledger, IsNodes
<1>2. /\ Ledger(w) /\ Accounted(w) = Accounted(y) /\ DOMAIN w.mem = DOMAIN y.mem
      /\ w.mem.buffer = y.mem.buffer
  BY <1>1, CompletingSame
<1> HIDE DEF w
<1>3. i \in DOMAIN w.mem.buffer /\ "ref" \notin DOMAIN w.mem.buffer[i]
  BY <1>2 DEF Handled11, EveryShaped, Shaped
<1>4. Moves(w, z, {}, {}) /\ Shorter(w.mem.buffer, z.mem.buffer, i)
  BY <1>2, <1>3, Executed11
<1> HIDE DEF z
<1>5. Moves(x, z, {}, {})
  <2>1. Moves(y, z, {}, {})
    BY <1>2, <1>4 DEF Moves
  <2> QED
    BY <2>1, MovesTransitive DEF Handled11
<1>6. EveryShaped(z.mem.buffer) /\ Len(z.mem.buffer) = Len(y.mem.buffer) - 1
  BY <1>1, <1>2, <1>4, ShapedShorter DEF Handled11, Shorter
<1> QED
  BY <1>5, <1>6 DEF Handled11, z, w

LEMMA Everything11 ==
  ASSUME NEW x, Ready11(x)
  PROVE  Handled11(x, A11!ExecuteEvery(x), {})
<1> DEFINE N == (Len(x.mem.buffer) + 1) \div 2
           F(g, n) == IF n = 0 THEN x
                      ELSE A11!ExecuteBuffer(Completing(g[n - 1]), n, A11!NoLuid)
           Loops(m, g) == g = [n \in 0 .. m |-> F(g, n)]
           executed == CHOOSE g : Loops(N, g)
           S == {m \in Nat : \E g : Loops(m, g)}
           Done(n) == /\ Handled11(x, executed[n], {})
                      /\ Len(executed[n].mem.buffer) = Len(x.mem.buffer) - n
           T == {n \in 0 .. N : Done(n)}
<1>00. Len(x.mem.buffer) \in Nat /\ Ledger(x)
  <2>1. IsSeq(x.mem.buffer)
    BY DEF Ready11, Ledger, IsNodes
  <2> QED
    BY <2>1 DEF IsSeq, Ready11
<1>0. N \in Nat /\ 2 * N <= Len(x.mem.buffer) + 1
  BY <1>00, Halved
<1> HIDE DEF N
<1>1. 0 \in S
  <2>1. Loops(0, [n \in 0 .. 0 |-> x])
    OBVIOUS
  <2> QED
    BY <2>1
<1>2. ASSUME NEW m \in Nat, m \in S
      PROVE  m + 1 \in S
  <2>1. PICK g : Loops(m, g)
    BY <1>2
  <2> DEFINE h == [n \in 0 .. m + 1 |-> IF n <= m THEN g[n] ELSE F(g, n)]
  <2>2. ASSUME NEW n \in 0 .. m + 1
        PROVE  h[n] = F(h, n)
    <3>1. n # 0 => n - 1 \in 0 .. m /\ h[n - 1] = g[n - 1]
      OBVIOUS
    <3>2. F(h, n) = F(g, n)
      <4> HIDE DEF h
      <4> QED
        BY <3>1
    <3>3. n <= m => g[n] = F(g, n)
      <4> HIDE DEF F
      <4> QED
        BY <2>1
    <3> QED
      BY <3>2, <3>3
  <2>3. Loops(m + 1, h)
    BY <2>2
  <2> HIDE DEF h, Loops
  <2> QED
    BY <2>3
<1>3. \E g : Loops(N, g)
  <2>1. 0 .. N \subseteq S
    <3> HIDE DEF S
    <3> QED
      BY <1>0, <1>1, <1>2, InductionUpTo DEF S
  <2> HIDE DEF Loops
  <2> QED
    BY <1>0, <2>1
<1>4. Loops(N, executed)
  BY <1>3
<1>5. \A n \in 0 .. N : executed[n] = F(executed, n)
  <2> HIDE DEF F
  <2> QED
    BY <1>4
<1>6. A11!ExecuteEvery(x) = executed[N]
  BY DEF A11!ExecuteEvery, Completing, WithComplete, executed, N
<1> HIDE DEF executed
<1>7. 0 \in T
  <2>1. executed[0] = x
    BY <1>0, <1>5
  <2>2. Handled11(x, x, {})
    BY <1>00, MovesSelf DEF Handled11, Ready11
  <2>3. Done(0)
    BY <1>00, <2>1, <2>2
  <2> HIDE DEF Done
  <2> QED
    BY <1>0, <2>3
<1>8. ASSUME NEW n \in 0 .. N - 1, n \in T
      PROVE  n + 1 \in T
  <2> DEFINE y == executed[n]
  <2>1. n + 1 \in 0 .. N /\ (n + 1) - 1 = n /\ n + 1 # 0
    BY <1>0
  <2>2. executed[n + 1] = A11!ExecuteBuffer(Completing(y), n + 1, A11!NoLuid)
    BY <1>5, <2>1
  <2>3. Handled11(x, y, {}) /\ Len(y.mem.buffer) = Len(x.mem.buffer) - n
    BY <1>8
  <2> HIDE DEF y, T, F, S, Loops
  <2>4. IsSeq(y.mem.buffer)
    BY <2>3 DEF Handled11, Moves, Ledger, IsNodes
  <2>5. n + 1 \in DOMAIN y.mem.buffer
    <3>1. n + 1 >= 1 /\ n + 1 <= Len(x.mem.buffer) - n /\ n + 1 \in Nat
      BY <1>0, <1>00
    <3>2. DOMAIN y.mem.buffer = 1 .. Len(y.mem.buffer)
      BY <2>4, SeqDomain
    <3> QED
      BY <1>00, <2>3, <3>1, <3>2
  <2>6. /\ Handled11(x, executed[n + 1], {})
        /\ Len(executed[n + 1].mem.buffer) = Len(y.mem.buffer) - 1
    <3>1. ASSUME NEW i \in DOMAIN y.mem.buffer, NEW p
          PROVE  /\ Handled11(x, A11!ExecuteBuffer(Completing(y), i, p), {})
                 /\ Len(A11!ExecuteBuffer(Completing(y), i, p).mem.buffer)
                    = Len(y.mem.buffer) - 1
      BY <2>3, ExecutedNext11
    <3> QED
      BY <2>2, <2>5, <3>1
  <2>7. Len(executed[n + 1].mem.buffer) = Len(x.mem.buffer) - (n + 1)
    <3> DEFINE a == Len(x.mem.buffer)
               b == Len(y.mem.buffer)
               c == Len(executed[n + 1].mem.buffer)
    <3>1. a \in Nat /\ n \in Nat /\ b = a - n /\ c = b - 1
      BY <1>0, <1>00, <2>3, <2>6
    <3> HIDE DEF a, b, c
    <3>2. c = a - (n + 1)
      BY <3>1
    <3> QED
      BY <3>2 DEF a, c
  <2> QED
    BY <2>1, <2>6, <2>7 DEF T, Done
<1>9. N \in T
  <2>1. T \in SUBSET Nat
    OBVIOUS
  <2> HIDE DEF T
  <2>2. 0 .. N \subseteq T
    BY <1>0, <1>7, <1>8, <2>1, InductionUpTo
  <2> QED
    BY <1>0, <2>2
<1>10. Handled11(x, executed[N], {})
  BY <1>9
<1> HIDE DEF T, F
<1> QED
  BY <1>6, <1>10

\* The ports that wait.
LEMMA PortApplied11 ==
  ASSUME NEW x, HasState(x), Distinct(x.said), NEW e, e.ref \notin Answered(x)
  PROVE  Answers(x, A11!ApplyPort(x, e), {e.ref})
<1> DEFINE d == A11!SetProfileConnectionPortNr(x.db, e, "EDMUnset")
           w == [x EXCEPT !.db = d]
           y == A11!ApplyPort(x, e)
<1>1. y = WithAnswer(x, e.ref, "EError") \/ y = WithAnswer(w, e.ref, "EOk")
  <2>1. [x EXCEPT !.db = A11!SetProfileConnectionPortNr(@, e, "EDMUnset")] = w
    BY DEF HasState
  <2> QED
    BY <2>1, Zenon DEF A11!ApplyPort, A11!SetStatus, WithAnswer
<1> HIDE DEF d, y
<1>2. HasState(w) /\ w.mem = x.mem /\ w.said = x.said
  BY OtherDb
<1> HIDE DEF w
<1>3. Answered(w) = Answered(x)
  BY <1>2 DEF Answered
<1>4. Answers(w, WithAnswer(w, e.ref, "EOk"), {e.ref})
  BY <1>2, <1>3, AnswerNext
<1>5. Answers(x, WithAnswer(x, e.ref, "EError"), {e.ref})
  BY AnswerNext
<1> QED
  BY <1>1, <1>2, <1>3, <1>4, <1>5 DEF Answers, y

LEMMA EveryPort11 ==
  ASSUME NEW x, Books(x)
  PROVE  Answers(x, A11!ApplyPorts(x), RefsOf(x.mem.ports))
<1> DEFINE N == Len(x.mem.ports)
           F(g, n) == IF n = 0 THEN x ELSE A11!ApplyPort(g[n - 1], x.mem.ports[n])
           Loops(m, g) == g = [n \in 0 .. m |-> F(g, n)]
           applied == CHOOSE g : Loops(N, g)
           R(n) == {x.mem.ports[j].ref : j \in 1 .. n}
           S == {m \in Nat : \E g : Loops(m, g)}
           Done(n) == Answers(x, applied[n], R(n))
           T == {n \in 0 .. N : Done(n)}
<1>0. N \in Nat /\ DOMAIN x.mem.ports = 1 .. N
  BY SeqDomain DEF Books, Distinct
<1> HIDE DEF N
<1>1. 0 \in S
  <2>1. Loops(0, [n \in 0 .. 0 |-> x])
    OBVIOUS
  <2> QED
    BY <2>1
<1>2. ASSUME NEW m \in Nat, m \in S
      PROVE  m + 1 \in S
  <2>1. PICK g : Loops(m, g)
    BY <1>2
  <2> DEFINE h == [n \in 0 .. m + 1 |-> IF n <= m THEN g[n] ELSE F(g, n)]
  <2>2. ASSUME NEW n \in 0 .. m + 1
        PROVE  h[n] = F(h, n)
    <3>1. n # 0 => n - 1 \in 0 .. m /\ h[n - 1] = g[n - 1]
      OBVIOUS
    <3>2. F(h, n) = F(g, n)
      <4> HIDE DEF h
      <4> QED
        BY <3>1
    <3>3. n <= m => g[n] = F(g, n)
      <4> HIDE DEF F
      <4> QED
        BY <2>1
    <3> QED
      BY <3>2, <3>3
  <2>3. Loops(m + 1, h)
    BY <2>2
  <2> HIDE DEF h, Loops
  <2> QED
    BY <2>3
<1>3. \E g : Loops(N, g)
  <2>1. 0 .. N \subseteq S
    <3> HIDE DEF S
    <3> QED
      BY <1>0, <1>1, <1>2, InductionUpTo DEF S
  <2> HIDE DEF Loops
  <2> QED
    BY <1>0, <2>1
<1>4. Loops(N, applied)
  BY <1>3
<1>5. \A n \in 0 .. N : applied[n] = F(applied, n)
  <2> HIDE DEF F
  <2> QED
    BY <1>4
<1>6. A11!ApplyPorts(x) = applied[N]
  BY DEF A11!ApplyPorts, applied, N
<1> HIDE DEF applied
<1>7. 0 \in T
  <2>1. applied[0] = x /\ R(0) = {}
    BY <1>0, <1>5
  <2>2. Answers(x, x, {})
    BY DEF Answers, Books
  <2>3. Done(0)
    BY <2>1, <2>2
  <2> HIDE DEF Done
  <2> QED
    BY <1>0, <2>3
<1>8. ASSUME NEW n \in 0 .. N - 1, n \in T
      PROVE  n + 1 \in T
  <2> DEFINE c == x.mem.ports[n + 1]
             y == applied[n]
             z == applied[n + 1]
  <2>1. n + 1 \in 0 .. N /\ n + 1 \in DOMAIN x.mem.ports /\ (n + 1) - 1 = n /\ n + 1 # 0
    BY <1>0
  <2>2. z = A11!ApplyPort(y, c)
    BY <1>5, <2>1
  <2>3. R(n + 1) = R(n) \cup {c.ref}
    BY <1>0
  <2>4. c.ref \notin R(n)
    <3>1. ASSUME NEW j \in 1 .. n, x.mem.ports[j].ref = c.ref
          PROVE  FALSE
      <4>1. j \in DOMAIN x.mem.ports /\ j # n + 1
        BY <1>0
      <4> QED
        BY <2>1, <3>1, <4>1 DEF Distinct, Books
    <3> QED
      BY <3>1
  <2>5. Answers(x, y, R(n))
    BY <1>8
  <2>6. c.ref \notin Answered(x)
    BY <2>1 DEF Books, RefsOf
  <2> HIDE DEF R, c, y, z, T, F, S, Loops
  <2>7. Answers(y, z, {c.ref})
    BY <2>2, <2>4, <2>5, <2>6, PortApplied11 DEF Answers
  <2>8. Answers(x, z, R(n) \cup {c.ref})
    BY <2>5, <2>7 DEF Answers
  <2> QED
    BY <2>1, <2>3, <2>8 DEF T, Done, z
<1>9. N \in T
  <2>1. T \in SUBSET Nat
    OBVIOUS
  <2> HIDE DEF T
  <2>2. 0 .. N \subseteq T
    BY <1>0, <1>7, <1>8, <2>1, InductionUpTo
  <2> QED
    BY <1>0, <2>2
<1>10. R(N) = RefsOf(x.mem.ports)
  BY <1>0 DEF RefsOf
<1> QED
  BY <1>6, <1>9, <1>10

LEMMA Completed11 ==
  ASSUME NEW x, Ready11(x)
  PROVE  Handled11(x, A11!CompleteOutstandingCmds(x), {})
<1> DEFINE u == A11!ExecuteEvery(x)
           w == A11!ApplyPorts(u)
           y == NoPorts(w)
           z == WithComplete(y, FALSE)
<1>2. Handled11(x, u, {})
  BY Everything11
<1> HIDE DEF u
<1>3. Ledger(u)
  BY <1>2 DEF Handled11, Moves
<1>4. Answers(u, w, RefsOf(u.mem.ports))
  BY <1>3, EveryPort11 DEF Ledger
<1>1. A11!CompleteOutstandingCmds(x) = z
  <2> HIDE DEF w
  <2>1. A11!CompleteOutstandingCmds(x) = [w EXCEPT !.mem.ports = << >>, !.mem.complete = FALSE]
    BY DEF A11!CompleteOutstandingCmds, w, u
  <2> QED
    BY <1>4, <2>1 DEF Answers, HasState, NoPorts, WithComplete
<1> HIDE DEF w
<1>5. Moves(u, y, {}, {}) /\ y.mem.buffer = u.mem.buffer
  BY <1>3, <1>4, PortsDone
<1> HIDE DEF y
<1>6. /\ Ledger(z) /\ Accounted(z) = Accounted(y) /\ DOMAIN z.mem = DOMAIN y.mem
      /\ z.mem.buffer = y.mem.buffer
  BY <1>5, CompleteChanged DEF Moves
<1> HIDE DEF z
<1>7. Moves(u, z, {}, {})
  BY <1>5, <1>6 DEF Moves
<1>8. Moves(x, z, {}, {})
  BY <1>2, <1>7, MovesTransitive DEF Handled11
<1> QED
  BY <1>1, <1>2, <1>5, <1>6, <1>8 DEF Handled11

\* A leaf that waits with its node.
WithNode(x, i, f) == WithBuffer(x, [x.mem.buffer EXCEPT ![i] = f])
LEMMA LeafAdded ==
  ASSUME NEW x, Ledger(x), NEW i \in DOMAIN x.mem.buffer, NEW c, c.ref \notin Accounted(x),
         NEW f, Root(f) = Root(x.mem.buffer[i]), f.leaves = Append(x.mem.buffer[i].leaves, c)
  PROVE  Moves(x, WithNode(x, i, f), {c.ref}, {})
<1> DEFINE b == x.mem.buffer
           t == [b EXCEPT ![i] = f]
           y == WithBuffer(x, t)
<1>1. /\ IsNodes(b) /\ IsSeq(b) /\ IsNode(b[i]) /\ OfNode(b[i]) \subseteq OfNodes(b)
      /\ c.ref \notin OfNodes(b) /\ c.ref \notin Settled(x) /\ Books(x)
      /\ OfNodes(b) \cap Settled(x) = {}
  BY DEF Ledger, IsNodes, Accounted, OfNodes
<1>2. Distinct(b[i].leaves) /\ c.ref \notin RefsOf(b[i].leaves) /\ Root(b[i]) # c.ref
  BY <1>1 DEF OfNode, IsNode
<1>3. Distinct(f.leaves) /\ RefsOf(f.leaves) = RefsOf(b[i].leaves) \cup {c.ref}
  BY <1>2, DistinctAppended
<1>4. IsNode(f) /\ OfNode(f) = OfNode(b[i]) \cup {c.ref}
  BY <1>1, <1>2, <1>3 DEF IsNode, OfNode
<1>5. IsNodes(t) /\ OfNodes(t) = OfNodes(b) \cup {c.ref} /\ DOMAIN t = DOMAIN b
  BY <1>1, <1>4, NodeReplaced
<1> HIDE DEF t
<1>7. Books(y)
  BY <1>1, BufferChanged
<1>8. Settled(y) = Settled(x)
  BY <1>1, BufferChanged
<1>9. y.mem.buffer = t /\ DOMAIN y.mem = DOMAIN x.mem
  BY <1>1, BufferChanged
<1> HIDE DEF y
<1>10. Ledger(y)
  BY <1>1, <1>5, <1>7, <1>8, <1>9 DEF Ledger
<1>11. Moves(x, y, {c.ref}, {})
  BY <1>5, <1>8, <1>9, <1>10 DEF Moves, Accounted, b
<1> QED
  BY <1>11 DEF y, t, b, WithNode

LEMMA NodeChanged ==
  ASSUME NEW x, Books(x), NEW i \in DOMAIN x.mem.buffer, NEW f
  PROVE  LET t == WithNode(x, i, f).mem.buffer
         IN  DOMAIN t = DOMAIN x.mem.buffer
             /\ \A j \in DOMAIN t : t[j] = IF j = i THEN f ELSE x.mem.buffer[j]
<1> DEFINE t == [x.mem.buffer EXCEPT ![i] = f]
<1>1. DOMAIN t = DOMAIN x.mem.buffer /\ \A j \in DOMAIN t : t[j] = IF j = i THEN f ELSE x.mem.buffer[j]
  OBVIOUS
<1>2. WithNode(x, i, f) = WithBuffer(x, t)
  BY Zenon DEF WithNode
<1> HIDE DEF t
<1>3. WithBuffer(x, t).mem.buffer = t
  BY BufferChanged
<1> QED
  BY <1>1, <1>2, <1>3

LEMMA QuietHandled11 ==
  ASSUME NEW x, Ready11(x), NEW y, Quiet(x, y)
  PROVE  Ready11(y) /\ Accounted(y) = Accounted(x)
BY QuietLedger DEF Ready11, Quiet, SameRest

LEMMA SettlesHandled11 ==
  ASSUME NEW x, Ready11(x), NEW z, NEW ref, Settles(x, z, {ref}, {}), ref \notin Accounted(x)
  PROVE  Handled11(x, z, {ref})
<1>1. Moves(x, z, {ref}, {})
  BY SettlesMoves DEF Ready11, Accounted
<1>2. z.mem.buffer = x.mem.buffer
  BY DEF Settles, SameRest
<1> QED
  BY <1>1, <1>2 DEF Handled11, Ready11

\* AddLeafBufferL.
LEMMA BufferedLeaf11 ==
  ASSUME NEW x, Ready11(x), NEW i \in DOMAIN x.mem.buffer, NEW leaf, NEW obj, NEW ref,
         ref \notin Accounted(x), NEW p
  PROVE  Handled11(x, A11!AddLeafBuffer(x, i, leaf, obj, ref, p), {ref})
<1> DEFINE c == [leaf |-> leaf, obj |-> obj, ref |-> ref]
           e == x.mem.buffer[i]
           f == [e EXCEPT !.leaves = Append(e.leaves, c)]
           y == WithNode(x, i, f)
           w == A11!ExecuteBuffer(y, i, p)
           z == A11!AddLeafBuffer(x, i, leaf, obj, ref, p)
<1>0. Ledger(x) /\ Shaped(e) /\ Books(x)
  BY DEF Ready11, EveryShaped, Ledger
<1>1. z = y \/ z = w
  <2> DEFINE v == [x EXCEPT !.mem.buffer[i].leaves = Append(e.leaves, c)]
  <2>1. z = v \/ z = A11!ExecuteBuffer(v, i, p)
    BY Zenon DEF A11!AddLeafBuffer
  <2> HIDE DEF c
  <2>2. v = y
    BY <1>0 DEF WithNode, WithBuffer, Books, HasState, AccFields
  <2> HIDE DEF y, v
  <2> QED
    BY <2>1, <2>2
<1>2. c.ref = ref
  OBVIOUS
<1> HIDE DEF c, z
<1>3. f.leaves = Append(e.leaves, c) /\ f.name = e.name /\ DOMAIN f = DOMAIN e
  BY <1>0 DEF Shaped
<1> HIDE DEF f
<1>4. Shaped(f) /\ Root(f) = Root(e)
  BY <1>0, <1>3 DEF Shaped, Root
<1>5. /\ Moves(x, y, {ref}, {}) /\ DOMAIN y.mem.buffer = DOMAIN x.mem.buffer
      /\ \A j \in DOMAIN y.mem.buffer : y.mem.buffer[j] = IF j = i THEN f ELSE x.mem.buffer[j]
  <2>1. c.ref \notin Accounted(x)
    BY <1>2
  <2>2. Moves(x, y, {c.ref}, {})
    BY <1>0, <1>3, <1>4, <2>1, LeafAdded
  <2>3. DOMAIN y.mem.buffer = DOMAIN x.mem.buffer
    BY <1>0, NodeChanged
  <2>4. \A j \in DOMAIN y.mem.buffer : y.mem.buffer[j] = IF j = i THEN f ELSE x.mem.buffer[j]
    BY <1>0, NodeChanged
  <2> QED
    BY <1>2, <2>2, <2>3, <2>4
<1> HIDE DEF e, y
<1>6. EveryShaped(y.mem.buffer)
  BY <1>4, <1>5 DEF EveryShaped, Ready11
<1>7. Ledger(y) /\ i \in DOMAIN y.mem.buffer /\ "ref" \notin DOMAIN y.mem.buffer[i]
      /\ IsSeq(y.mem.buffer)
  BY <1>5, <1>6 DEF Moves, EveryShaped, Shaped, Ledger, IsNodes
<1>8. Moves(y, w, {}, {}) /\ Shorter(y.mem.buffer, w.mem.buffer, i)
  BY <1>7, Executed11
<1> HIDE DEF w
<1>9. Moves(x, w, {ref}, {})
  BY <1>5, <1>8, MovesTransitive
<1>10. EveryShaped(w.mem.buffer)
  BY <1>6, <1>7, <1>8, ShapedShorter
<1> QED
  BY <1>1, <1>5, <1>6, <1>9, <1>10 DEF Handled11, z

\* UpdateLeafObjectL.
LEMMA Buffered11 ==
  ASSUME NEW x, IsSeq(x.mem.buffer), NEW name
  PROVE  A11!BufferIndex(x, name) > 0 => A11!BufferIndex(x, name) \in DOMAIN x.mem.buffer
<1> DEFINE b == x.mem.buffer
           I == {i \in 1 .. Len(b) : b[i].name = name}
<1>1. DOMAIN b = 1 .. Len(b) /\ Len(b) \in Nat
  BY SeqDomain
<1>2. A11!BufferIndex(x, name) = IF I # {} THEN A11!Min(I) ELSE 0
  BY DEF A11!BufferIndex, A11!SelectInSeq
<1>3. I \subseteq DOMAIN b /\ I \in SUBSET Nat
  BY <1>1
<1> HIDE DEF b, I
<1>4. I # {} => A11!Min(I) \in I
  BY <1>3, LeastNumber DEF A11!Min
<1> QED
  BY <1>2, <1>3, <1>4 DEF b

LEMMA Updated11 ==
  ASSUME NEW x, Ready11(x), NEW name, NEW leaf, NEW obj, NEW ref, ref \notin Accounted(x), NEW p
  PROVE  Handled11(x, A11!UpdateLeafObject(x, name, leaf, obj, ref, p), {ref})
<1> DEFINE i == A11!BufferIndex(x, name)
           luid == A11!Luid(x.map, name)
           stored == A11!UpdateStored(x, luid, leaf, obj, ref)
           added == A11!AddLeafBuffer(x, i, leaf, obj, ref, p)
           z == A11!UpdateLeafObject(x, name, leaf, obj, ref, p)
<1>1. (i > 0 /\ z = added) \/ z = stored
  BY DEF A11!UpdateLeafObject
<1>2. i > 0 => i \in DOMAIN x.mem.buffer
  BY Buffered11 DEF Ready11, Ledger, IsNodes
<1> HIDE DEF i, luid
<1>3. Settles(x, stored, {ref}, {})
  BY Stored11 DEF Ready11, Ledger, Accounted
<1> HIDE DEF stored, z
<1>4. Handled11(x, stored, {ref})
  BY <1>3, SettlesHandled11
<1>5. i > 0 => Handled11(x, added, {ref})
  BY <1>2, BufferedLeaf11
<1> QED
  BY <1>1, <1>4, <1>5 DEF z

\* AddNodeObjectL.
LEMMA NodeBuffered11 ==
  ASSUME NEW x, Ready11(x), NEW name, A11!NodeRef(name) \notin Accounted(x)
  PROVE  Handled11(x, A11!AddNodeBuffer(x, name, A11!NodeRef(name)), {A11!NodeRef(name)})
<1> DEFINE ref == A11!NodeRef(name)
           e == [name |-> name, leaves |-> << >>]
           refused == A11!SetStatus(x, ref, "EAlreadyExists")
           b == Append(x.mem.buffer, e)
           y == [x EXCEPT !.mem.buffer = Append(@, e)]
           z == A11!AddNodeBuffer(x, name, ref)
<1>0. Ledger(x) /\ Books(x) /\ HasState(x) /\ IsSeq(x.mem.buffer)
  BY DEF Ready11, Ledger, Books, IsNodes
<1>1. z = refused \/ z = y
  BY Zenon DEF A11!AddNodeBuffer
<1>2. e.name = name /\ e.leaves = << >> /\ DOMAIN e = {"name", "leaves"}
  OBVIOUS
<1> HIDE DEF e
<1>3. Root(e) = ref /\ Shaped(e)
  BY <1>2 DEF Root, A11!NodeRef, NodeRef, Shaped
<1>4. IsNode(e) /\ OfNode(e) = {ref}
  BY <1>2, <1>3, DistinctEmpty DEF IsNode, OfNode
<1> HIDE DEF ref
<1>5. Moves(x, y, OfNode(e), {})
  <2>1. OfNode(e) \cap Accounted(x) = {}
    BY <1>4 DEF ref
  <2> QED
    BY <1>0, <1>4, <2>1, NodeWaits
<1>6. EveryShaped(b)
  <2>1. /\ DOMAIN b = DOMAIN x.mem.buffer \cup {Len(x.mem.buffer) + 1}
        /\ b[Len(x.mem.buffer) + 1] = e
        /\ \A j \in DOMAIN x.mem.buffer : b[j] = x.mem.buffer[j]
    BY <1>0, SeqAppend, SMTT(40)
  <2> HIDE DEF b
  <2> QED
    BY <1>3, <2>1 DEF EveryShaped, Ready11
<1> HIDE DEF b
<1>7. y.mem.buffer = b
  <2>1. y = WithBuffer(x, b)
    BY <1>0 DEF WithBuffer, Books, HasState, AccFields, b
  <2>2. WithBuffer(x, b).mem.buffer = b
    BY <1>0, BufferChanged
  <2> HIDE DEF y
  <2> QED
    BY <2>1, <2>2
<1> HIDE DEF y
<1>8. Handled11(x, y, {ref})
  BY <1>4, <1>5, <1>6, <1>7 DEF Handled11
<1>9. Settles(x, refused, {ref}, {})
  BY <1>0, Answer11 DEF Accounted, ref
<1> HIDE DEF refused
<1>10. Handled11(x, refused, {ref})
  BY <1>9, SettlesHandled11 DEF ref
<1> HIDE DEF z
<1> QED
  BY <1>1, <1>8, <1>10 DEF z, ref

LEMMA HandledAfter11 ==
  ASSUME NEW x, Ready11(x), NEW y, Quiet(x, y), NEW z, NEW R, Handled11(y, z, R)
  PROVE  Handled11(x, z, R)
<1>1. Moves(x, z, R, {})
  BY MovesQuiet DEF Handled11, Ready11
<1> QED
  BY <1>1 DEF Handled11

LEMMA NodeAdded11 ==
  ASSUME NEW x, Ready11(x), NEW name, A11!NodeRef(name) \notin Accounted(x)
  PROVE  Handled11(x, A11!AddNodeObject(x, name, A11!NodeRef(name)), {A11!NodeRef(name)})
<1> DEFINE ref == A11!NodeRef(name)
           p == A11!Luid(x.map, name)
           y == IF p = A11!NoLuid THEN x ELSE [x EXCEPT !.mem.parent = p]
           z == A11!AddNodeObject(x, name, ref)
<1>0. Ledger(x) /\ Books(x) /\ HasState(x)
  BY DEF Ready11, Ledger, Books
<1>1. z = A11!SetStatus(y, ref, "EAlreadyExists") \/ z = A11!AddNodeBuffer(y, name, ref)
  BY Zenon DEF A11!AddNodeObject
<1> HIDE DEF p
<1>2. Quiet(x, y)
  BY <1>0, QuietSelf, QuietParent
<1> HIDE DEF y, z
<1>3. Ready11(y) /\ Accounted(y) = Accounted(x)
  BY <1>2, QuietHandled11
<1>4. Settles(x, A11!SetStatus(y, ref, "EAlreadyExists"), {ref}, {})
  BY <1>0, <1>2, QuietAnswer11 DEF Accounted
<1>5. Handled11(x, A11!SetStatus(y, ref, "EAlreadyExists"), {ref})
  BY <1>4, SettlesHandled11
<1>6. Handled11(y, A11!AddNodeBuffer(y, name, ref), {ref})
  BY <1>3, NodeBuffered11
<1>7. Handled11(x, A11!AddNodeBuffer(y, name, ref), {ref})
  BY <1>2, <1>6, HandledAfter11
<1> QED
  BY <1>1, <1>5, <1>7 DEF z

\* A command that is answered at once.
AtOnce11(x, z, ref) == \E y, s : Quiet(x, y) /\ z = A11!SetStatus(y, ref, s)

LEMMA AtOnceHandled11 ==
  ASSUME NEW x, Ready11(x), NEW ref, ref \notin Accounted(x), NEW z, AtOnce11(x, z, ref)
  PROVE  Handled11(x, z, {ref}) /\ ref \in Answered(z)
<1>1. PICK y, s : Quiet(x, y) /\ z = A11!SetStatus(y, ref, s)
  BY DEF AtOnce11
<1>2. Settles(x, z, {ref}, {})
  BY <1>1, QuietAnswer11 DEF Ready11, Ledger, Accounted
<1>3. Ledger(y) /\ HasState(y)
  BY <1>1, QuietLedger DEF Ready11, Quiet
<1>4. ref \in Answered(z)
  <2> DEFINE a == [ref |-> ref, status |-> s]
             t == Append(y.said, a)
  <2>1. IsSeq(y.said)
    BY <1>3 DEF Ledger, Books, Distinct
  <2>2. t[Len(y.said) + 1] = a /\ Len(y.said) + 1 \in DOMAIN t
    BY <2>1, SeqAppend
  <2>3. z.said = t
    BY <1>1, <1>3 DEF A11!SetStatus, HasState
  <2>4. a.ref = ref
    OBVIOUS
  <2> HIDE DEF a, t
  <2> QED
    BY <2>2, <2>3, <2>4 DEF Answered
<1> QED
  BY <1>2, <1>4, SettlesHandled11

LEMMA Mappings11 ==
  ASSUME NEW x, HasState(x), NEW ref, NEW s
  PROVE  /\ AtOnce11(x, A11!SetStatus(x, ref, s), ref)
         /\ \A n : AtOnce11(x, A11!SetStatus([x EXCEPT !.map = n], ref, s), ref)
         /\ \A d : AtOnce11(x, A11!SetStatus([x EXCEPT !.db = d], ref, s), ref)
<1>1. AtOnce11(x, A11!SetStatus(x, ref, s), ref)
  BY QuietSelf DEF AtOnce11
<1>2. ASSUME NEW n
      PROVE  AtOnce11(x, A11!SetStatus([x EXCEPT !.map = n], ref, s), ref)
  <2>1. Quiet(x, [x EXCEPT !.map = n])
    BY QuietMap
  <2> QED
    BY <2>1 DEF AtOnce11
<1>3. ASSUME NEW d
      PROVE  AtOnce11(x, A11!SetStatus([x EXCEPT !.db = d], ref, s), ref)
  <2>1. Quiet(x, [x EXCEPT !.db = d])
    BY QuietDb
  <2> QED
    BY <2>1 DEF AtOnce11
<1> QED
  BY <1>1, <1>2, <1>3

\* DeleteObjectL.
LEMMA Deleted11 ==
  ASSUME NEW x, HasState(x), NEW p, NEW ref
  PROVE  AtOnce11(x, A11!DeleteNode(x, p, ref), ref)
<1> DEFINE z == A11!DeleteNode(x, p, ref)
           d == A11!Without(x.db, {p})
           y == [x EXCEPT !.db = d]
<1>1. A11!DeleteProfile(x, p) = y
  BY DEF A11!DeleteProfile, HasState
<1> HIDE DEF d
<1>2. z = A11!SetStatus(x, ref, "ENotFound") \/ z = A11!SetStatus(y, ref, "EOk")
  BY <1>1, Zenon DEF A11!DeleteNode
<1> HIDE DEF z
<1>3. AtOnce11(x, A11!SetStatus(x, ref, "ENotFound"), ref)
  BY Mappings11
<1>4. AtOnce11(x, A11!SetStatus(y, ref, "EOk"), ref)
  BY Mappings11
<1> QED
  BY <1>2, <1>3, <1>4 DEF z

LEMMA LeafDeleted11 ==
  ASSUME NEW x, Ready11(x), NEW name, NEW p, NEW leaf, NEW ref, ref \notin Accounted(x)
  PROVE  Handled11(x, A11!DeleteLeaf(x, name, p, leaf, ref), {ref})
<1> DEFINE y == [x EXCEPT !.mem.parent = p]
           d == A11!DeleteDMAuthInfo(y.db, p, A11!GetDMField[leaf])
           q == [y EXCEPT !.db = d]
           u == [y EXCEPT !.mem.leafType = "EDMDelete"]
           v == A11!UpdateLeafObject(u, name, leaf, A11!Nothing, ref, p)
           w == [v EXCEPT !.mem.leafType = "EDMUnset"]
           z == A11!DeleteLeaf(x, name, p, leaf, ref)
<1>0. HasState(x) /\ Ledger(x)
  BY DEF Ready11, Ledger, Books
<1>2. Quiet(x, y) /\ HasState(y)
  BY <1>0, QuietParent DEF Quiet
<1>1. \/ z = A11!SetStatus(x, ref, "EError")
      \/ z = A11!SetStatus(x, ref, "ENotFound")
      \/ z = A11!SetStatus(q, ref, "EOk")
      \/ z = w
  <2>1. [y EXCEPT !.db = A11!DeleteDMAuthInfo(@, p, A11!GetDMField[leaf])] = q
    BY <1>2 DEF HasState
  <2> QED
    BY <2>1, Zenon DEF A11!DeleteLeaf
<1> HIDE DEF y, z, d
<1>3. Ready11(y) /\ Accounted(y) = Accounted(x)
  BY <1>2, QuietHandled11
<1>4. Quiet(y, u)
  BY <1>2, QuietLeafType
<1> HIDE DEF u
<1>5. Ready11(u) /\ Accounted(u) = Accounted(x)
  BY <1>3, <1>4, QuietHandled11
<1>6. Handled11(u, v, {ref})
  BY <1>5, Updated11
<1> HIDE DEF v
<1>7. Handled11(x, v, {ref})
  BY <1>2, <1>3, <1>4, <1>6, HandledAfter11
<1>8. Quiet(v, w)
  BY <1>6, QuietLeafType DEF Handled11, Moves, Ledger, Books
<1> HIDE DEF w
<1>9. Handled11(x, w, {ref})
  <2>1. Moves(x, w, {ref}, {})
    BY <1>7, <1>8, MovesQuiet DEF Handled11
  <2>2. w.mem.buffer = v.mem.buffer
    BY <1>8 DEF Quiet, SameRest
  <2> QED
    BY <1>7, <2>1, <2>2 DEF Handled11
<1>10. AtOnce11(x, A11!SetStatus(x, ref, "EError"), ref)
  BY <1>0, Mappings11
<1>11. AtOnce11(x, A11!SetStatus(x, ref, "ENotFound"), ref)
  BY <1>0, Mappings11
<1>12. AtOnce11(x, A11!SetStatus(q, ref, "EOk"), ref)
  <2>1. Quiet(y, q)
    BY <1>2, QuietDb
  <2> HIDE DEF q
  <2>2. Quiet(x, q)
    BY <1>2, <2>1, QuietTransitive
  <2> QED
    BY <2>2 DEF AtOnce11
<1> HIDE DEF q
<1> QED
  BY <1>1, <1>9, <1>10, <1>11, <1>12, AtOnceHandled11 DEF z

\* ChildURIListL.
LEMMA Listed11 ==
  ASSUME NEW x, HasState(x), NEW ref
  PROVE  /\ AtOnce11(x, A11!ListProfiles(x, ref), ref)
         /\ \A luid : AtOnce11(x, A11!ListProfile(x, luid, ref), ref)
<1>1. AtOnce11(x, A11!ListProfiles(x, ref), ref)
  <2>1. PICK n : A11!ListProfiles(x, ref) = A11!SetStatus([x EXCEPT !.map = n], ref, "EOk")
    BY DEF A11!ListProfiles
  <2>2. AtOnce11(x, A11!SetStatus([x EXCEPT !.map = n], ref, "EOk"), ref)
    BY Mappings11
  <2> QED
    BY <2>1, <2>2
<1>2. ASSUME NEW luid
      PROVE  AtOnce11(x, A11!ListProfile(x, luid, ref), ref)
  <2>1. \E s : A11!ListProfile(x, luid, ref) = A11!SetStatus(x, ref, s)
    BY Zenon DEF A11!ListProfile
  <2> QED
    BY <2>1, Mappings11
<1> QED
  BY <1>1, <1>2

\* FetchLeafObjectL and FetchLeafObjectSizeL.
LEMMA Fetched11 ==
  ASSUME NEW x, HasState(x), NEW luid, NEW leaf, NEW ref
  PROVE  AtOnce11(x, A11!FetchLeafObject(x, luid, leaf, ref), ref)
<1> DEFINE z == A11!FetchLeafObject(x, luid, leaf, ref)
<1>1. \E s : z = A11!SetStatus(x, ref, s)
  BY Zenon DEF A11!FetchLeafObject
<1> HIDE DEF z
<1> QED
  BY <1>1, Mappings11 DEF z

\* A value that is not empty was found.
LEMMA Got11 ==
  ASSUME NEW r, NEW field
  PROVE  \/ A11!GetObject(r, field).err = "KErrNone"
         \/ A11!GetObject(r, field).text = ""
<1> DEFINE value(t) == [err |-> "KErrNone", text |-> t]
           nothing == ""
           port == IF r.URL = nothing THEN nothing ELSE A11!GetProfilePortNumber(r)
           g == A11!GetObject(r, field)
           good(v) == v.err = "KErrNone" \/ v.text = nothing
<1>1. \A t : good(value(t))
  OBVIOUS
<1>2. \A e : good([err |-> e, text |-> nothing])
  BY Zenon
<1> HIDE DEF good, nothing, port
<1>3. /\ field = "Name" => g = value(A11!GetProfileName(r))
      /\ field = "UserName" => g = value(A11!GetProfileUserName(r))
      /\ field = "URL" => g = value(A11!GetProfileServerURL(r))
      /\ field = "ServerId" => g = value(A11!GetServerId(r))
      /\ field = "IAP" => g = value(A11!GetConRef(r))
      /\ field = "Port" => g = value(port)
      /\ field = "MediumType" => g = value(A11!GetProfileConnectiontype)
      /\ field \in A11!AuthFields => g = value(A11!GetDMAuthInfo(r, field))
      /\ field = "Id" => g = value(nothing)
      /\ field \notin {"Name", "UserName", "URL", "ServerId", "IAP", "Port", "MediumType", "Id"}
                      \cup A11!AuthFields => g = [err |-> "EInvalidObject", text |-> nothing]
  BY DEF A11!GetObject, A11!AuthFields, port, nothing
<1> HIDE DEF value, g
<1>4. good(g)
  BY <1>1, <1>2, <1>3
<1> QED
  BY <1>4, Zenon DEF good, g, nothing

LEMMA SizeFetched11 ==
  ASSUME NEW x, HasState(x), NEW luid, NEW leaf, NEW ref,
         luid \in DOMAIN x.db => A11!GetObject(x.db[luid], A11!GetDMField[leaf]).text # ""
  PROVE  AtOnce11(x, A11!FetchLeafObjectSize(x, luid, leaf, ref), ref)
<1> DEFINE z == A11!FetchLeafObjectSize(x, luid, leaf, ref)
<1>1. luid \in DOMAIN x.db => A11!GetObject(x.db[luid], A11!GetDMField[leaf]).err = "KErrNone"
  BY Got11, Zenon
<1>2. \E s : z = A11!SetStatus(x, ref, s)
  BY <1>1, Zenon DEF A11!FetchLeafObjectSize, A11!FindProfileId
<1> HIDE DEF z
<1> QED
  BY <1>2, Mappings11 DEF z

-----------------------------------------------------------------------------
(* Accounts of DM 1.1: the invariant. *)

Kept11(x, o) == Ready11(x) /\ Owes(x, o, {})
Inv11 == adapter = "A11" /\ Kept11(Start(mem, db, map), open) /\ wrong = {}

LEMMA Served11 ==
  ASSUME Inv11, adapter' = adapter, NEW R, R \cap open = {}, NEW z,
         Handled11(Start(mem, db, map), z, R), Called(R, z),
         \A r \in R : r \in Answered(z) \/ r.op \in {"node", "leaf"}
  PROVE  Inv11'
<1> DEFINE x == Start(mem, db, map)
           y == Start(mem', db', map')
<1>0. y.mem = mem'
  BY StartState
<1> HIDE DEF x, y
<1>1. Owes(x, open, {}) /\ Moves(x, z, R, {}) /\ EveryShaped(z.mem.buffer)
  BY DEF Inv11, Kept11, Handled11, x
<1>2. /\ mem' = z.mem /\ wrong' = wrong
      /\ Ledger(y) /\ Owes(y, open', {} \cap open')
  BY <1>1, ServedMoves DEF y
<1>3. {} \cap open' = {}
  OBVIOUS
<1>4. Kept11(y, open')
  BY <1>0, <1>1, <1>2, <1>3 DEF Kept11, Ready11
<1> QED
  BY <1>2, <1>4 DEF Inv11, y

\* A new object, or a new session.
LEMMA Fresh11 ==
  ASSUME NEW d, NEW n
  PROVE  Kept11(Start(A11!NewMem, d, n), {})
<1> DEFINE m == A11!NewMem
           x == Start(m, d, n)
<1>1. m.buffer = << >> /\ m.ports = << >> /\ AccFields \subseteq DOMAIN m /\ "locks" \notin DOMAIN m
  BY DEF A11!NewMem, AccFields
<1> HIDE DEF m
<1>2. HasState(x) /\ x.mem = m /\ Distinct(x.said) /\ Answered(x) = {}
  BY StartState
<1> HIDE DEF x
<1>3. DOMAIN << >> = {}
  OBVIOUS
<1>4. Books(x) /\ Settled(x) = {}
  BY <1>1, <1>2, <1>3, DistinctEmpty DEF Books, LocksKnown, Settled
<1>5. Ledger(x) /\ Accounted(x) = {}
  BY <1>1, <1>2, <1>4, NodesEmpty DEF Ledger, Accounted
<1>6. Ready11(x)
  BY <1>1, <1>2, <1>3, <1>5 DEF Ready11, EveryShaped
<1> QED
  BY <1>5, <1>6 DEF Kept11, Owes, x, m

\* The profiles may be any.
LEMMA Elsewhere11 ==
  ASSUME NEW m, NEW d, NEW e, NEW n, NEW o, Kept11(Start(m, d, n), o)
  PROVE  Kept11(Start(m, e, n), o)
<1> DEFINE x == Start(m, d, n)
           y == Start(m, e, n)
<1>1. HasState(x) /\ x.mem = m /\ x.said = << >> /\ Answered(x) = {}
  BY StartState
<1>2. HasState(y) /\ y.mem = m /\ y.said = << >> /\ Answered(y) = {}
  BY StartState
<1>3. Kept11(x, o)
  OBVIOUS
<1> HIDE DEF x, y
<1>4. Ledger(y) /\ Accounted(y) = Accounted(x)
  BY <1>1, <1>2, <1>3 DEF Kept11, Ready11, Ledger, Books, Settled, Accounted
<1>5. Kept11(y, o)
  BY <1>1, <1>2, <1>3, <1>4 DEF Kept11, Ready11, Owes
<1> QED
  BY <1>5 DEF y

\* A command that is new to the adapter, before it is handled.
LEMMA Offered11 ==
  ASSUME Inv11, NEW ref, ref \notin open
  PROVE  Ready11(Start(mem, db, map)) /\ ref \notin Accounted(Start(mem, db, map))
BY DEF Inv11, Kept11, Owes

LEMMA ServedAtOnce11 ==
  ASSUME Inv11, adapter' = adapter, NEW ref, ref.op \notin {"node", "leaf"},
         NEW z, AtOnce11(Start(mem, db, map), z, ref), Called({ref}, z)
  PROVE  Inv11'
<1>1. ref \notin open
  BY DEF Inv11, Kept11, Owes
<1>2. Handled11(Start(mem, db, map), z, {ref}) /\ ref \in Answered(z)
  BY <1>1, Offered11, AtOnceHandled11
<1> QED
  BY <1>1, <1>2, Served11

LEMMA ServedLater11 ==
  ASSUME Inv11, adapter' = adapter, NEW ref, ref.op \in {"node", "leaf"}, ref \notin open,
         NEW z, Handled11(Start(mem, db, map), z, {ref}), Called({ref}, z)
  PROVE  Inv11'
BY Served11

LEMMA Sendable11 ==
  ASSUME NEW name, NEW leaf, NEW text, A11!Sendable(name, leaf)
  PROVE  LeafRef(name, leaf, text) \notin open
BY RefOps DEF A11!Sendable

LEMMA Step11 ==
  ASSUME Inv11, adapter' = adapter, A11!Next
  PROVE  Inv11'
<1> DEFINE x == Start(mem, db, map)
<1>0. A11!X = x /\ HasState(x) /\ x.db = db /\ x.map = map /\ x.mem = mem
  BY StartState DEF A11!X, Start
<1>00. Inv11 /\ adapter' = adapter
  OBVIOUS
<1> HIDE DEF x
<1>1. CASE A11!AddNode
  <2>1. PICK name : /\ A11!NodeRef(name) \notin open
                    /\ A11!Serve({A11!NodeRef(name)}, A11!AddNodeObject(x, name, A11!NodeRef(name)))
    BY <1>0, <1>1 DEF A11!AddNode
  <2> DEFINE ref == A11!NodeRef(name)
             z == A11!AddNodeObject(x, name, ref)
  <2>2. Called({ref}, z)
    BY <2>1 DEF A11!Serve, Called, Answered, Again
  <2>3. ref.op = "node" /\ ref \notin open
    BY <2>1 DEF A11!NodeRef
  <2>4. Ready11(x) /\ ref \notin Accounted(x)
    BY <1>00, <2>3, Offered11 DEF x
  <2>5. Handled11(x, z, {ref})
    BY <2>4, NodeAdded11
  <2> HIDE DEF z, ref
  <2> QED
    BY <1>00, <2>2, <2>3, <2>5, ServedLater11 DEF x
<1>2. CASE A11!UpdateLeaf
  <2>1. PICK name, leaf, obj, p :
          /\ A11!Sendable(name, leaf)
          /\ LET ref == A11!LeafRef(name, leaf, obj.text)
             IN  A11!Serve({ref}, A11!UpdateLeafObject(x, name, leaf, obj, ref, p))
    BY <1>0, <1>2, SMTT(40) DEF A11!UpdateLeaf
  <2> DEFINE ref == A11!LeafRef(name, leaf, obj.text)
             z == A11!UpdateLeafObject(x, name, leaf, obj, ref, p)
  <2>2. Called({ref}, z)
    BY <2>1 DEF A11!Serve, Called, Answered, Again
  <2>3. ref = LeafRef(name, leaf, obj.text)
    BY DEF A11!LeafRef, LeafRef
  <2> HIDE DEF ref
  <2>4. ref.op = "leaf" /\ ref \notin open
    BY <2>1, <2>3, RefOps, Sendable11
  <2>5. Ready11(x) /\ ref \notin Accounted(x)
    BY <1>00, <2>4, Offered11 DEF x
  <2>6. Handled11(x, z, {ref})
    BY <2>5, Updated11
  <2> HIDE DEF z
  <2> QED
    BY <1>00, <2>2, <2>4, <2>6, ServedLater11 DEF x
<1>3. CASE A11!Delete
  <2>1. PICK name : A11!Serve({A11!DeleteRef({name})},
                              A11!DeleteNode(x, A11!Luid(map, name), A11!DeleteRef({name})))
    BY <1>0, <1>3 DEF A11!Delete
  <2> DEFINE ref == A11!DeleteRef({name})
             z == A11!DeleteNode(x, A11!Luid(map, name), ref)
  <2>2. Called({ref}, z)
    BY <2>1 DEF A11!Serve, Called, Answered, Again
  <2>3. ref.op = "delete"
    BY DEF A11!DeleteRef
  <2>4. AtOnce11(x, z, ref)
    BY <1>0, Deleted11
  <2> HIDE DEF z, ref
  <2> QED
    BY <1>00, <2>2, <2>3, <2>4, ServedAtOnce11 DEF x
<1>4. CASE A11!DeleteOneLeaf
  <2>1. PICK name, leaf :
          LET ref == A11!LeafRef(name, leaf, "")
          IN  /\ A11!Sendable(name, leaf)
              /\ A11!Serve({ref}, A11!DeleteLeaf(x, name, map[name], leaf, ref))
    BY <1>0, <1>4 DEF A11!DeleteOneLeaf
  <2> DEFINE nothing == ""
             ref == A11!LeafRef(name, leaf, nothing)
             z == A11!DeleteLeaf(x, name, map[name], leaf, ref)
  <2>2. A11!Serve({ref}, z) /\ A11!Sendable(name, leaf)
    BY <2>1, Zenon
  <2> HIDE DEF nothing
  <2>3. Called({ref}, z)
    BY <2>2 DEF A11!Serve, Called, Answered, Again
  <2>4. ref = LeafRef(name, leaf, nothing)
    BY DEF A11!LeafRef, LeafRef
  <2> HIDE DEF ref
  <2>5. ref.op = "leaf" /\ ref \notin open
    BY <2>2, <2>4, RefOps, Sendable11
  <2>6. Ready11(x) /\ ref \notin Accounted(x)
    BY <1>00, <2>5, Offered11 DEF x
  <2>7. Handled11(x, z, {ref})
    BY <2>6, LeafDeleted11
  <2> HIDE DEF z
  <2> QED
    BY <1>00, <2>3, <2>5, <2>7, ServedLater11 DEF x
<1>5. CASE A11!List
  <2>1. PICK z : A11!Serve({A11!Now}, z) /\ AtOnce11(x, z, A11!Now)
    <3>1. CASE A11!Serve({A11!Now}, A11!ListProfiles(x, A11!Now))
      BY <1>0, <3>1, Listed11
    <3>2. CASE \E name \in A11!AllNames :
                 A11!Serve({A11!Now}, A11!ListProfile(x, A11!Luid(map, name), A11!Now))
      <4>1. PICK name : A11!Serve({A11!Now}, A11!ListProfile(x, A11!Luid(map, name), A11!Now))
        BY <3>2
      <4> QED
        BY <1>0, <4>1, Listed11
    <3> QED
      BY <1>0, <1>5, <3>1, <3>2 DEF A11!List
  <2>2. Called({A11!Now}, z)
    BY <2>1 DEF A11!Serve, Called, Answered, Again
  <2>3. A11!Now.op = "now"
    BY DEF A11!Now
  <2> QED
    BY <1>00, <2>1, <2>2, <2>3, ServedAtOnce11 DEF x
<1>6. CASE A11!Fetch
  <2>1. PICK name, leaf :
          LET p == A11!Luid(map, name)
          IN  \/ A11!Serve({A11!Now}, A11!FetchLeafObject(x, p, leaf, A11!Now))
              \/ /\ p \in DOMAIN db => A11!GetObject(db[p], A11!GetDMField[leaf]).text # ""
                 /\ A11!Serve({A11!Now}, A11!FetchLeafObjectSize(x, p, leaf, A11!Now))
    BY <1>0, <1>6, Zenon DEF A11!Fetch
  <2> DEFINE p == A11!Luid(map, name)
             u == A11!FetchLeafObject(x, p, leaf, A11!Now)
             v == A11!FetchLeafObjectSize(x, p, leaf, A11!Now)
  <2>2. \/ A11!Serve({A11!Now}, u)
        \/ /\ p \in DOMAIN x.db => A11!GetObject(x.db[p], A11!GetDMField[leaf]).text # ""
           /\ A11!Serve({A11!Now}, v)
    BY <1>0, <2>1, Zenon
  <2>3. AtOnce11(x, u, A11!Now)
    BY <1>0, Fetched11
  <2> HIDE DEF p, u
  <2>4. (p \in DOMAIN x.db => A11!GetObject(x.db[p], A11!GetDMField[leaf]).text # "")
        => AtOnce11(x, v, A11!Now)
    BY <1>0, SizeFetched11, Zenon
  <2> HIDE DEF v
  <2>5. PICK z : A11!Serve({A11!Now}, z) /\ AtOnce11(x, z, A11!Now)
    BY <2>2, <2>3, <2>4, Zenon
  <2>6. Called({A11!Now}, z)
    BY <2>5 DEF A11!Serve, Called, Answered, Again
  <2>7. A11!Now.op = "now"
    BY DEF A11!Now
  <2> QED
    BY <1>00, <2>5, <2>6, <2>7, ServedAtOnce11 DEF x
<1>8. Ready11(x)
  BY DEF Inv11, Kept11, x
<1> DEFINE all == A11!CompleteOutstandingCmds(x)
<1>9. Handled11(x, all, {})
  BY <1>8, Completed11
<1> HIDE DEF all
<1>10. CASE A11!Complete
  <2>1. Called({}, all)
    BY <1>0, <1>10 DEF A11!Complete, A11!Serve, Called, Answered, Again, all
  <2> QED
    BY <1>00, <1>9, <2>1, Served11 DEF x
<1>11. CASE A11!EndSession
  <2>1. mem' = A11!NewMem /\ open' = {} /\ wrong' = wrong
    BY <1>0, <1>11 DEF A11!EndSession, A11!EndWith, all
  <2>2. Kept11(Start(A11!NewMem, db', map'), {})
    BY Fresh11
  <2> QED
    BY <2>1, <2>2 DEF Inv11
<1>12. CASE A11!UserDeletes
  <2>1. mem' = mem /\ map' = map /\ open' = open /\ wrong' = wrong
    BY <1>12 DEF A11!UserDeletes, A11!Elsewhere
  <2>2. Kept11(Start(mem, db', map), open)
    BY Elsewhere11 DEF Inv11
  <2> QED
    BY <2>1, <2>2 DEF Inv11
<1> QED
  BY <1>1, <1>2, <1>3, <1>4, <1>5, <1>6, <1>10, <1>11, <1>12 DEF A11!Next

LEMMA Initial11 ==
  ASSUME adapter = "A11", A11!Init
  PROVE  Inv11
<1>1. mem = A11!NewMem /\ open = {} /\ wrong = {}
  BY DEF A11!Init, A11!DmInit
<1> QED
  BY <1>1, Fresh11 DEF Inv11

\* What is open is held.
LEMMA NodesNamed ==
  ASSUME NEW b, EveryShaped(b)
  PROVE  OfNodes(b) = UNION {{NodeRef(b[i].name)} \cup
                         {b[i].leaves[j].ref : j \in DOMAIN b[i].leaves} : i \in DOMAIN b}
<1>1. ASSUME NEW i \in DOMAIN b
      PROVE  OfNode(b[i]) = {NodeRef(b[i].name)} \cup
                            {b[i].leaves[j].ref : j \in DOMAIN b[i].leaves}
  BY DEF EveryShaped, Shaped, OfNode, Root, RefsOf
<1> QED
  BY <1>1 DEF OfNodes

LEMMA Held11 ==
  ASSUME Inv11
  PROVE  open = A11!Held
<1> DEFINE x == Start(mem, db, map)
<1>1. x.mem = mem /\ Answered(x) = {}
  BY StartState
<1>2. Ready11(x) /\ Owes(x, open, {})
  BY DEF Inv11, Kept11
<1> HIDE DEF x
<1>3. open = Accounted(x)
  BY <1>2 DEF Owes
<1>4. Accounted(x) = RefsOf(mem.ports) \cup OfNodes(mem.buffer)
  BY <1>1 DEF Accounted, Settled
<1>5. OfNodes(mem.buffer) =
        UNION {{NodeRef(mem.buffer[i].name)} \cup
               {mem.buffer[i].leaves[j].ref : j \in DOMAIN mem.buffer[i].leaves} :
                  i \in DOMAIN mem.buffer}
  BY <1>1, <1>2, NodesNamed DEF Ready11
<1> QED
  BY <1>3, <1>4, <1>5 DEF A11!Held, RefsOf, A11!NodeRef, NodeRef

LEMMA Held12 ==
  ASSUME Inv12
  PROVE  A12!Held \subseteq open /\ open \subseteq A12!Held \cup A12!LockRefs
<1> DEFINE x == Start(mem, db, map)
<1>1. x.mem = mem /\ Answered(x) = {}
  BY StartState
<1>2. Ready12(x, LocksOf(open)) /\ Owes(x, open, LocksOf(open))
  BY DEF Inv12, Kept12
<1> HIDE DEF x
<1>3. Accounted(x) \subseteq open /\ open \subseteq Accounted(x) \cup LocksOf(open)
  BY <1>2 DEF Owes
<1>4. Accounted(x) = RefsOf(mem.ports) \cup OfNodes(mem.buffer)
  BY <1>1 DEF Accounted, Settled
<1>5. EveryShaped(mem.buffer)
  BY <1>1, <1>2 DEF Ready12, Named, EveryShaped
<1>6. OfNodes(mem.buffer) =
        UNION {{NodeRef(mem.buffer[i].name)} \cup
               {mem.buffer[i].leaves[j].ref : j \in DOMAIN mem.buffer[i].leaves} :
                  i \in DOMAIN mem.buffer}
  BY <1>5, NodesNamed
<1>7. Accounted(x) = A12!Held
  BY <1>4, <1>6 DEF A12!Held, RefsOf, A12!NodeRef, NodeRef
<1>8. LocksOf(open) = A12!LockRefs
  BY DEF LocksOf, LockRef, A12!LockRefs
<1> QED
  BY <1>3, <1>7, <1>8

-----------------------------------------------------------------------------
(* Data synchronization: the books.  One port waits at most, and a port that *)
(* follows it takes its place.                                               *)

PortRef(r) == r.op = "leaf" /\ r.leaf = "PortNbr"
IsPort(port) ==
  /\ port = << >> \/ \E e : port = <<e>>
  /\ \A r \in RefsOf(port) : PortRef(r)
SyncEntries(b) == IsSeq(b) /\ \A i \in DOMAIN b : {"node", "luid", "ref", "leaves"} \subseteq DOMAIN b[i]
SyncFields == {"buffer", "port", "rdb", "prevURI", "prevLUID", "parent", "leafType"}
BooksDs(x) ==
  /\ HasState(x) /\ SyncFields \subseteq DOMAIN x.mem /\ SyncEntries(x.mem.buffer)
  /\ Distinct(x.said) /\ IsPort(x.mem.port)
  /\ Answered(x) \cap RefsOf(x.mem.port) = {}
SettledDs(x) == Answered(x) \cup RefsOf(x.mem.port)

\* What an execution may change in the buffer: the LUIDs.
SameNodes(b, c) ==
  /\ IsSeq(c) /\ DOMAIN c = DOMAIN b
  /\ \A i \in DOMAIN b :
       DOMAIN c[i] = DOMAIN b[i] /\ c[i].leaves = b[i].leaves /\ Root(c[i]) = Root(b[i])
QuietDs(x, y) ==
  /\ HasState(y) /\ DOMAIN y.mem = DOMAIN x.mem
  /\ SameNodes(x.mem.buffer, y.mem.buffer)
  /\ y.mem.port = x.mem.port /\ y.said = x.said
SettlesDs(x, y, R) ==
  /\ BooksDs(y) /\ DOMAIN y.mem = DOMAIN x.mem
  /\ SameNodes(x.mem.buffer, y.mem.buffer)
  /\ SettledDs(y) \subseteq SettledDs(x) \cup R
  /\ \A r \in (SettledDs(x) \cup R) \ SettledDs(y) : PortRef(r)

LEMMA SameNodesSelf ==
  ASSUME NEW b, IsSeq(b)
  PROVE  SameNodes(b, b)
BY DEF SameNodes
LEMMA SameNodesTransitive ==
  ASSUME NEW b, NEW c, NEW d, SameNodes(b, c), SameNodes(c, d)
  PROVE  SameNodes(b, d)
BY DEF SameNodes
LEMMA SameNodesRefs ==
  ASSUME NEW b, IsNodes(b), NEW c, SameNodes(b, c)
  PROVE  IsNodes(c) /\ OfNodes(c) = OfNodes(b)
<1>1. DOMAIN c = DOMAIN b /\ IsSeq(c)
      /\ \A i \in DOMAIN b : OfNode(c[i]) = OfNode(b[i]) /\ (IsNode(b[i]) => IsNode(c[i]))
  BY DEF SameNodes, OfNode, IsNode
<1> QED
  BY <1>1 DEF IsNodes, OfNodes

LEMMA QuietDsSelf ==
  ASSUME NEW x, HasState(x), IsSeq(x.mem.buffer)
  PROVE  QuietDs(x, x)
BY SameNodesSelf DEF QuietDs
LEMMA QuietDsTransitive ==
  ASSUME NEW x, NEW y, NEW z, QuietDs(x, y), QuietDs(y, z)
  PROVE  QuietDs(x, z)
BY SameNodesTransitive DEF QuietDs
LEMMA QuietDsBooks ==
  ASSUME NEW x, BooksDs(x), NEW y, QuietDs(x, y)
  PROVE  BooksDs(y) /\ SettledDs(y) = SettledDs(x)
BY DEF BooksDs, QuietDs, SettledDs, Answered, SyncEntries, SameNodes
LEMMA QuietDsSettles ==
  ASSUME NEW x, BooksDs(x), NEW y, QuietDs(x, y), NEW z, NEW R, SettlesDs(y, z, R)
  PROVE  SettlesDs(x, z, R)
<1>1. SettledDs(y) = SettledDs(x) /\ SameNodes(x.mem.buffer, y.mem.buffer)
      /\ DOMAIN y.mem = DOMAIN x.mem
  BY QuietDsBooks DEF QuietDs
<1>2. SameNodes(x.mem.buffer, z.mem.buffer)
  BY <1>1, SameNodesTransitive DEF SettlesDs
<1> QED
  BY <1>1, <1>2 DEF SettlesDs
LEMMA SettlesDsQuiet ==
  ASSUME NEW x, NEW y, NEW R, SettlesDs(x, y, R), NEW z, QuietDs(y, z)
  PROVE  SettlesDs(x, z, R)
<1>1. SettledDs(z) = SettledDs(y) /\ BooksDs(z)
  BY QuietDsBooks DEF SettlesDs
<1>2. SameNodes(x.mem.buffer, z.mem.buffer) /\ DOMAIN z.mem = DOMAIN x.mem
  BY SameNodesTransitive DEF SettlesDs, QuietDs
<1> QED
  BY <1>1, <1>2 DEF SettlesDs
LEMMA SettlesDsTransitive ==
  ASSUME NEW x, NEW y, NEW z, NEW Q, NEW R, SettlesDs(x, y, Q), SettlesDs(y, z, R)
  PROVE  SettlesDs(x, z, Q \cup R)
<1>1. SameNodes(x.mem.buffer, z.mem.buffer)
  BY SameNodesTransitive DEF SettlesDs
<1> QED
  BY <1>1 DEF SettlesDs

\* The parts of the memory that have nothing to do with answers.
LEMMA QuietDsMem ==
  ASSUME NEW x, HasState(x), IsSeq(x.mem.buffer), NEW m, DOMAIN m = DOMAIN x.mem,
         m.buffer = x.mem.buffer, m.port = x.mem.port
  PROVE  QuietDs(x, [x EXCEPT !.mem = m])
BY OtherMem, SameNodesSelf DEF QuietDs
LEMMA QuietDsDb ==
  ASSUME NEW x, HasState(x), IsSeq(x.mem.buffer), NEW d
  PROVE  QuietDs(x, [x EXCEPT !.db = d])
BY OtherDb, SameNodesSelf DEF QuietDs
LEMMA QuietDsMap ==
  ASSUME NEW x, HasState(x), IsSeq(x.mem.buffer), NEW n
  PROVE  QuietDs(x, [x EXCEPT !.map = n])
BY OtherMap, SameNodesSelf DEF QuietDs
LEMMA QuietDsParent ==
  ASSUME NEW x, HasState(x), IsSeq(x.mem.buffer), NEW p
  PROVE  QuietDs(x, [x EXCEPT !.mem.parent = p])
<1> DEFINE m == [x.mem EXCEPT !.parent = p]
<1>1. [x EXCEPT !.mem.parent = p] = [x EXCEPT !.mem = m]
  BY DEF HasState
<1>2. DOMAIN m = DOMAIN x.mem /\ m.buffer = x.mem.buffer /\ m.port = x.mem.port
  OBVIOUS
<1> HIDE DEF m
<1> QED
  BY <1>1, <1>2, QuietDsMem
LEMMA QuietDsLeafType ==
  ASSUME NEW x, HasState(x), IsSeq(x.mem.buffer), NEW t
  PROVE  QuietDs(x, [x EXCEPT !.mem.leafType = t])
<1> DEFINE m == [x.mem EXCEPT !.leafType = t]
<1>1. [x EXCEPT !.mem.leafType = t] = [x EXCEPT !.mem = m]
  BY DEF HasState
<1>2. DOMAIN m = DOMAIN x.mem /\ m.buffer = x.mem.buffer /\ m.port = x.mem.port
  OBVIOUS
<1> HIDE DEF m
<1> QED
  BY <1>1, <1>2, QuietDsMem
LEMMA QuietDsStore ==
  ASSUME NEW x, HasState(x), IsSeq(x.mem.buffer), NEW s
  PROVE  QuietDs(x, [x EXCEPT !.mem.rdb = s])
<1> DEFINE m == [x.mem EXCEPT !.rdb = s]
<1>1. [x EXCEPT !.mem.rdb = s] = [x EXCEPT !.mem = m]
  BY DEF HasState
<1>2. DOMAIN m = DOMAIN x.mem /\ m.buffer = x.mem.buffer /\ m.port = x.mem.port
  OBVIOUS
<1> HIDE DEF m
<1> QED
  BY <1>1, <1>2, QuietDsMem
LEMMA QuietDsPrevious ==
  ASSUME NEW x, HasState(x), IsSeq(x.mem.buffer), NEW p, NEW u
  PROVE  /\ QuietDs(x, [x EXCEPT !.mem.prevLUID = p, !.mem.prevURI = u])
         /\ QuietDs(x, [x EXCEPT !.mem.prevURI = u, !.mem.prevLUID = p])
<1> DEFINE m == [x.mem EXCEPT !.prevLUID = p, !.prevURI = u]
           n == [x.mem EXCEPT !.prevURI = u, !.prevLUID = p]
<1>1. /\ [x EXCEPT !.mem.prevLUID = p, !.mem.prevURI = u] = [x EXCEPT !.mem = m]
      /\ [x EXCEPT !.mem.prevURI = u, !.mem.prevLUID = p] = [x EXCEPT !.mem = n]
  BY DEF HasState
<1>2. DOMAIN m = DOMAIN x.mem /\ m.buffer = x.mem.buffer /\ m.port = x.mem.port
  OBVIOUS
<1>3. DOMAIN n = DOMAIN x.mem /\ n.buffer = x.mem.buffer /\ n.port = x.mem.port
  OBVIOUS
<1> HIDE DEF m, n
<1> QED
  BY <1>1, <1>2, <1>3, QuietDsMem

\* A command is answered.
LEMMA AnswerDs ==
  ASSUME NEW x, BooksDs(x), NEW ref, ref \notin SettledDs(x), NEW status
  PROVE  LET z == DS!SetStatus(x, ref, status)
         IN  SettlesDs(x, z, {ref}) /\ ref \in Answered(z)
<1> DEFINE a == [ref |-> ref, status |-> status]
           t == Append(x.said, a)
           z == [x EXCEPT !.said = t]
<1>1. DS!SetStatus(x, ref, status) = z
  BY DEF DS!SetStatus, BooksDs, HasState
<1>2. a.ref = ref
  OBVIOUS
<1> HIDE DEF a
<1>3. Distinct(t) /\ RefsOf(t) = RefsOf(x.said) \cup {ref}
  <2>1. Distinct(x.said) /\ a.ref \notin RefsOf(x.said)
    BY <1>2 DEF BooksDs, SettledDs, Answered, RefsOf
  <2> QED
    BY <1>2, <2>1, DistinctAppended
<1> HIDE DEF t
<1>4. HasState(z) /\ z.mem = x.mem /\ z.said = t
  BY OtherSaid DEF BooksDs
<1> HIDE DEF z
<1>5. Answered(z) = Answered(x) \cup {ref}
  BY <1>3, <1>4 DEF Answered, RefsOf
<1>6. BooksDs(z) /\ SettledDs(z) = SettledDs(x) \cup {ref}
  BY <1>3, <1>4, <1>5 DEF BooksDs, SettledDs
<1>7. SettlesDs(x, z, {ref})
  BY <1>4, <1>6, SameNodesSelf DEF SettlesDs, BooksDs, SyncEntries
<1> QED
  BY <1>1, <1>5, <1>7

\* Nothing but one answer.
AtOnceDs(x, z, ref) == \E y, s : QuietDs(x, y) /\ z = DS!SetStatus(y, ref, s)
LEMMA AtOnceSettles ==
  ASSUME NEW x, BooksDs(x), NEW ref, ref \notin SettledDs(x), NEW z, AtOnceDs(x, z, ref)
  PROVE  SettlesDs(x, z, {ref}) /\ ref \in Answered(z)
<1>1. PICK y, s : QuietDs(x, y) /\ z = DS!SetStatus(y, ref, s)
  BY DEF AtOnceDs
<1>2. BooksDs(y) /\ SettledDs(y) = SettledDs(x)
  BY <1>1, QuietDsBooks
<1>3. SettlesDs(y, z, {ref}) /\ ref \in Answered(z)
  BY <1>1, <1>2, AnswerDs
<1> QED
  BY <1>1, <1>3, QuietDsSettles

LEMMA BooksDsState ==
  ASSUME NEW x, BooksDs(x)
  PROVE  HasState(x) /\ IsSeq(x.mem.buffer) /\ QuietDs(x, x)
BY QuietDsSelf DEF BooksDs, SyncEntries

\* A port waits, or none does.
WithPort(x, port) == [x EXCEPT !.mem.port = port]
LEMMA PortChanged ==
  ASSUME NEW x, BooksDs(x), NEW port, IsPort(port), RefsOf(port) \cap Answered(x) = {}
  PROVE  LET y == WithPort(x, port)
         IN  /\ SettlesDs(x, y, RefsOf(port)) /\ y.mem.port = port
             /\ y.mem.buffer = x.mem.buffer /\ y.said = x.said
<1> DEFINE m == [x.mem EXCEPT !.port = port]
           y == [x EXCEPT !.mem = m]
<1>1. WithPort(x, port) = y
  BY DEF WithPort, BooksDs, HasState
<1>2. DOMAIN m = DOMAIN x.mem /\ m.buffer = x.mem.buffer /\ m.port = port
  BY DEF BooksDs, SyncFields
<1> HIDE DEF m
<1>3. HasState(y) /\ y.mem = m /\ y.said = x.said
  BY OtherMem DEF BooksDs
<1> HIDE DEF y
<1>4. Answered(y) = Answered(x)
  BY <1>3 DEF Answered
<1>5. BooksDs(y) /\ SettledDs(y) = Answered(x) \cup RefsOf(port)
  BY <1>2, <1>3, <1>4 DEF BooksDs, SettledDs
<1>6. \A r \in RefsOf(x.mem.port) : PortRef(r)
  BY DEF BooksDs, IsPort
<1>7. SettlesDs(x, y, RefsOf(port))
  BY <1>2, <1>3, <1>5, <1>6, SameNodesSelf, BooksDsState DEF SettlesDs, SettledDs
<1> QED
  BY <1>1, <1>2, <1>3, <1>7

LEMMA OnePort ==
  /\ IsPort(<< >>) /\ RefsOf(<< >>) = {}
  /\ \A e : PortRef(e.ref) => IsPort(<<e>>) /\ RefsOf(<<e>>) = {e.ref}
<1>1. IsPort(<< >>) /\ RefsOf(<< >>) = {}
  BY DistinctEmpty DEF IsPort
<1>2. ASSUME NEW e, PortRef(e.ref)
      PROVE  IsPort(<<e>>) /\ RefsOf(<<e>>) = {e.ref}
  <2>1. DOMAIN <<e>> = {1} /\ <<e>>[1] = e
    OBVIOUS
  <2>2. RefsOf(<<e>>) = {e.ref}
    BY <2>1 DEF RefsOf
  <2> QED
    BY <1>2, <2>2 DEF IsPort
<1> QED
  BY <1>1, <1>2

LEMMA PortSetDs ==
  ASSUME NEW x, BooksDs(x), NEW ref, ref \notin SettledDs(x), PortRef(ref), NEW p, NEW obj
  PROVE  SettlesDs(x, DS!SetPort(x, p, obj, ref), {ref})
<1> DEFINE y == WithPort(x, << >>)
           e == [id |-> p, port |-> obj.num, ref |-> ref]
           u == WithPort(y, <<e>>)
           d == DS!SetProfileConnectionPortNr(u.db, p, obj.num, x.mem.leafType)
           w == [u EXCEPT !.db = d]
           z == DS!SetPort(x, p, obj, ref)
<1>1. SettlesDs(x, y, {}) /\ y.mem.port = << >> /\ y.said = x.said
  BY OnePort, PortChanged
<1>2. BooksDs(y) /\ SettledDs(y) = Answered(x)
  BY <1>1, OnePort DEF SettlesDs, SettledDs, Answered
<1>3. e.ref = ref
  OBVIOUS
<1>4. \/ z = DS!SetStatus(y, ref, "EInvalidObject")
      \/ z = DS!SetStatus(y, ref, "ETooLargeObject")
      \/ z = w
  <2> DEFINE v == [x EXCEPT !.mem.port = << >>]
             q == [v EXCEPT !.mem.port = <<[id |-> p, port |-> obj.num, ref |-> ref]>>,
                            !.db = DS!SetProfileConnectionPortNr(@, p, obj.num, x.mem.leafType)]
  <2>1. z = CASE obj.num < 0 -> DS!SetStatus(v, ref, "EInvalidObject")
              [] obj.num > 65535 -> DS!SetStatus(v, ref, "ETooLargeObject")
              [] OTHER -> q
    BY DEF DS!SetPort
  <2>2. v = y
    BY DEF WithPort
  <2>3. q = w
    <3> HIDE DEF v
    <3>1. q = [v EXCEPT !.mem.port = <<e>>,
                        !.db = DS!SetProfileConnectionPortNr(@, p, obj.num, x.mem.leafType)]
      BY Zenon
    <3> HIDE DEF e, q, y
    <3> QED
      BY <1>2, <2>2, <3>1 DEF WithPort, BooksDs, HasState
  <2> HIDE DEF z, v, q, y, w
  <2> QED
    BY <2>1, <2>2, <2>3
<1> HIDE DEF e, y, d, z
<1>5. SettlesDs(y, u, {ref})
  <2>1. IsPort(<<e>>) /\ RefsOf(<<e>>) = {ref}
    BY <1>3, OnePort
  <2>2. ref \notin Answered(y)
    BY <1>1 DEF SettledDs, Answered
  <2> QED
    BY <1>2, <2>1, <2>2, PortChanged
<1> HIDE DEF u
<1>6. SettlesDs(y, w, {ref})
  BY <1>5, QuietDsDb, BooksDsState, SettlesDsQuiet DEF SettlesDs
<1> HIDE DEF w
<1>7. \A s : SettlesDs(y, DS!SetStatus(y, ref, s), {ref})
  BY <1>2, AnswerDs DEF SettledDs
<1>8. SettlesDs(y, z, {ref})
  BY <1>4, <1>6, <1>7
<1>9. {} \cup {ref} = {ref}
  OBVIOUS
<1>10. SettlesDs(x, z, {ref})
  BY <1>1, <1>8, <1>9, SettlesDsTransitive
<1> QED
  BY <1>10 DEF z

\* ConstructTreeL, and the account last asked for.
LEMMA QuietTree ==
  ASSUME NEW x, BooksDs(x)
  PROVE  /\ QuietDs(x, DS!ConstructTree(x))
         /\ \A node : QuietDs(x, DS!Remember(x, node))
<1>0. HasState(x) /\ IsSeq(x.mem.buffer) /\ QuietDs(x, x)
  BY BooksDsState
<1>1. QuietDs(x, DS!ConstructTree(x))
  <2>1. PICK n : DS!ConstructTree(x) = [x EXCEPT !.map = n]
    BY <1>0 DEF DS!ConstructTree, HasState
  <2> QED
    BY <1>0, <2>1, QuietDsMap
<1>2. ASSUME NEW node
      PROVE  QuietDs(x, DS!Remember(x, node))
  <2> DEFINE p == DS!GetProfileIdFromURI(x, node)
             y == [x EXCEPT !.mem.prevLUID = p, !.mem.prevURI = node.acc]
  <2>1. DS!Remember(x, node) \in {x, y}
    BY Zenon DEF DS!Remember
  <2>2. QuietDs(x, y)
    BY <1>0, QuietDsPrevious
  <2> HIDE DEF y
  <2> QED
    BY <1>0, <2>1, <2>2
<1> QED
  BY <1>1, <1>2

\* UpdateLeafObjectL of an account's leaf.
LEMMA AccountUpdated ==
  ASSUME NEW x, BooksDs(x), NEW node, NEW leaf, NEW obj, NEW ref, ref \notin SettledDs(x),
         DS!GetDSField[leaf] = "Port" => PortRef(ref)
  PROVE  SettlesDs(x, DS!UpdateAccount(x, node, leaf, obj, ref), {ref})
<1> DEFINE y == IF DS!LuidOf(x.map, node) = DS!NoLuid /\ DS!IsDSAccUriFormatMatchPredefined(node)
                  THEN DS!ConstructTree(x) ELSE x
           p == DS!LuidOf(y.map, node)
           z == [y EXCEPT !.mem.parent = p]
           field == DS!GetDSField[leaf]
           port == DS!SetPort(z, p, obj, ref)
           c == obj.num \notin 0 .. 65535
           d1 == DS!SetProfileServerURI(z.db, p, obj, x.mem.leafType)
           d2 == DS!SetProfileAddrType(z.db, p, obj)
           d3 == DS!SetProfileStrValue(z.db, p, obj, field)
           w(d) == [z EXCEPT !.db = d]
           r == DS!UpdateAccount(x, node, leaf, obj, ref)
<1>1. QuietDs(x, y)
  BY BooksDsState, QuietTree
<1> HIDE DEF y
<1>2. BooksDs(y) /\ HasState(y) /\ IsSeq(y.mem.buffer)
  BY <1>1, QuietDsBooks, BooksDsState
<1>3. QuietDs(y, z)
  BY <1>2, QuietDsParent
<1>4. QuietDs(x, z)
  BY <1>1, <1>3, QuietDsTransitive
<1> HIDE DEF z
<1>5. BooksDs(z) /\ SettledDs(z) = SettledDs(x) /\ HasState(z) /\ IsSeq(z.mem.buffer)
  BY <1>4, QuietDsBooks, BooksDsState
<1>6. \/ \E s : r = DS!SetStatus(y, ref, s)
      \/ \E s : r = DS!SetStatus(z, ref, s)
      \/ \E s, d : r = DS!SetStatus(w(d), ref, s)
      \/ r = port /\ field = "Port"
  <2> DEFINE q1 == [z EXCEPT !.db = DS!SetProfileServerURI(@, p, obj, x.mem.leafType)]
             q2 == [z EXCEPT !.db = DS!SetProfileAddrType(@, p, obj)]
             q3 == [z EXCEPT !.db = DS!SetProfileStrValue(@, p, obj, field)]
             last ==
               CASE field = "URL" -> DS!SetStatus(q1, ref, "EOk")
                 [] field = "MediumType" -> DS!SetStatus(q2, ref, "EOk")
                 [] field = "Port" -> port
                 [] OTHER -> DS!SetStatus(q3, ref, "EOk")
             all == IF p # x.mem.parent /\ ~DS!FindProfileId(x.db, p) THEN DS!SetStatus(y, ref, "ENotFound")
                    ELSE IF DS!NotValidStrLenght(obj) THEN DS!SetStatus(z, ref, "ETooLargeObject")
                    ELSE IF field = "MediumType" /\ x.mem.leafType = "EDSDelete"
                      THEN DS!SetStatus(z, ref, "EOk")
                    ELSE IF field = "Port" /\ c THEN port
                    ELSE IF DS!OpenSyncSessionAndDSProfile(x.db, p) # "KErrNone"
                      THEN IF field = "Port" THEN port
                           ELSE DS!SetStatus(z, ref, IF field = "URL" THEN "EError" ELSE "ENotFound")
                    ELSE last
  <2>1. r = all
    BY DEF DS!UpdateAccount, y, z
  <2>0. q1 = w(d1) /\ q2 = w(d2) /\ q3 = w(d3)
    BY <1>5 DEF HasState
  <2> HIDE DEF q1, q2, q3
  <2> HIDE DEF c, w, port, z, y, r, field, p, d1, d2, d3
  <2>2. \/ \E d : last = DS!SetStatus(w(d), ref, "EOk")
        \/ last = port /\ field = "Port"
    BY <2>0, Zenon
  <2> HIDE DEF last
  <2>3. \/ all = last
        \/ \E s : all = DS!SetStatus(y, ref, s)
        \/ \E s : all = DS!SetStatus(z, ref, s)
        \/ all = port /\ field = "Port"
    BY Zenon
  <2> HIDE DEF all
  <2> QED
    BY <2>1, <2>2, <2>3, Zenon
<1> HIDE DEF r, port
<1>7. ASSUME NEW s
      PROVE  /\ SettlesDs(x, DS!SetStatus(y, ref, s), {ref})
             /\ SettlesDs(x, DS!SetStatus(z, ref, s), {ref})
  BY <1>1, <1>4, AtOnceSettles DEF AtOnceDs
<1>8. ASSUME NEW s, NEW d
      PROVE  SettlesDs(x, DS!SetStatus(w(d), ref, s), {ref})
  <2>1. QuietDs(z, w(d))
    BY <1>5, QuietDsDb
  <2> HIDE DEF w
  <2>2. QuietDs(x, w(d))
    BY <1>4, <2>1, QuietDsTransitive
  <2> QED
    BY <2>2, AtOnceSettles DEF AtOnceDs
<1> HIDE DEF w
<1>9. field = "Port" => SettlesDs(x, port, {ref})
  <2>1. ref \notin SettledDs(z)
    BY <1>5
  <2>2. field = "Port" => SettlesDs(z, port, {ref})
    BY <1>5, <2>1, PortSetDs DEF port
  <2> QED
    BY <1>4, <2>2, QuietDsSettles
<1> QED
  BY <1>6, <1>7, <1>8, <1>9 DEF r

\* UpdateLeafObjectL of a task's leaf.
LEMMA SameNodesLuid ==
  ASSUME NEW b, SyncEntries(b), NEW i, NEW q
  PROVE  SameNodes(b, [b EXCEPT ![i].luid = q])
<1> DEFINE e == [b[i] EXCEPT !.luid = q]
           c == [b EXCEPT ![i] = e]
<1>1. [b EXCEPT ![i].luid = q] = c
  OBVIOUS
<1>2. DOMAIN e = DOMAIN b[i] /\ e.leaves = b[i].leaves /\ e.ref = b[i].ref
  OBVIOUS
<1>3. i \in DOMAIN b => "ref" \in DOMAIN b[i]
  BY DEF SyncEntries
<1> HIDE DEF e
<1>4. CASE i \in DOMAIN b
  <2>1. IsSeq(c) /\ DOMAIN c = DOMAIN b /\ c[i] = e /\ \A j \in DOMAIN b \ {i} : c[j] = b[j]
    BY <1>4, SeqExcept DEF SyncEntries
  <2> HIDE DEF c
  <2>2. Root(e) = Root(b[i])
    BY <1>2, <1>3, <1>4 DEF Root
  <2> QED
    BY <1>1, <1>2, <2>1, <2>2 DEF SameNodes
<1>5. CASE i \notin DOMAIN b
  <2>1. b = [j \in DOMAIN b |-> b[j]]
    BY DEF SyncEntries, IsSeq
  <2>2. c = b
    BY <1>5, <2>1
  <2> QED
    BY <1>1, <2>2, SameNodesSelf DEF SyncEntries
<1> QED
  BY <1>4, <1>5

LEMMA QuietDsLuid ==
  ASSUME NEW x, BooksDs(x), NEW node, NEW q
  PROVE  QuietDs(x, DS!SetBufferLUID(x, node, q))
<1> DEFINE i == DS!GetBufferIndex(x, node)
           b == [x.mem.buffer EXCEPT ![i].luid = q]
           m == [x.mem EXCEPT !.buffer = b]
           y == [x EXCEPT !.mem = m]
           z == DS!SetBufferLUID(x, node, q)
<1>1. [x EXCEPT !.mem.buffer[i].luid = q] = y
  BY DEF BooksDs, HasState, SyncFields
<1>2. z = x \/ z = y
  BY <1>1, Zenon DEF DS!SetBufferLUID
<1>3. SameNodes(x.mem.buffer, b)
  BY SameNodesLuid DEF BooksDs
<1> HIDE DEF i, b
<1>4. DOMAIN m = DOMAIN x.mem /\ m.buffer = b /\ m.port = x.mem.port
  BY DEF BooksDs, SyncFields
<1> HIDE DEF m
<1>5. HasState(y) /\ y.mem = m /\ y.said = x.said
  BY OtherMem DEF BooksDs
<1> HIDE DEF y, z
<1>6. QuietDs(x, y)
  BY <1>3, <1>4, <1>5 DEF QuietDs
<1> QED
  BY <1>2, <1>6, BooksDsState DEF z

LEMMA QuietDsMapping ==
  ASSUME NEW x, BooksDs(x), NEW node, NEW q
  PROVE  QuietDs(x, DS!SetMapping(x, node, q))
<1> DEFINE n == DS!With(x.map, node, q)
<1>1. DS!SetMapping(x, node, q) = [x EXCEPT !.map = n]
  BY DEF DS!SetMapping, BooksDs, HasState
<1> HIDE DEF n
<1> QED
  BY <1>1, QuietDsMap, BooksDsState

LEMMA ProviderAdded ==
  ASSUME NEW x, BooksDs(x), NEW p, NEW mime
  PROVE  LET r == DS!AddNewDataProvider(x, p, mime)
         IN  r.err = "KErrNone" => QuietDs(x, r.x)
<1> DEFINE q == CHOOSE v \in DS!ProviderOf(mime) : TRUE
           t == [remote |-> x.mem.rdb, local |-> "default"]
           d == [x.db EXCEPT ![p].tasks = DS!With(@, q, t)]
           y == [x EXCEPT !.db = d]
           r == DS!AddNewDataProvider(x, p, mime)
           s1 == [err |-> "KErrGeneral", q |-> DS!NoLuid, x |-> x]
           s2 == [err |-> "KErrNotFound", q |-> DS!NoLuid, x |-> x]
           s3 == [err |-> "KErrNone", q |-> q, x |-> y]
<1>1. [x EXCEPT !.db[p].tasks = DS!With(@, q, t)] = y
  BY DEF BooksDs, HasState
<1> HIDE DEF y
<1>2. r = s1 \/ r = s2 \/ r = s3
  BY <1>1, Zenon DEF DS!AddNewDataProvider
<1>3. s1.err # "KErrNone" /\ s2.err # "KErrNone" /\ s3.x = y
  OBVIOUS
<1> HIDE DEF s1, s2, s3, r
<1>4. QuietDs(x, y)
  BY QuietDsDb, BooksDsState DEF y
<1>5. r.err = "KErrNone" => QuietDs(x, r.x)
  BY <1>2, <1>3, <1>4
<1> QED
  BY <1>5 DEF r

LEMMA ContentTypeUpdated ==
  ASSUME NEW x, BooksDs(x), NEW node, NEW p, NEW luid, NEW obj, NEW ref
  PROVE  AtOnceDs(x, DS!UpdateContentType(x, node, p, luid, obj, ref), ref)
<1> DEFINE r == DS!AddNewDataProvider(x, p, obj.text)
           u == DS!SetMapping(r.x, node, r.q)
           v == DS!SetBufferLUID(u, node, r.q)
           made == DS!SetStatus(v, ref, "EOk")
           z == DS!UpdateContentType(x, node, p, luid, obj, ref)
           added == CASE r.err = "KErrNone" -> made
                      [] r.err = "KErrNotFound" -> DS!SetStatus(x, ref, "ENotFound")
                      [] OTHER -> DS!SetStatus(x, ref, "EError")
<1>1. (\E s : z = DS!SetStatus(x, ref, s)) \/ z = added
  BY Zenon DEF DS!UpdateContentType
<1> HIDE DEF z
<1>2. (\E s : added = DS!SetStatus(x, ref, s)) \/ (added = made /\ r.err = "KErrNone")
  <2> HIDE DEF made, r
  <2> QED
    BY Zenon
<1>3. ASSUME r.err = "KErrNone"
      PROVE  QuietDs(x, v)
  <2>1. QuietDs(x, r.x)
    BY <1>3, ProviderAdded
  <2> HIDE DEF r
  <2>2. BooksDs(r.x)
    BY <2>1, QuietDsBooks
  <2>3. QuietDs(r.x, u)
    BY <2>2, QuietDsMapping
  <2> HIDE DEF u
  <2>4. BooksDs(u)
    BY <2>2, <2>3, QuietDsBooks
  <2>5. QuietDs(u, v)
    BY <2>4, QuietDsLuid
  <2> HIDE DEF v
  <2> QED
    BY <2>1, <2>3, <2>5, QuietDsTransitive
<1>4. QuietDs(x, x)
  BY BooksDsState
<1> HIDE DEF added, v, r
<1> QED
  BY <1>1, <1>2, <1>3, <1>4, Zenon DEF AtOnceDs, z, made

LEMMA TaskUpdated ==
  ASSUME NEW x, BooksDs(x), NEW node, NEW luid, NEW leaf, NEW obj, NEW ref
  PROVE  AtOnceDs(x, DS!UpdateTask(x, node, luid, leaf, obj, ref), ref)
<1> DEFINE y == DS!Remember(x, node)
           p == DS!GetProfileIdFromURI(x, node)
           d == DS!UpdateDataSource(y.db, p, luid, obj, leaf)
           w == [y EXCEPT !.db = d]
           v == DS!SetMapping(w, node, luid)
           made == DS!UpdateContentType(y, node, p, luid, obj, ref)
           z == DS!UpdateTask(x, node, luid, leaf, obj, ref)
<1>1. QuietDs(x, y)
  BY QuietTree
<1>2. BooksDs(y) /\ HasState(y)
  BY <1>1, QuietDsBooks, BooksDsState
<1>3. [y EXCEPT !.db = DS!UpdateDataSource(@, p, luid, obj, leaf)] = w
  <2> HIDE DEF y, p
  <2> QED
    BY <1>2 DEF HasState
<1>4. \/ \E s : z = DS!SetStatus(y, ref, s)
      \/ z = made
      \/ z = DS!SetStatus(v, ref, "EOk")
  BY <1>3, Zenon DEF DS!UpdateTask
<1> HIDE DEF y, z, d, p
<1>5. AtOnceDs(y, made, ref)
  BY <1>2, ContentTypeUpdated
<1> HIDE DEF made
<1>6. AtOnceDs(x, made, ref)
  <2>1. PICK u, s : QuietDs(y, u) /\ made = DS!SetStatus(u, ref, s)
    BY <1>5 DEF AtOnceDs
  <2>2. QuietDs(x, u)
    BY <1>1, <2>1, QuietDsTransitive
  <2> QED
    BY <2>1, <2>2 DEF AtOnceDs
<1>7. QuietDs(y, w)
  BY <1>2, QuietDsDb, BooksDsState
<1> HIDE DEF w
<1>8. QuietDs(x, v)
  <2>1. BooksDs(w)
    BY <1>2, <1>7, QuietDsBooks
  <2>2. QuietDs(w, v)
    BY <2>1, QuietDsMapping
  <2> HIDE DEF v
  <2> QED
    BY <1>1, <1>7, <2>2, QuietDsTransitive
<1> HIDE DEF v
<1> QED
  BY <1>1, <1>4, <1>6, <1>8, Zenon DEF AtOnceDs, z

LEMMA SettlesDsSelf ==
  ASSUME NEW x, BooksDs(x)
  PROVE  SettlesDs(x, x, {})
BY BooksDsState, SameNodesSelf DEF SettlesDs

\* The leaves of a buffered task are written, the last one first.
LEMMA ReplayedDs ==
  ASSUME NEW x, BooksDs(x), NEW e, Distinct(e.leaves), RefsOf(e.leaves) \cap SettledDs(x) = {}
  PROVE  SettlesDs(x, DS!Replay(x, e), RefsOf(e.leaves))
<1> DEFINE N == Len(e.leaves)
           at(n) == N - n + 1
           write(y, c) == DS!UpdateTask(y, e.node, y.mem.buffer[1].luid, c.leaf, c.obj, c.ref)
           F(g, n) == IF n = 0 THEN x ELSE write(g[n - 1], e.leaves[at(n)])
           Loops(m, g) == g = [n \in 0 .. m |-> F(g, n)]
           replayed == CHOOSE g : Loops(N, g)
           R(n) == {e.leaves[j].ref : j \in at(n) .. N}
           S == {m \in Nat : \E g : Loops(m, g)}
           Done(n) == SettlesDs(x, replayed[n], R(n))
           T == {n \in 0 .. N : Done(n)}
<1>0. N \in Nat /\ DOMAIN e.leaves = 1 .. N
  BY SeqDomain DEF Distinct
<1> HIDE DEF N
<1>1. 0 \in S
  <2>1. Loops(0, [n \in 0 .. 0 |-> x])
    OBVIOUS
  <2> QED
    BY <2>1
<1>2. ASSUME NEW m \in Nat, m \in S
      PROVE  m + 1 \in S
  <2>1. PICK g : Loops(m, g)
    BY <1>2
  <2> DEFINE h == [n \in 0 .. m + 1 |-> IF n <= m THEN g[n] ELSE F(g, n)]
  <2>2. ASSUME NEW n \in 0 .. m + 1
        PROVE  h[n] = F(h, n)
    <3>1. n # 0 => n - 1 \in 0 .. m /\ h[n - 1] = g[n - 1]
      <4> HIDE DEF F
      <4> QED
        OBVIOUS
    <3>2. F(h, n) = F(g, n)
      <4> HIDE DEF h, write
      <4> QED
        BY <3>1
    <3>3. n <= m => g[n] = F(g, n)
      <4> HIDE DEF F
      <4> QED
        BY <2>1
    <3> HIDE DEF F
    <3> QED
      BY <3>2, <3>3
  <2>3. Loops(m + 1, h)
    <3> HIDE DEF F
    <3> QED
      BY <2>2
  <2> HIDE DEF h, Loops
  <2> QED
    BY <2>3
<1>3. \E g : Loops(N, g)
  <2>1. 0 .. N \subseteq S
    <3> HIDE DEF S
    <3> QED
      BY <1>0, <1>1, <1>2, InductionUpTo DEF S
  <2> HIDE DEF Loops
  <2> QED
    BY <1>0, <2>1
<1>4. Loops(N, replayed)
  BY <1>3
<1>5. \A n \in 0 .. N : replayed[n] = F(replayed, n)
  <2> HIDE DEF F
  <2> QED
    BY <1>4
<1>6. DS!Replay(x, e) = replayed[N]
  BY DEF DS!Replay, replayed, N
<1> HIDE DEF replayed, write
<1>7. 0 \in T
  <2>1. replayed[0] = x /\ R(0) = {}
    BY <1>0, <1>5
  <2>2. SettlesDs(x, x, {})
    BY SettlesDsSelf
  <2>3. Done(0)
    BY <2>1, <2>2
  <2> HIDE DEF Done
  <2> QED
    BY <1>0, <2>3
<1>8. ASSUME NEW n \in 0 .. N - 1, n \in T
      PROVE  n + 1 \in T
  <2> DEFINE k == N - n
             c == e.leaves[k]
             y == replayed[n]
  <2>1. n + 1 \in 0 .. N /\ k \in DOMAIN e.leaves /\ (n + 1) - 1 = n /\ n + 1 # 0 /\ at(n + 1) = k
        /\ at(n) = k + 1
    BY <1>0
  <2>2. replayed[n + 1] = write(y, c)
    BY <1>5, <2>1
  <2>3. R(n + 1) = R(n) \cup {c.ref}
    <3>1. at(n + 1) .. N = (at(n) .. N) \cup {k}
      BY <1>0, <2>1
    <3> HIDE DEF at, k
    <3> QED
      BY <3>1
  <2>4. c.ref \notin R(n)
    <3>1. ASSUME NEW j \in at(n) .. N, e.leaves[j].ref = c.ref
          PROVE  FALSE
      <4>1. j \in DOMAIN e.leaves /\ j # k
        BY <1>0
      <4> QED
        BY <2>1, <3>1, <4>1 DEF Distinct
    <3> QED
      BY <3>1
  <2>5. SettlesDs(x, y, R(n))
    BY <1>8
  <2>6. c.ref \in RefsOf(e.leaves)
    BY <2>1 DEF RefsOf
  <2> HIDE DEF R, c, y, T, F, S, Loops
  <2>7. BooksDs(y) /\ c.ref \notin SettledDs(y)
    BY <2>4, <2>5, <2>6 DEF SettlesDs
  <2>8. SettlesDs(y, replayed[n + 1], {c.ref})
    <3>1. AtOnceDs(y, write(y, c), c.ref)
      BY <2>7, TaskUpdated DEF write
    <3> QED
      BY <2>2, <2>7, <3>1, AtOnceSettles
  <2>9. SettlesDs(x, replayed[n + 1], R(n) \cup {c.ref})
    BY <2>5, <2>8, SettlesDsTransitive
  <2> QED
    BY <2>1, <2>3, <2>9 DEF T, Done
<1>9. N \in T
  <2>1. T \in SUBSET Nat
    OBVIOUS
  <2> HIDE DEF T
  <2>2. 0 .. N \subseteq T
    BY <1>0, <1>7, <1>8, <2>1, InductionUpTo
  <2> QED
    BY <1>0, <2>2
<1>10. R(N) = RefsOf(e.leaves)
  <2>1. at(N) = 1
    BY <1>0
  <2> QED
    BY <1>0, <2>1 DEF RefsOf
<1> QED
  BY <1>6, <1>9, <1>10

-----------------------------------------------------------------------------
(* Data synchronization: what the adapter accounts for.  A port that follows *)
(* another one makes it forget the first.                                    *)

LedgerDs(x) ==
  /\ BooksDs(x)
  /\ IsNodes(x.mem.buffer)
  /\ OfNodes(x.mem.buffer) \cap SettledDs(x) = {}
AccountedDs(x) == SettledDs(x) \cup OfNodes(x.mem.buffer)
MovesDs(x, y, R) ==
  /\ LedgerDs(y)
  /\ AccountedDs(y) \subseteq AccountedDs(x) \cup R
  /\ \A r \in (AccountedDs(x) \cup R) \ AccountedDs(y) : PortRef(r)

LEMMA MovesDsSelf ==
  ASSUME NEW x, LedgerDs(x)
  PROVE  MovesDs(x, x, {})
BY DEF MovesDs
LEMMA MovesDsTransitive ==
  ASSUME NEW x, NEW y, NEW z, NEW Q, NEW R, MovesDs(x, y, Q), MovesDs(y, z, R)
  PROVE  MovesDs(x, z, Q \cup R)
BY DEF MovesDs
LEMMA QuietLedgerDs ==
  ASSUME NEW x, LedgerDs(x), NEW y, QuietDs(x, y)
  PROVE  LedgerDs(y) /\ AccountedDs(y) = AccountedDs(x) /\ SettledDs(y) = SettledDs(x)
<1>1. BooksDs(y) /\ SettledDs(y) = SettledDs(x)
  BY QuietDsBooks DEF LedgerDs
<1>2. IsNodes(y.mem.buffer) /\ OfNodes(y.mem.buffer) = OfNodes(x.mem.buffer)
  BY SameNodesRefs DEF LedgerDs, QuietDs
<1> QED
  BY <1>1, <1>2 DEF LedgerDs, AccountedDs
LEMMA QuietMovesDs ==
  ASSUME NEW x, LedgerDs(x), NEW y, QuietDs(x, y), NEW z, NEW R, MovesDs(y, z, R)
  PROVE  MovesDs(x, z, R)
BY QuietLedgerDs DEF MovesDs
LEMMA MovesQuietDs ==
  ASSUME NEW x, NEW y, NEW R, MovesDs(x, y, R), NEW z, QuietDs(y, z)
  PROVE  MovesDs(x, z, R)
<1>1. LedgerDs(z) /\ AccountedDs(z) = AccountedDs(y)
  BY QuietLedgerDs DEF MovesDs
<1> QED
  BY <1>1 DEF MovesDs
LEMMA SettlesMovesDs ==
  ASSUME NEW x, LedgerDs(x), NEW z, NEW R, SettlesDs(x, z, R), R \cap OfNodes(x.mem.buffer) = {}
  PROVE  MovesDs(x, z, R)
<1>1. IsNodes(z.mem.buffer) /\ OfNodes(z.mem.buffer) = OfNodes(x.mem.buffer)
  BY SameNodesRefs DEF LedgerDs, SettlesDs
<1>2. LedgerDs(z)
  BY <1>1 DEF LedgerDs, SettlesDs
<1> QED
  BY <1>1, <1>2 DEF MovesDs, AccountedDs, SettlesDs

\* The buffer changes.
LEMMA BufferChangedDs ==
  ASSUME NEW x, BooksDs(x), NEW b, SyncEntries(b)
  PROVE  LET y == WithBuffer(x, b)
         IN  /\ BooksDs(y) /\ SettledDs(y) = SettledDs(x) /\ y.mem.buffer = b
             /\ y.said = x.said
<1> DEFINE m == [x.mem EXCEPT !.buffer = b]
           y == [x EXCEPT !.mem = m]
<1>1. [x EXCEPT !.mem.buffer = b] = y
  BY DEF BooksDs, HasState
<1>2. DOMAIN m = DOMAIN x.mem /\ m.buffer = b /\ m.port = x.mem.port
  BY DEF BooksDs, SyncFields
<1> HIDE DEF m
<1>3. HasState(y) /\ y.mem = m /\ y.said = x.said
  BY OtherMem DEF BooksDs
<1> HIDE DEF y
<1>4. BooksDs(y) /\ SettledDs(y) = SettledDs(x)
  BY <1>2, <1>3 DEF BooksDs, SettledDs, Answered
<1> QED
  BY <1>1, <1>2, <1>3, <1>4 DEF y, WithBuffer

\* ExecuteBufferL: the first node and its leaves are answered.
LEMMA NodeAnswered ==
  ASSUME NEW x, BooksDs(x), NEW e, NEW luid, e.ref \notin SettledDs(x)
  PROVE  SettlesDs(x, DS!AddExecuted(x, e, luid), {e.ref})
<1> DEFINE y == [x EXCEPT !.mem.parent = DS!NoLuid]
           w == [x EXCEPT !.mem.parent = 0]
           z == DS!AddExecuted(x, e, luid)
<1>1. z = DS!SetStatus(y, e.ref, "EOk") \/ z = DS!SetStatus(w, e.ref, "EError")
  BY Zenon DEF DS!AddExecuted
<1>2. QuietDs(x, y)
  BY QuietDsParent, BooksDsState
<1>3. QuietDs(x, w)
  BY QuietDsParent, BooksDsState
<1> HIDE DEF y, w, z
<1>4. AtOnceDs(x, z, e.ref)
  BY <1>1, <1>2, <1>3 DEF AtOnceDs
<1> QED
  BY <1>4, AtOnceSettles DEF z

LEMMA StoreSet ==
  ASSUME NEW x, BooksDs(x), NEW e
  PROVE  QuietDs(x, DS!SetRDBDataStore(x, e))
<1> DEFINE stores == SelectSeq(e.leaves, LAMBDA c : c.leaf = "RDBURI")
           t == stores[1].obj.text
           y == [x EXCEPT !.mem.rdb = t]
<1>1. DS!SetRDBDataStore(x, e) = x \/ DS!SetRDBDataStore(x, e) = y
  BY Zenon DEF DS!SetRDBDataStore
<1> HIDE DEF t
<1>2. QuietDs(x, y)
  BY QuietDsStore, BooksDsState
<1> HIDE DEF y
<1> QED
  BY <1>1, <1>2, BooksDsState

LEMMA EntriesShorter ==
  ASSUME NEW b, SyncEntries(b), NEW t, NEW i \in DOMAIN b, Shorter(b, t, i)
  PROVE  SyncEntries(t)
<1>1. /\ DOMAIN b = 1 .. Len(b) /\ Len(b) \in Nat /\ DOMAIN t = 1 .. Len(b) - 1
      /\ \A j \in DOMAIN t : t[j] = b[IF j < i THEN j ELSE j + 1]
  BY SeqDomain DEF Shorter, SyncEntries
<1>2. \A j \in DOMAIN t : (IF j < i THEN j ELSE j + 1) \in DOMAIN b
  BY <1>1
<1> QED
  BY <1>1, <1>2 DEF SyncEntries, Shorter

LEMMA ExecutedDs ==
  ASSUME NEW x, LedgerDs(x), x.mem.buffer # << >>
  PROVE  LET z == DS!ExecuteBuffer(x)
         IN  MovesDs(x, z, {}) /\ Len(z.mem.buffer) = Len(x.mem.buffer) - 1
<1> DEFINE b == x.mem.buffer
           e == b[1]
           u == DS!SetRDBDataStore(x, e)
           y == DS!Replay(u, e)
           luid == IF y.mem.buffer[1].luid = DS!NoLuid THEN 0 ELSE 1
           a == DS!AddExecuted(y, e, luid)
           c == a.mem.buffer
           t == Tail(c)
           z == DS!ExecuteBuffer(x)
<1>1. BooksDs(x) /\ IsNodes(b) /\ OfNodes(b) \cap SettledDs(x) = {} /\ IsSeq(b) /\ b # << >>
  BY DEF LedgerDs, IsNodes
<1>2. 1 \in DOMAIN b
  BY <1>1, FirstCut
<1>3. z = [a EXCEPT !.mem.buffer = Tail(@)]
  BY DEF DS!ExecuteBuffer
<1>4. /\ OfNode(e) = {e.ref} \cup RefsOf(e.leaves) /\ IsNode(e) /\ OfNode(e) \subseteq OfNodes(b)
      /\ e.ref \notin RefsOf(e.leaves)
  <2>1. "ref" \in DOMAIN e
    BY <1>1, <1>2 DEF BooksDs, SyncEntries
  <2> QED
    BY <1>1, <1>2, <2>1 DEF OfNode, Root, IsNodes, IsNode, OfNodes
<1> HIDE DEF e, luid, z
<1>5. QuietDs(x, u) /\ BooksDs(u) /\ SettledDs(u) = SettledDs(x)
  BY <1>1, StoreSet, QuietDsBooks
<1> HIDE DEF u
<1>6. SettlesDs(u, y, RefsOf(e.leaves))
  <2>1. Distinct(e.leaves) /\ RefsOf(e.leaves) \cap SettledDs(u) = {}
    BY <1>1, <1>4, <1>5 DEF IsNode
  <2> QED
    BY <1>5, <2>1, ReplayedDs
<1> HIDE DEF y
<1>7. BooksDs(y) /\ e.ref \notin SettledDs(y)
  BY <1>1, <1>4, <1>5, <1>6 DEF SettlesDs
<1>8. SettlesDs(y, a, {e.ref})
  BY <1>7, NodeAnswered
<1> HIDE DEF a
<1>9. SettlesDs(x, a, OfNode(e))
  <2>1. SettlesDs(u, a, RefsOf(e.leaves) \cup {e.ref})
    BY <1>6, <1>8, SettlesDsTransitive
  <2>2. RefsOf(e.leaves) \cup {e.ref} = OfNode(e)
    BY <1>4
  <2> QED
    BY <1>1, <1>5, <2>1, <2>2, QuietDsSettles
<1>10. /\ BooksDs(a) /\ IsNodes(c) /\ OfNodes(c) = OfNodes(b) /\ IsSeq(c) /\ DOMAIN c = DOMAIN b
       /\ OfNode(c[1]) = OfNode(e)
  <2>1. BooksDs(a) /\ SameNodes(b, c)
    BY <1>9 DEF SettlesDs
  <2>2. OfNode(c[1]) = OfNode(b[1])
    BY <1>2, <2>1 DEF SameNodes, OfNode
  <2>3. OfNode(c[1]) = OfNode(e)
    BY <2>2 DEF e
  <2> HIDE DEF b, c
  <2>4. IsNodes(c) /\ OfNodes(c) = OfNodes(b)
    BY <1>1, <2>1, SameNodesRefs
  <2> QED
    BY <2>1, <2>3, <2>4 DEF SameNodes
<1>11. Len(c) = Len(b) /\ c # << >>
  <2>1. Len(c) \in Nat /\ DOMAIN c = 1 .. Len(c) /\ Len(b) \in Nat /\ DOMAIN b = 1 .. Len(b)
    BY <1>1, <1>10, SeqDomain
  <2> DEFINE k == Len(c)
             l == Len(b)
  <2>2. k \in Nat /\ l \in Nat /\ 1 .. k = 1 .. l
    BY <1>10, <2>1
  <2> HIDE DEF k, l
  <2>3. k = l
    BY <2>2
  <2>4. DOMAIN << >> = {}
    OBVIOUS
  <2> QED
    BY <1>2, <1>10, <2>3, <2>4 DEF k, l
<1> HIDE DEF b
<1>12. 1 \in DOMAIN c /\ Shorter(c, t, 1)
  BY <1>10, <1>11, FirstCut
<1>13. z = WithBuffer(a, t)
  BY <1>3, <1>10 DEF WithBuffer, BooksDs, HasState, SyncFields
<1> HIDE DEF c, t
<1>14. IsNodes(t) /\ OfNodes(t) = OfNodes(b) \ OfNode(e)
  BY <1>10, <1>12, NodeRemoved
<1>15. SyncEntries(t)
  <2>1. SyncEntries(c)
    BY <1>10 DEF BooksDs, c
  <2> QED
    BY <1>12, <2>1, EntriesShorter
<1>16. BooksDs(z) /\ SettledDs(z) = SettledDs(a) /\ z.mem.buffer = t
  BY <1>10, <1>13, <1>15, BufferChangedDs
<1>17. LedgerDs(z)
  BY <1>1, <1>9, <1>14, <1>16 DEF LedgerDs, SettlesDs
<1>18. AccountedDs(x) = SettledDs(x) \cup OfNodes(b)
       /\ AccountedDs(z) = SettledDs(a) \cup (OfNodes(b) \ OfNode(e))
  BY <1>14, <1>16 DEF AccountedDs, b
<1>19. MovesDs(x, z, {})
  BY <1>4, <1>9, <1>17, <1>18 DEF MovesDs, SettlesDs
<1>20. Len(z.mem.buffer) = Len(b) - 1
  BY <1>11, <1>12, <1>16 DEF Shorter
<1> QED
  BY <1>19, <1>20 DEF z, b

\* CompleteOutstandingCmdsL: every node, and then the port.
LEMMA PortApplied ==
  ASSUME NEW x, LedgerDs(x)
  PROVE  MovesDs(x, DS!ApplyPort(x), {})
<1> DEFINE e == x.mem.port[1]
           y == WithPort(x, << >>)
           d == DS!SetProfileConnectionPortNr(y.db, e.id, e.port, "EDSUnset")
           w == [y EXCEPT !.db = d]
           z == DS!ApplyPort(x)
<1>1. BooksDs(x)
  BY DEF LedgerDs
<1>2. SettlesDs(x, y, {}) /\ y.mem.port = << >> /\ y.said = x.said
  BY <1>1, OnePort, PortChanged
<1>3. BooksDs(y) /\ SettledDs(y) = Answered(x)
  BY <1>2, OnePort DEF SettlesDs, SettledDs, Answered
<1>4. \/ z = x
      \/ z = DS!SetStatus(y, e.ref, "EError") /\ x.mem.port # << >>
      \/ z = DS!SetStatus(w, e.ref, "EOk") /\ x.mem.port # << >>
  <2>1. [y EXCEPT !.db = DS!SetProfileConnectionPortNr(@, e.id, e.port, "EDSUnset")] = w
    <3> HIDE DEF y
    <3> QED
      BY <1>3 DEF BooksDs, HasState
  <2> QED
    BY <2>1, Zenon DEF DS!ApplyPort, WithPort
<1>5. x.mem.port # << >> => RefsOf(x.mem.port) = {e.ref}
  <2>1. ASSUME x.mem.port # << >>
        PROVE  RefsOf(x.mem.port) = {e.ref}
    <3>1. PICK c : x.mem.port = <<c>>
      BY <1>1, <2>1 DEF BooksDs, IsPort
    <3>2. DOMAIN <<c>> = {1} /\ <<c>>[1] = c
      OBVIOUS
    <3> QED
      BY <3>1, <3>2 DEF RefsOf
  <2> QED
    BY <2>1
<1> HIDE DEF y, z, d, e
<1>6. CASE x.mem.port # << >> /\ z # x
  <2>1. e.ref \in SettledDs(x) /\ e.ref \notin SettledDs(y)
    BY <1>1, <1>3, <1>5, <1>6 DEF BooksDs, SettledDs
  <2>2. QuietDs(y, y) /\ QuietDs(y, w)
    BY <1>3, QuietDsDb, BooksDsState
  <2> HIDE DEF w
  <2>3. AtOnceDs(y, z, e.ref)
    BY <1>4, <1>6, <2>2 DEF AtOnceDs
  <2>4. SettlesDs(y, z, {e.ref})
    BY <1>3, <2>1, <2>3, AtOnceSettles
  <2>5. SettlesDs(x, z, {} \cup {e.ref})
    BY <1>2, <2>4, SettlesDsTransitive
  <2>6. SettlesDs(x, z, {})
    BY <2>1, <2>5 DEF SettlesDs
  <2> QED
    BY <2>6, SettlesMovesDs DEF z
<1>7. CASE z = x
  BY <1>7, MovesDsSelf DEF z
<1> HIDE DEF w
<1> QED
  BY <1>4, <1>6, <1>7

LEMMA CompletedDs ==
  ASSUME NEW x, LedgerDs(x)
  PROVE  MovesDs(x, DS!CompleteOutstandingCmds(x), {})
<1> DEFINE N == Len(x.mem.buffer)
           F(g, n) == IF n = 0 THEN x ELSE DS!ExecuteBuffer(g[n - 1])
           Loops(m, g) == g = [n \in 0 .. m |-> F(g, n)]
           executed == CHOOSE g : Loops(N, g)
           S == {m \in Nat : \E g : Loops(m, g)}
           Done(n) == MovesDs(x, executed[n], {}) /\ Len(executed[n].mem.buffer) = N - n
           T == {n \in 0 .. N : Done(n)}
<1>0. N \in Nat
  BY SeqDomain DEF LedgerDs, IsNodes
<1>01. N = Len(x.mem.buffer)
  OBVIOUS
<1> HIDE DEF N
<1>1. 0 \in S
  <2>1. Loops(0, [n \in 0 .. 0 |-> x])
    OBVIOUS
  <2> QED
    BY <2>1
<1>2. ASSUME NEW m \in Nat, m \in S
      PROVE  m + 1 \in S
  <2>1. PICK g : Loops(m, g)
    BY <1>2
  <2> DEFINE h == [n \in 0 .. m + 1 |-> IF n <= m THEN g[n] ELSE F(g, n)]
  <2>2. ASSUME NEW n \in 0 .. m + 1
        PROVE  h[n] = F(h, n)
    <3>1. n # 0 => n - 1 \in 0 .. m /\ h[n - 1] = g[n - 1]
      OBVIOUS
    <3>2. F(h, n) = F(g, n)
      <4> HIDE DEF h
      <4> QED
        BY <3>1
    <3>3. n <= m => g[n] = F(g, n)
      <4> HIDE DEF F
      <4> QED
        BY <2>1
    <3> QED
      BY <3>2, <3>3
  <2>3. Loops(m + 1, h)
    BY <2>2
  <2> HIDE DEF h, Loops
  <2> QED
    BY <2>3
<1>3. \E g : Loops(N, g)
  <2>1. 0 .. N \subseteq S
    <3> HIDE DEF S
    <3> QED
      BY <1>0, <1>1, <1>2, InductionUpTo DEF S
  <2> HIDE DEF Loops
  <2> QED
    BY <1>0, <2>1
<1>4. Loops(N, executed)
  BY <1>3
<1>5. \A n \in 0 .. N : executed[n] = F(executed, n)
  <2> HIDE DEF F
  <2> QED
    BY <1>4
<1>6. DS!CompleteOutstandingCmds(x) = DS!ApplyPort(executed[N])
  BY DEF DS!CompleteOutstandingCmds, executed, N
<1> HIDE DEF executed
<1>7. 0 \in T
  <2>1. executed[0] = x
    BY <1>0, <1>5
  <2>2. MovesDs(x, x, {})
    BY MovesDsSelf
  <2>3. Done(0)
    BY <1>0, <1>01, <2>1, <2>2
  <2> HIDE DEF Done
  <2> QED
    BY <1>0, <2>3
<1>8. ASSUME NEW n \in 0 .. N - 1, n \in T
      PROVE  n + 1 \in T
  <2> DEFINE y == executed[n]
             z == executed[n + 1]
  <2>1. n + 1 \in 0 .. N /\ (n + 1) - 1 = n /\ n + 1 # 0
    BY <1>0
  <2>2. z = DS!ExecuteBuffer(y)
    BY <1>5, <2>1
  <2>3. MovesDs(x, y, {}) /\ Len(y.mem.buffer) = N - n
    BY <1>8
  <2> HIDE DEF y, z, T, F, S, Loops
  <2>4. y.mem.buffer # << >>
    <3>1. N - n # 0
      BY <1>0
    <3> QED
      BY <2>3, <3>1, NodesEmpty
  <2>5. LedgerDs(y)
    BY <2>3 DEF MovesDs
  <2>6. MovesDs(y, z, {}) /\ Len(z.mem.buffer) = Len(y.mem.buffer) - 1
    BY <2>2, <2>4, <2>5, ExecutedDs
  <2>7. MovesDs(x, z, {})
    <3>1. {} \cup {} = {}
      OBVIOUS
    <3>2. MovesDs(x, z, {} \cup {})
      BY <2>3, <2>6, MovesDsTransitive
    <3> QED
      BY <3>1, <3>2
  <2>8. Len(z.mem.buffer) = N - (n + 1)
    <3> DEFINE b == Len(y.mem.buffer)
               c == Len(z.mem.buffer)
    <3>1. b = N - n /\ c = b - 1 /\ n \in Nat
      BY <1>0, <2>3, <2>6
    <3> HIDE DEF b, c
    <3>2. c = N - (n + 1)
      BY <1>0, <3>1
    <3> QED
      BY <3>2 DEF c
  <2> QED
    BY <2>1, <2>7, <2>8 DEF T, Done, z
<1>9. N \in T
  <2>1. T \in SUBSET Nat
    OBVIOUS
  <2> HIDE DEF T
  <2>2. 0 .. N \subseteq T
    BY <1>0, <1>7, <1>8, <2>1, InductionUpTo
  <2> QED
    BY <1>0, <2>2
<1>10. MovesDs(x, executed[N], {})
  BY <1>9
<1> DEFINE y == executed[N]
           z == DS!ApplyPort(y)
<1> HIDE DEF T, F, y
<1>11. MovesDs(x, y, {})
  BY <1>10 DEF y
<1>12. MovesDs(y, z, {})
  BY <1>11, PortApplied DEF MovesDs
<1> HIDE DEF z
<1>13. {} \cup {} = {}
  OBVIOUS
<1>14. MovesDs(x, z, {} \cup {})
  BY <1>11, <1>12, MovesDsTransitive
<1> QED
  BY <1>6, <1>13, <1>14 DEF z, y

\* A command that is answered at once.
LEMMA AtOnceHandledDs ==
  ASSUME NEW x, LedgerDs(x), NEW ref, ref \notin AccountedDs(x), NEW z, AtOnceDs(x, z, ref)
  PROVE  MovesDs(x, z, {ref}) /\ ref \in Answered(z)
<1>1. SettlesDs(x, z, {ref}) /\ ref \in Answered(z)
  BY AtOnceSettles DEF LedgerDs, AccountedDs
<1> QED
  BY <1>1, SettlesMovesDs DEF AccountedDs

\* AddNodeBufferL.
LEMMA TaskBuffered ==
  ASSUME NEW x, LedgerDs(x), NEW node, NEW p, NEW ref, ref \notin AccountedDs(x)
  PROVE  MovesDs(x, DS!AddNodeBuffer(x, node, p, ref), {ref})
<1> DEFINE e == [node |-> node, luid |-> p, ref |-> ref, leaves |-> << >>]
           b == Append(x.mem.buffer, e)
           z == WithBuffer(x, b)
<1>1. DS!AddNodeBuffer(x, node, p, ref) = z
  BY DEF DS!AddNodeBuffer, WithBuffer, LedgerDs, BooksDs, HasState, SyncFields
<1>2. e.ref = ref /\ e.leaves = << >> /\ DOMAIN e = {"node", "luid", "ref", "leaves"}
  OBVIOUS
<1> HIDE DEF e
<1>3. IsNode(e) /\ OfNode(e) = {ref}
  BY <1>2, DistinctEmpty DEF Root, IsNode, OfNode
<1>4. IsNodes(b) /\ OfNodes(b) = OfNodes(x.mem.buffer) \cup {ref}
  BY <1>3, NodeAppended DEF LedgerDs, AccountedDs
<1>5. SyncEntries(b)
  <2>1. IsSeq(x.mem.buffer)
    BY DEF LedgerDs, IsNodes
  <2>2. /\ IsSeq(b) /\ DOMAIN b = DOMAIN x.mem.buffer \cup {Len(x.mem.buffer) + 1}
        /\ b[Len(x.mem.buffer) + 1] = e
        /\ \A j \in DOMAIN x.mem.buffer : b[j] = x.mem.buffer[j]
    BY <2>1, SeqAppend
  <2> HIDE DEF b
  <2> QED
    BY <1>2, <2>2 DEF SyncEntries, LedgerDs, BooksDs
<1> HIDE DEF b
<1>6. BooksDs(z) /\ SettledDs(z) = SettledDs(x) /\ z.mem.buffer = b
  BY <1>5, BufferChangedDs DEF LedgerDs
<1> HIDE DEF z
<1>7. LedgerDs(z)
  BY <1>4, <1>6 DEF LedgerDs, AccountedDs
<1>8. MovesDs(x, z, {ref})
  BY <1>4, <1>6, <1>7 DEF MovesDs, AccountedDs
<1> QED
  BY <1>1, <1>8

\* AddLeafBufferL.
LEMMA LeafBufferedDs ==
  ASSUME NEW x, LedgerDs(x), NEW i \in DOMAIN x.mem.buffer, NEW leaf, NEW obj, NEW ref,
         ref \notin AccountedDs(x)
  PROVE  MovesDs(x, DS!AddLeafBuffer(x, i, leaf, obj, ref), {ref})
<1> DEFINE b == x.mem.buffer
           c == [leaf |-> leaf, obj |-> obj, ref |-> ref]
           s == Append(b[i].leaves, c)
           e == [b[i] EXCEPT !.leaves = s]
           t == [b EXCEPT ![i] = e]
           z == WithBuffer(x, t)
<1>0. /\ BooksDs(x) /\ IsNodes(b) /\ IsNode(b[i]) /\ SyncEntries(b) /\ IsSeq(b)
      /\ {"node", "luid", "ref", "leaves"} \subseteq DOMAIN b[i]
  BY DEF LedgerDs, BooksDs, SyncEntries, IsNodes
<1>1. DS!AddLeafBuffer(x, i, leaf, obj, ref) = z
  <2> HIDE DEF c
  <2>1. DS!AddLeafBuffer(x, i, leaf, obj, ref) = [x EXCEPT !.mem.buffer[i].leaves = Append(@, c)]
    BY DEF DS!AddLeafBuffer, c
  <2> QED
    BY <1>0, <2>1 DEF WithBuffer, BooksDs, HasState, SyncFields
<1>2. c.ref = ref
  OBVIOUS
<1> HIDE DEF c
<1>3. ref \notin OfNodes(b) /\ OfNode(b[i]) \subseteq OfNodes(b)
  BY DEF AccountedDs, OfNodes
<1>4. e.ref = b[i].ref /\ e.leaves = s /\ DOMAIN e = DOMAIN b[i]
  BY <1>0
<1>5. Distinct(s) /\ RefsOf(s) = RefsOf(b[i].leaves) \cup {ref}
  <2>1. Distinct(b[i].leaves) /\ c.ref \notin RefsOf(b[i].leaves)
    BY <1>0, <1>2, <1>3, SMTT(40) DEF IsNode, OfNode
  <2> QED
    BY <1>2, <2>1, DistinctAppended
<1> HIDE DEF s, e
<1>6. IsNode(e) /\ OfNode(e) = OfNode(b[i]) \cup {ref}
  BY <1>0, <1>3, <1>4, <1>5 DEF IsNode, OfNode, Root
<1>7. IsNodes(t) /\ OfNodes(t) = OfNodes(b) \cup {ref} /\ DOMAIN t = DOMAIN b
  BY <1>0, <1>3, <1>6, NodeReplaced
<1>8. SyncEntries(t)
  <2>1. IsSeq(t) /\ t[i] = e /\ \A j \in DOMAIN b \ {i} : t[j] = b[j]
    BY <1>0, SeqExcept
  <2> HIDE DEF t
  <2> QED
    BY <1>0, <1>4, <1>7, <2>1 DEF SyncEntries
<1> HIDE DEF t
<1>9. BooksDs(z) /\ SettledDs(z) = SettledDs(x) /\ z.mem.buffer = t
  BY <1>0, <1>8, BufferChangedDs
<1> HIDE DEF z
<1>10. LedgerDs(z)
  BY <1>7, <1>9 DEF LedgerDs, AccountedDs, b
<1>11. MovesDs(x, z, {ref})
  BY <1>7, <1>9, <1>10 DEF MovesDs, AccountedDs, b
<1> QED
  BY <1>1, <1>11

\* UpdateLeafObjectL.
LEMMA BufferedDs ==
  ASSUME NEW x, IsSeq(x.mem.buffer), NEW node
  PROVE  DS!GetBufferIndex(x, node) > 0 => DS!GetBufferIndex(x, node) \in DOMAIN x.mem.buffer
<1> DEFINE b == x.mem.buffer
           I == {i \in 1 .. Len(b) : b[i].node = node}
<1>1. DOMAIN b = 1 .. Len(b) /\ Len(b) \in Nat
  BY SeqDomain
<1>2. DS!GetBufferIndex(x, node) = IF I # {} THEN DS!Min(I) ELSE 0
  BY DEF DS!GetBufferIndex, DS!SelectInSeq
<1>3. I \subseteq DOMAIN b /\ I \in SUBSET Nat
  BY <1>1
<1> HIDE DEF b, I
<1>4. I # {} => DS!Min(I) \in I
  BY <1>3, LeastNumber DEF DS!Min
<1> QED
  BY <1>2, <1>3, <1>4 DEF b

LEMMA UpdatedDs ==
  ASSUME NEW x, LedgerDs(x), NEW node, NEW leaf, NEW obj, NEW ref, ref \notin AccountedDs(x),
         DS!GetDSField[leaf] = "Port" => PortRef(ref)
  PROVE  MovesDs(x, DS!UpdateLeafObject(x, node, leaf, obj, ref), {ref})
<1> DEFINE i == DS!GetBufferIndex(x, node)
           y == IF DS!LuidOf(x.map, node) = DS!NoLuid /\ DS!IsDSAccUriFormatMatchPredefined(node)
                  THEN DS!ConstructTree(x) ELSE x
           luid == DS!LuidOf(y.map, node)
           account == DS!UpdateAccount(x, node, leaf, obj, ref)
           kept == DS!AddLeafBuffer(y, i, leaf, obj, ref)
           task == DS!UpdateTask(y, node, luid, leaf, obj, ref)
           z == DS!UpdateLeafObject(x, node, leaf, obj, ref)
<1>1. z = account \/ (i > 0 /\ z = kept) \/ z = task
  BY DEF DS!UpdateLeafObject
<1>2. BooksDs(x) /\ ref \notin SettledDs(x) /\ {ref} \cap OfNodes(x.mem.buffer) = {}
      /\ IsSeq(x.mem.buffer)
  BY DEF LedgerDs, AccountedDs, IsNodes
<1>3. i > 0 => i \in DOMAIN x.mem.buffer
  BY <1>2, BufferedDs
<1>4. QuietDs(x, y)
  BY <1>2, QuietTree, BooksDsState
<1> HIDE DEF i, y, z, luid
<1>5. LedgerDs(y) /\ AccountedDs(y) = AccountedDs(x) /\ DOMAIN y.mem.buffer = DOMAIN x.mem.buffer
  BY <1>4, QuietLedgerDs DEF QuietDs, SameNodes
<1>6. SettlesDs(x, account, {ref})
  BY <1>2, AccountUpdated
<1> HIDE DEF account
<1>7. MovesDs(x, account, {ref})
  BY <1>2, <1>6, SettlesMovesDs
<1>8. AtOnceDs(y, task, ref)
  BY <1>5, TaskUpdated DEF LedgerDs
<1> HIDE DEF task
<1>9. MovesDs(y, task, {ref})
  BY <1>5, <1>8, AtOnceHandledDs
<1>10. i > 0 => MovesDs(y, kept, {ref})
  BY <1>3, <1>5, LeafBufferedDs
<1> HIDE DEF kept
<1>11. MovesDs(x, z, {ref})
  BY <1>1, <1>4, <1>7, <1>9, <1>10, QuietMovesDs
<1> QED
  BY <1>11 DEF z

\* Handlers that answer at once.
LEMMA AnsweredAtOnceDs ==
  ASSUME NEW x, NEW y, QuietDs(x, y), NEW ref, NEW s
  PROVE  AtOnceDs(x, DS!SetStatus(y, ref, s), ref)
BY DEF AtOnceDs

\* AddNodeObjectL.
LEMMA AccountAdded ==
  ASSUME NEW x, BooksDs(x), NEW node, NEW p, NEW ref
  PROVE  AtOnceDs(x, DS!AddAccount(x, node, p, ref), ref)
<1> DEFINE luid == DS!Luid(x.map, node)
           y == [x EXCEPT !.mem.parent = luid]
           n == DS!Without(y.map, {DS!GetDynamicDSNodeUri(node)})
           u == [y EXCEPT !.map = n]
           d == DS!With(u.db, p, DS!NewProfile)
           v == [u EXCEPT !.db = d]
           w == DS!SetMapping(v, node, p)
           z == DS!AddAccount(x, node, p, ref)
<1>1. QuietDs(x, y)
  BY QuietDsParent, BooksDsState
<1>2. BooksDs(y)
  BY <1>1, QuietDsBooks
<1>3. DS!RemoveMapping(y, DS!GetDynamicDSNodeUri(node)) = u
  <2> HIDE DEF y
  <2> QED
    BY <1>2 DEF DS!RemoveMapping, BooksDs, HasState
<1>4. QuietDs(y, u)
  <2> HIDE DEF y, n
  <2> QED
    BY <1>2, QuietDsMap, BooksDsState
<1>5. BooksDs(u)
  BY <1>2, <1>4, QuietDsBooks
<1>6. DS!CreateNewProfile(u, p) = v
  <2> HIDE DEF u
  <2> QED
    BY <1>5 DEF DS!CreateNewProfile, BooksDs, HasState
<1>7. QuietDs(u, v)
  <2> HIDE DEF u, d
  <2> QED
    BY <1>5, QuietDsDb, BooksDsState
<1>8. QuietDs(v, w)
  <2>1. BooksDs(v)
    BY <1>5, <1>7, QuietDsBooks
  <2> HIDE DEF v
  <2> QED
    BY <2>1, QuietDsMapping
<1>9. z = DS!SetStatus(y, ref, "EAlreadyExists") \/ z = DS!SetStatus(w, ref, "EOk")
  <2> HIDE DEF v, n, d, u
  <2> QED
    BY <1>3, <1>6, Zenon DEF DS!AddAccount
<1> HIDE DEF y, u, v, w, z
<1>10. QuietDs(x, w)
  BY <1>1, <1>4, <1>7, <1>8, QuietDsTransitive
<1> QED
  BY <1>1, <1>9, <1>10, AnsweredAtOnceDs DEF z

LEMMA TaskAdded ==
  ASSUME NEW x, LedgerDs(x), NEW node, NEW ref, ref \notin AccountedDs(x)
  PROVE  MovesDs(x, DS!AddTask(x, node, ref), {ref})
<1> DEFINE luid == DS!LuidOf(x.map, node)
           y == [x EXCEPT !.mem.parent = luid]
           kept == DS!AddNodeBuffer(y, node, luid, ref)
           said == DS!SetStatus(y, ref, "EOk")
           z == DS!AddTask(x, node, ref)
<1>1. z = kept \/ z = said
  BY Zenon DEF DS!AddTask
<1>2. QuietDs(x, y)
  BY QuietDsParent, BooksDsState DEF LedgerDs
<1> HIDE DEF luid, y, z
<1>3. LedgerDs(y) /\ AccountedDs(y) = AccountedDs(x)
  BY <1>2, QuietLedgerDs
<1>4. MovesDs(y, kept, {ref})
  BY <1>3, TaskBuffered
<1>5. AtOnceDs(x, said, ref)
  BY <1>2, AnsweredAtOnceDs
<1> HIDE DEF kept, said
<1>6. MovesDs(x, kept, {ref})
  BY <1>2, <1>4, QuietMovesDs
<1>7. MovesDs(x, said, {ref})
  BY <1>5, AtOnceHandledDs
<1> QED
  BY <1>1, <1>6, <1>7 DEF z

LEMMA DBAdded ==
  ASSUME NEW x, BooksDs(x), NEW node, NEW ref
  PROVE  AtOnceDs(x, DS!AddDB(x, node, ref), ref)
<1> DEFINE luid == DS!Luid(x.map, node)
           y == [x EXCEPT !.mem.parent = luid]
           s == IF DS!FindProfileId(x.db, luid) THEN "EOk" ELSE "EError"
           z == DS!AddDB(x, node, ref)
<1>1. z = DS!SetStatus(y, ref, s)
  BY DEF DS!AddDB
<1>2. QuietDs(x, y)
  BY QuietDsParent, BooksDsState
<1> HIDE DEF y, s, z
<1> QED
  BY <1>1, <1>2, AnsweredAtOnceDs DEF z

\* DeleteObjectL.
LEMMA AccountDeleted ==
  ASSUME NEW x, BooksDs(x), NEW node, NEW ref
  PROVE  AtOnceDs(x, DS!DeleteAccount(x, node, ref), ref)
<1> DEFINE p == DS!Luid(x.map, node)
           d == DS!Without(x.db, {p})
           y == [x EXCEPT !.db = d]
           nothing == ""
           w == [y EXCEPT !.mem.prevURI = nothing, !.mem.prevLUID = 0]
           z == DS!DeleteAccount(x, node, ref)
<1>1. DS!DeleteProfile(x, p) = y
  BY DEF DS!DeleteProfile, BooksDs, HasState
<1>2. z = DS!SetStatus(x, ref, "ENotFound") \/ z = DS!SetStatus(w, ref, "EOk")
  <2> HIDE DEF y
  <2> QED
    BY <1>1, Zenon DEF DS!DeleteAccount
<1>3. QuietDs(x, y)
  <2> HIDE DEF d
  <2> QED
    BY QuietDsDb, BooksDsState, SMTT(40)
<1> HIDE DEF y, nothing, z
<1>4. QuietDs(y, w)
  BY <1>3, QuietDsBooks, BooksDsState, QuietDsPrevious
<1> HIDE DEF w
<1>5. QuietDs(x, w)
  BY <1>3, <1>4, QuietDsTransitive
<1> QED
  BY <1>2, <1>5, AnsweredAtOnceDs, BooksDsState DEF z

LEMMA TaskDeleted ==
  ASSUME NEW x, BooksDs(x), NEW node, NEW ref
  PROVE  AtOnceDs(x, DS!DeleteTask(x, node, ref), ref)
<1> DEFINE p == DS!GetProfileIdFromURI(x, node)
           q == DS!LuidOf(x.map, node)
           y == DS!Remember(x, node)
           d == [y.db EXCEPT ![p].tasks = DS!Without(@, {q})]
           w == [y EXCEPT !.db = d]
           z == DS!DeleteTask(x, node, ref)
<1>1. QuietDs(x, y)
  BY QuietTree
<1>2. BooksDs(y)
  BY <1>1, QuietDsBooks
<1>3. DS!DeleteTaskByID(y, p, q) = w
  <2> HIDE DEF y, p, q
  <2> QED
    BY <1>2 DEF DS!DeleteTaskByID, BooksDs, HasState
<1>4. \/ \E s : z = DS!SetStatus(x, ref, s)
      \/ \E s : z = DS!SetStatus(y, ref, s)
      \/ z = DS!SetStatus(w, ref, "EOk")
  <2> HIDE DEF d
  <2> QED
    BY <1>3, Zenon DEF DS!DeleteTask
<1> HIDE DEF y, d, z
<1>5. QuietDs(y, w)
  BY <1>2, QuietDsDb, BooksDsState
<1> HIDE DEF w
<1>6. QuietDs(x, w) /\ QuietDs(x, x)
  BY <1>1, <1>5, QuietDsTransitive, BooksDsState
<1> QED
  BY <1>1, <1>4, <1>6, AnsweredAtOnceDs DEF z

LEMMA LeafDeletedDs ==
  ASSUME NEW x, LedgerDs(x), NEW node, NEW leaf, NEW ref, ref \notin AccountedDs(x),
         DS!GetDSField[leaf] = "Port" => PortRef(ref)
  PROVE  MovesDs(x, DS!DeleteLeaf(x, node, leaf, ref), {ref})
<1> DEFINE p == DS!LuidOf(x.map, node)
           y == [x EXCEPT !.mem.parent = p]
           u == [y EXCEPT !.mem.leafType = "EDSDelete"]
           v == DS!UpdateAccount(u, node, leaf, DS!Nothing, ref)
           w == [v EXCEPT !.mem.leafType = "EDSUnset"]
           z == DS!DeleteLeaf(x, node, leaf, ref)
<1>1. z = w \/ \E s : z = DS!SetStatus(x, ref, s)
  BY Zenon DEF DS!DeleteLeaf
<1>2. BooksDs(x) /\ QuietDs(x, x) /\ ref \notin SettledDs(x)
      /\ {ref} \cap OfNodes(x.mem.buffer) = {}
  BY BooksDsState DEF LedgerDs, AccountedDs
<1>3. QuietDs(x, y)
  BY <1>2, QuietDsParent, BooksDsState
<1> HIDE DEF p, y, z
<1>4. QuietDs(y, u)
  BY <1>2, <1>3, QuietDsBooks, QuietDsLeafType, BooksDsState
<1> HIDE DEF u
<1>5. QuietDs(x, u)
  BY <1>3, <1>4, QuietDsTransitive
<1>6. BooksDs(u) /\ ref \notin SettledDs(u)
  BY <1>2, <1>5, QuietDsBooks
<1>7. SettlesDs(u, v, {ref})
  BY <1>6, AccountUpdated
<1> HIDE DEF v
<1>8. QuietDs(v, w)
  BY <1>7, QuietDsLeafType, BooksDsState DEF SettlesDs
<1> HIDE DEF w
<1>9. SettlesDs(x, w, {ref})
  BY <1>2, <1>5, <1>7, <1>8, QuietDsSettles, SettlesDsQuiet
<1>10. MovesDs(x, w, {ref})
  BY <1>2, <1>9, SettlesMovesDs
<1>11. \A s : MovesDs(x, DS!SetStatus(x, ref, s), {ref})
  BY <1>2, AnsweredAtOnceDs, AtOnceHandledDs
<1> QED
  BY <1>1, <1>10, <1>11 DEF z

\* ChildURIListL.
LEMMA ListedDs ==
  ASSUME NEW x, BooksDs(x), NEW ref
  PROVE  /\ AtOnceDs(x, DS!ListAccounts(x, ref), ref)
         /\ \A node : AtOnceDs(x, DS!ListAccount(x, node, ref), ref)
         /\ \A acc : AtOnceDs(x, DS!ListTasks(x, acc, ref), ref)
<1>0. QuietDs(x, x) /\ \A n : QuietDs(x, [x EXCEPT !.map = n])
  BY QuietDsMap, BooksDsState
<1>1. AtOnceDs(x, DS!ListAccounts(x, ref), ref)
  <2> DEFINE z == DS!ListAccounts(x, ref)
  <2>1. \/ z = DS!SetStatus(x, ref, "ENotFound")
        \/ \E n : z = DS!SetStatus([x EXCEPT !.map = n], ref, "EOk")
    BY DEF DS!ListAccounts
  <2> HIDE DEF z
  <2> QED
    BY <1>0, <2>1, AnsweredAtOnceDs DEF z
<1>2. ASSUME NEW acc
      PROVE  AtOnceDs(x, DS!ListTasks(x, acc, ref), ref)
  <2> DEFINE z == DS!ListTasks(x, acc, ref)
  <2>1. \/ z = DS!SetStatus(x, ref, "ENotFound")
        \/ \E n : z = DS!SetStatus([x EXCEPT !.map = n], ref, "EOk")
    BY DEF DS!ListTasks
  <2> HIDE DEF z
  <2> QED
    BY <1>0, <2>1, AnsweredAtOnceDs DEF z
<1>3. ASSUME NEW node
      PROVE  AtOnceDs(x, DS!ListAccount(x, node, ref), ref)
  <2> DEFINE z == DS!ListAccount(x, node, ref)
             y == DS!ConstructTree(x)
  <2>1. \/ \E s : z = DS!SetStatus(x, ref, s)
        \/ \E s : z = DS!SetStatus(y, ref, s)
    BY Zenon DEF DS!ListAccount
  <2> HIDE DEF z
  <2>2. QuietDs(x, y)
    BY QuietTree
  <2> HIDE DEF y
  <2> QED
    BY <1>0, <2>1, <2>2, AnsweredAtOnceDs DEF z
<1> QED
  BY <1>1, <1>2, <1>3

\* FetchObjectL.
LEMMA FetchedDs ==
  ASSUME NEW x, BooksDs(x), NEW node, NEW leaf, NEW ref
  PROVE  AtOnceDs(x, DS!FetchLeafObject(x, node, leaf, ref), ref)
<1> DEFINE y == IF DS!LuidOf(x.map, node) = DS!NoLuid /\ DS!IsDSAccUriFormatMatchPredefined(node)
                  THEN DS!ConstructTree(x) ELSE x
           w == DS!Remember(y, node)
           r == DS!FetchObject(x, node, leaf)
           z == DS!FetchLeafObject(x, node, leaf, ref)
<1>1. \E s : z = DS!SetStatus(r.x, ref, s)
  BY Zenon DEF DS!FetchLeafObject
<1>2. r.x = w \/ r.x = y
  <2> DEFINE a(e) == [x |-> w, err |-> e]
             b(e) == [x |-> y, err |-> e]
  <2>1. (\E e : r = a(e)) \/ (\E e : r = b(e))
    BY Zenon DEF DS!FetchObject
  <2> HIDE DEF r, w, y
  <2> QED
    BY <2>1
<1>3. QuietDs(x, y)
  BY QuietTree, BooksDsState
<1> HIDE DEF y, r, z
<1>4. QuietDs(y, w)
  BY <1>3, QuietDsBooks, QuietTree
<1> HIDE DEF w
<1>5. QuietDs(x, w)
  BY <1>3, <1>4, QuietDsTransitive
<1>6. QuietDs(x, r.x)
  BY <1>2, <1>3, <1>5, SMTT(40)
<1> QED
  BY <1>1, <1>6, AnsweredAtOnceDs DEF z

-----------------------------------------------------------------------------
(* Data synchronization: the invariant. *)

\* What may stay open: leaves, and nodes that are tasks.
Waits(r) == r.op \in {"node", "leaf"} /\ (r.op = "node" => r.name.task # "")
KeptDs(x, o) ==
  /\ LedgerDs(x)
  /\ AccountedDs(x) \subseteq o
  /\ \A r \in o \ AccountedDs(x) : PortRef(r)
  /\ \A r \in o : Waits(r)
InvDs == adapter = "DS" /\ KeptDs(Start(mem, db, map), open) /\ wrong = {}

LEMMA NextLedgerDs ==
  ASSUME NEW z, LedgerDs(z), NEW d, NEW n
  PROVE  LET y == Start(z.mem, d, n)
         IN  LedgerDs(y) /\ AccountedDs(y) = AccountedDs(z) \ Answered(z)
<1> DEFINE y == Start(z.mem, d, n)
<1>1. HasState(y) /\ y.mem = z.mem /\ Distinct(y.said) /\ Answered(y) = {}
  BY StartState
<1> HIDE DEF y
<1>2. BooksDs(y) /\ SettledDs(y) = RefsOf(z.mem.port)
  BY <1>1 DEF LedgerDs, BooksDs, SettledDs
<1>3. LedgerDs(y) /\ AccountedDs(y) = RefsOf(z.mem.port) \cup OfNodes(z.mem.buffer)
  BY <1>1, <1>2 DEF LedgerDs, AccountedDs, SettledDs
<1>4. AccountedDs(z) \ Answered(z) = RefsOf(z.mem.port) \cup OfNodes(z.mem.buffer)
  BY DEF LedgerDs, BooksDs, AccountedDs, SettledDs
<1> QED
  BY <1>3, <1>4 DEF y

LEMMA ServedDs ==
  ASSUME InvDs, adapter' = adapter, NEW R, R \cap open = {}, NEW z,
         MovesDs(Start(mem, db, map), z, R), Called(R, z),
         \A r \in R : r \in Answered(z) \/ Waits(r)
  PROVE  InvDs'
<1> DEFINE x == Start(mem, db, map)
           y == Start(mem', db', map')
<1>1. Distinct(z.said) /\ LedgerDs(z) /\ Answered(z) \subseteq AccountedDs(z)
  BY DEF MovesDs, LedgerDs, BooksDs, AccountedDs, SettledDs
<1>2. KeptDs(x, open) /\ MovesDs(x, z, R) /\ wrong = {}
  BY DEF InvDs
<1> HIDE DEF x
<1>3. Answered(z) \subseteq open \cup R
  BY <1>1, <1>2 DEF MovesDs, KeptDs
<1>4. mem' = z.mem /\ wrong' = wrong /\ open' = (open \cup R) \ Answered(z)
  BY <1>1, <1>3, CalledDistinct
<1>5. LedgerDs(y) /\ AccountedDs(y) = AccountedDs(z) \ Answered(z)
  BY <1>1, <1>4, NextLedgerDs
<1> HIDE DEF y
<1>6. KeptDs(y, open')
  BY <1>2, <1>4, <1>5 DEF KeptDs, MovesDs
<1> QED
  BY <1>2, <1>4, <1>6 DEF InvDs, y

\* A new object, or a new session.
LEMMA FreshDs ==
  ASSUME NEW d, NEW n
  PROVE  KeptDs(Start(DS!NewMem, d, n), {})
<1> DEFINE m == DS!NewMem
           x == Start(m, d, n)
<1>1. m.buffer = << >> /\ m.port = << >> /\ SyncFields \subseteq DOMAIN m
  BY DEF DS!NewMem, SyncFields
<1> HIDE DEF m
<1>2. HasState(x) /\ x.mem = m /\ Distinct(x.said) /\ Answered(x) = {}
  BY StartState
<1> HIDE DEF x
<1>3. DOMAIN << >> = {} /\ IsSeq(<< >>)
  BY DistinctEmpty DEF Distinct
<1>4. BooksDs(x) /\ SettledDs(x) = {}
  BY <1>1, <1>2, <1>3, OnePort DEF BooksDs, SyncEntries, SettledDs
<1>5. LedgerDs(x) /\ AccountedDs(x) = {}
  BY <1>1, <1>2, <1>4, NodesEmpty DEF LedgerDs, AccountedDs
<1> QED
  BY <1>5 DEF KeptDs, x, m

\* The profiles may be any.
LEMMA ElsewhereDs ==
  ASSUME NEW m, NEW d, NEW e, NEW n, NEW o, KeptDs(Start(m, d, n), o)
  PROVE  KeptDs(Start(m, e, n), o)
<1> DEFINE x == Start(m, d, n)
           y == Start(m, e, n)
<1>1. HasState(x) /\ x.mem = m /\ x.said = << >> /\ Answered(x) = {}
  BY StartState
<1>2. HasState(y) /\ y.mem = m /\ y.said = << >> /\ Answered(y) = {}
  BY StartState
<1>3. KeptDs(x, o)
  OBVIOUS
<1> HIDE DEF x, y
<1>4. LedgerDs(y) /\ AccountedDs(y) = AccountedDs(x)
  BY <1>1, <1>2, <1>3 DEF KeptDs, LedgerDs, BooksDs, SettledDs, AccountedDs
<1>5. KeptDs(y, o)
  BY <1>3, <1>4 DEF KeptDs
<1> QED
  BY <1>5 DEF y

\* A command that is new to the adapter, before it is handled.
LEMMA OfferedDs ==
  ASSUME InvDs, NEW ref, ref \notin open
  PROVE  LedgerDs(Start(mem, db, map)) /\ ref \notin AccountedDs(Start(mem, db, map))
BY DEF InvDs, KeptDs

LEMMA ServedAtOnceDs ==
  ASSUME InvDs, adapter' = adapter, NEW ref, ref \notin open,
         NEW z, AtOnceDs(Start(mem, db, map), z, ref), Called({ref}, z)
  PROVE  InvDs'
<1>1. MovesDs(Start(mem, db, map), z, {ref}) /\ ref \in Answered(z)
  BY OfferedDs, AtOnceHandledDs
<1> QED
  BY <1>1, ServedDs

LEMMA ServedLaterDs ==
  ASSUME InvDs, adapter' = adapter, NEW ref, Waits(ref), ref \notin open,
         NEW z, MovesDs(Start(mem, db, map), z, {ref}), Called({ref}, z)
  PROVE  InvDs'
BY ServedDs

\* The references of the commands.
LEMMA RefsDs ==
  ASSUME InvDs
  PROVE  /\ \A name : DS!NodeRef(DS!Account(name)) \notin open
         /\ DS!Now \notin open /\ \A names : DS!DeleteRef(names) \notin open
<1>1. \A r \in open : Waits(r)
  BY DEF InvDs, KeptDs
<1>2. ASSUME NEW name, DS!NodeRef(DS!Account(name)) \in open
      PROVE  FALSE
  <2> DEFINE nothing == ""
             a == DS!Account(name)
             r == DS!NodeRef(a)
  <2>1. a.task = nothing
    BY DEF DS!Account
  <2> HIDE DEF a
  <2>2. r.op = "node" /\ r.name = a
    BY DEF DS!NodeRef
  <2> HIDE DEF r
  <2>3. r.name.task # nothing
    <3>1. Waits(r)
      BY <1>1, <1>2 DEF r, a
    <3> QED
      BY <2>2, <3>1, Zenon DEF Waits
  <2> QED
    BY <2>1, <2>2, <2>3
<1>3. DS!Now \notin open
  <2>1. DS!Now.op = "now"
    BY DEF DS!Now
  <2> QED
    BY <1>1, <2>1 DEF Waits
<1>4. ASSUME NEW names
      PROVE  DS!DeleteRef(names) \notin open
  <2>1. DS!DeleteRef(names).op = "delete"
    BY DEF DS!DeleteRef
  <2> QED
    BY <1>1, <2>1 DEF Waits
<1> QED
  BY <1>2, <1>3, <1>4

LEMMA TaskRef ==
  ASSUME NEW name, NEW task \in SyncTasks
  PROVE  Waits(DS!NodeRef(DS!Task(name, task)))
<1> DEFINE a == DS!Task(name, task)
           r == DS!NodeRef(a)
           nothing == ""
<1>1. a.task = task
  BY DEF DS!Task
<1> HIDE DEF a
<1>2. r.op = "node" /\ r.name = a
  BY DEF DS!NodeRef
<1> HIDE DEF r
<1>3. task # nothing
  BY SyncTasksAssumption
<1>4. r.name.task # nothing
  BY <1>1, <1>2, <1>3
<1>5. r.op \in {"node", "leaf"}
  BY <1>2
<1> QED
  BY <1>4, <1>5, Zenon DEF Waits, r, a

LEMMA LeafRefDs ==
  ASSUME NEW node, NEW leaf \in SyncLeaves \cup SyncTaskLeaves, NEW text
  PROVE  LET ref == DS!LeafRef(node, leaf, text)
         IN  /\ Waits(ref) /\ (DS!GetDSField[leaf] = "Port" => PortRef(ref))
             /\ DS!Sendable(node, leaf) => ref \notin open
<1> DEFINE ref == DS!LeafRef(node, leaf, text)
<1>1. ref.op = "leaf" /\ ref.name = node /\ ref.leaf = leaf
  BY DEF DS!LeafRef
<1> HIDE DEF ref
<1>2. DS!GetDSField[leaf] = "Port" => leaf = "PortNbr"
  <2>1. leaf \in DOMAIN DS!GetDSField
    BY SyncLeavesAssumption
  <2> QED
    BY <2>1 DEF DS!GetDSField
<1>3. Waits(ref)
  <2>1. ref.op \in {"node", "leaf"} /\ ref.op # "node"
    BY <1>1
  <2> QED
    BY <2>1, Zenon DEF Waits
<1>4. DS!Sendable(node, leaf) => ref \notin open
  BY <1>1 DEF DS!Sendable
<1> QED
  BY <1>1, <1>2, <1>3, <1>4 DEF PortRef, ref

LEMMA StepDs ==
  ASSUME InvDs, adapter' = adapter, DS!Next
  PROVE  InvDs'
<1> DEFINE x == Start(mem, db, map)
<1>0. DS!X = x /\ BooksDs(x)
  BY DEF DS!X, Start, InvDs, KeptDs, LedgerDs
<1>00. InvDs /\ adapter' = adapter
  OBVIOUS
<1>000. x = Start(mem, db, map)
  OBVIOUS
<1> HIDE DEF x
<1>1. CASE DS!AddNode
  <2>1. CASE \E name \in SyncNames, p \in DS!Free :
               DS!Serve({DS!NodeRef(DS!Account(name))},
                        DS!AddAccount(x, DS!Account(name), p, DS!NodeRef(DS!Account(name))))
    <3>1. PICK name, p : DS!Serve({DS!NodeRef(DS!Account(name))},
                        DS!AddAccount(x, DS!Account(name), p, DS!NodeRef(DS!Account(name))))
      BY <2>1
    <3> DEFINE ref == DS!NodeRef(DS!Account(name))
               z == DS!AddAccount(x, DS!Account(name), p, ref)
    <3>2. Called({ref}, z)
      BY <3>1 DEF DS!Serve, Called, Answered, Again
    <3>3. ref \notin open
      BY <1>00, RefsDs
    <3>4. AtOnceDs(x, z, ref)
      BY <1>0, AccountAdded
    <3> HIDE DEF z, ref
    <3> QED
      BY <1>00, <1>000, <3>2, <3>3, <3>4, ServedAtOnceDs
  <2>2. CASE \E name \in SyncNames, task \in SyncTasks :
               LET node == DS!Task(name, task)
               IN  /\ DS!NodeRef(node) \notin open
                   /\ DS!Serve({DS!NodeRef(node)}, DS!AddTask(x, node, DS!NodeRef(node)))
    <3>1. PICK name \in SyncNames, task \in SyncTasks :
               LET node == DS!Task(name, task)
               IN  /\ DS!NodeRef(node) \notin open
                   /\ DS!Serve({DS!NodeRef(node)}, DS!AddTask(x, node, DS!NodeRef(node)))
      BY <2>2
    <3> DEFINE ref == DS!NodeRef(DS!Task(name, task))
               z == DS!AddTask(x, DS!Task(name, task), ref)
    <3>2. Called({ref}, z) /\ ref \notin open
      BY <3>1 DEF DS!Serve, Called, Answered, Again
    <3>3. Waits(ref)
      BY TaskRef
    <3> HIDE DEF ref
    <3>4. MovesDs(x, z, {ref})
      BY <1>00, <1>000, <3>2, OfferedDs, TaskAdded
    <3> HIDE DEF z
    <3> QED
      BY <1>00, <1>000, <3>2, <3>3, <3>4, ServedLaterDs
  <2>3. CASE \E name \in SyncNames : DS!Serve({DS!Now}, DS!AddDB(x, DS!Account(name), DS!Now))
    <3>1. PICK name : DS!Serve({DS!Now}, DS!AddDB(x, DS!Account(name), DS!Now))
      BY <2>3
    <3> DEFINE z == DS!AddDB(x, DS!Account(name), DS!Now)
    <3>2. Called({DS!Now}, z)
      BY <3>1 DEF DS!Serve, Called, Answered, Again
    <3>3. AtOnceDs(x, z, DS!Now) /\ DS!Now \notin open
      BY <1>0, <1>00, DBAdded, RefsDs
    <3> HIDE DEF z
    <3> QED
      BY <1>00, <1>000, <3>2, <3>3, ServedAtOnceDs
  <2> QED
    BY <1>0, <1>1, <2>1, <2>2, <2>3, Zenon DEF DS!AddNode
<1>2. CASE DS!UpdateLeaf
  <2> DEFINE Sent(node, leaf, obj) ==
               LET ref == DS!LeafRef(node, leaf, obj.text)
               IN  /\ DS!Sendable(node, leaf)
                   /\ DS!Serve({ref}, DS!UpdateLeafObject(x, node, leaf, obj, ref))
  <2>1. PICK node, obj, leaf : leaf \in SyncLeaves \cup SyncTaskLeaves /\ Sent(node, leaf, obj)
    <3>1. CASE \E acc \in DS!AllAccounts, leaf \in SyncLeaves : \E obj \in SyncObjects[leaf] :
                 Sent(DS!Account(acc), leaf, obj)
      <4> HIDE DEF Sent
      <4> QED
        BY <3>1
    <3>2. CASE \E acc \in DS!AllAccounts, leaf \in SyncTaskLeaves :
                 \E task \in DS!AllTasks(acc), obj \in SyncObjects[leaf] :
                   Sent(DS!Task(acc, task), leaf, obj)
      <4> HIDE DEF Sent
      <4> QED
        BY <3>2, SMTT(40)
    <3> QED
      BY <1>0, <1>2, <3>1, <3>2, Zenon DEF DS!UpdateLeaf
  <2> DEFINE ref == DS!LeafRef(node, leaf, obj.text)
             z == DS!UpdateLeafObject(x, node, leaf, obj, ref)
  <2>2. Called({ref}, z)
    BY <2>1 DEF DS!Serve, Called, Answered, Again
  <2>3. Waits(ref) /\ (DS!GetDSField[leaf] = "Port" => PortRef(ref)) /\ ref \notin open
    BY <2>1, LeafRefDs
  <2> HIDE DEF ref
  <2>4. LedgerDs(x) /\ ref \notin AccountedDs(x)
    BY <1>00, <1>000, <2>3, OfferedDs
  <2>5. MovesDs(x, z, {ref})
    BY <2>3, <2>4, UpdatedDs
  <2> HIDE DEF z
  <2> QED
    BY <1>00, <1>000, <2>2, <2>3, <2>5, ServedLaterDs
<1>3. CASE DS!Delete
  <2>1. CASE \E acc \in DS!AllAccounts :
               LET ref == DS!DeleteRef(DS!Below(acc) \cup {DS!Account(acc)})
               IN  DS!Serve({ref}, DS!DeleteAccount(x, DS!Account(acc), ref))
    <3>1. PICK acc : LET ref == DS!DeleteRef(DS!Below(acc) \cup {DS!Account(acc)})
                     IN  DS!Serve({ref}, DS!DeleteAccount(x, DS!Account(acc), ref))
      BY <2>1
    <3> DEFINE ref == DS!DeleteRef(DS!Below(acc) \cup {DS!Account(acc)})
               z == DS!DeleteAccount(x, DS!Account(acc), ref)
    <3>2. Called({ref}, z)
      BY <3>1 DEF DS!Serve, Called, Answered, Again
    <3>3. ref \notin open
      BY <1>00, RefsDs
    <3> HIDE DEF ref
    <3>4. AtOnceDs(x, z, ref)
      BY <1>0, AccountDeleted
    <3> HIDE DEF z
    <3> QED
      BY <1>00, <1>000, <3>2, <3>3, <3>4, ServedAtOnceDs
  <2>2. CASE \E node \in DS!TaskNodes :
               DS!Serve({DS!DeleteRef({node})}, DS!DeleteTask(x, node, DS!DeleteRef({node})))
    <3>1. PICK node : DS!Serve({DS!DeleteRef({node})},
                               DS!DeleteTask(x, node, DS!DeleteRef({node})))
      BY <2>2
    <3> DEFINE ref == DS!DeleteRef({node})
               z == DS!DeleteTask(x, node, ref)
    <3>2. Called({ref}, z)
      BY <3>1 DEF DS!Serve, Called, Answered, Again
    <3>3. ref \notin open
      BY <1>00, RefsDs
    <3> HIDE DEF ref
    <3>4. AtOnceDs(x, z, ref)
      BY <1>0, TaskDeleted
    <3> HIDE DEF z
    <3> QED
      BY <1>00, <1>000, <3>2, <3>3, <3>4, ServedAtOnceDs
  <2>3. CASE \E acc \in DS!AllAccounts, leaf \in SyncLeaves :
               LET ref == DS!LeafRef(DS!Account(acc), leaf, "")
               IN  /\ DS!Sendable(DS!Account(acc), leaf)
                   /\ DS!Serve({ref}, DS!DeleteLeaf(x, DS!Account(acc), leaf, ref))
    <3> DEFINE nothing == ""
    <3>1. PICK acc \in DS!AllAccounts, leaf \in SyncLeaves :
               LET ref == DS!LeafRef(DS!Account(acc), leaf, nothing)
               IN  /\ DS!Sendable(DS!Account(acc), leaf)
                   /\ DS!Serve({ref}, DS!DeleteLeaf(x, DS!Account(acc), leaf, ref))
      BY <2>3, Zenon
    <3> HIDE DEF nothing
    <3> DEFINE node == DS!Account(acc)
               ref == DS!LeafRef(node, leaf, nothing)
               z == DS!DeleteLeaf(x, node, leaf, ref)
    <3>2. DS!Serve({ref}, z) /\ DS!Sendable(node, leaf)
      BY <3>1
    <3>3. Called({ref}, z)
      BY <3>2 DEF DS!Serve, Called, Answered, Again
    <3>4. Waits(ref) /\ (DS!GetDSField[leaf] = "Port" => PortRef(ref)) /\ ref \notin open
      BY <3>2, LeafRefDs
    <3> HIDE DEF ref, node
    <3>5. LedgerDs(x) /\ ref \notin AccountedDs(x)
      BY <1>00, <1>000, <3>4, OfferedDs
    <3>6. MovesDs(x, z, {ref})
      BY <3>4, <3>5, LeafDeletedDs
    <3> HIDE DEF z
    <3> QED
      BY <1>00, <1>000, <3>3, <3>4, <3>6, ServedLaterDs
  <2> QED
    BY <1>0, <1>3, <2>1, <2>2, <2>3, Zenon DEF DS!Delete
<1>4. CASE DS!List \/ DS!Fetch
  <2>1. PICK z : DS!Serve({DS!Now}, z) /\ AtOnceDs(x, z, DS!Now)
    <3>1. CASE DS!Serve({DS!Now}, DS!ListAccounts(x, DS!Now))
      BY <1>0, <3>1, ListedDs
    <3>2. CASE \E acc \in DS!AllAccounts :
                 DS!Serve({DS!Now}, DS!ListAccount(x, DS!Account(acc), DS!Now))
      BY <1>0, <3>2, ListedDs
    <3>3. CASE \E acc \in DS!AllAccounts : DS!Serve({DS!Now}, DS!ListTasks(x, acc, DS!Now))
      BY <1>0, <3>3, ListedDs
    <3>4. CASE \E acc \in DS!AllAccounts, leaf \in SyncLeaves :
                 DS!Serve({DS!Now}, DS!FetchLeafObject(x, DS!Account(acc), leaf, DS!Now))
      BY <1>0, <3>4, FetchedDs
    <3>5. CASE \E node \in DS!TaskNodes, leaf \in SyncTaskLeaves :
                 DS!Serve({DS!Now}, DS!FetchLeafObject(x, node, leaf, DS!Now))
      BY <1>0, <3>5, FetchedDs
    <3> QED
      BY <1>0, <1>4, <3>1, <3>2, <3>3, <3>4, <3>5, Zenon DEF DS!List, DS!Fetch
  <2>2. Called({DS!Now}, z)
    BY <2>1 DEF DS!Serve, Called, Answered, Again
  <2> QED
    BY <1>00, <1>000, <2>1, <2>2, RefsDs, ServedAtOnceDs
<1> DEFINE all == DS!CompleteOutstandingCmds(x)
<1>5. MovesDs(x, all, {})
  BY <1>00, <1>000, CompletedDs DEF InvDs, KeptDs
<1> HIDE DEF all
<1>6. CASE DS!Complete
  <2>1. Called({}, all)
    BY <1>0, <1>6 DEF DS!Complete, DS!Serve, Called, Answered, Again, all
  <2> QED
    BY <1>00, <1>000, <1>5, <2>1, ServedDs
<1>7. CASE DS!EndSession
  <2>1. mem' = DS!NewMem /\ open' = {} /\ wrong' = wrong
    BY <1>7 DEF DS!EndSession, DS!EndWith
  <2>2. KeptDs(Start(DS!NewMem, db', map'), {})
    BY FreshDs
  <2> QED
    BY <2>1, <2>2 DEF InvDs
<1>8. CASE DS!UserDeletes
  <2>1. mem' = mem /\ map' = map /\ open' = open /\ wrong' = wrong
    BY <1>8 DEF DS!UserDeletes, DS!Elsewhere
  <2>2. KeptDs(Start(mem, db', map), open)
    BY ElsewhereDs DEF InvDs
  <2> QED
    BY <2>1, <2>2 DEF InvDs
<1> QED
  BY <1>1, <1>2, <1>3, <1>4, <1>6, <1>7, <1>8 DEF DS!Next

LEMMA InitialDs ==
  ASSUME adapter = "DS", DS!Init
  PROVE  InvDs
<1>1. mem = DS!NewMem /\ open = {} /\ wrong = {}
  BY DEF DS!Init, DS!DmInit
<1> QED
  BY <1>1, FreshDs DEF InvDs

\* What is open is held, or is a port.
LEMMA HeldDs ==
  ASSUME InvDs
  PROVE  DS!Held \subseteq open /\ open \subseteq DS!Held \cup DS!Dropped
<1> DEFINE x == Start(mem, db, map)
<1>1. x.mem = mem /\ Answered(x) = {}
  BY StartState
<1>2. KeptDs(x, open)
  BY DEF InvDs
<1> HIDE DEF x
<1>3. AccountedDs(x) = RefsOf(mem.port) \cup OfNodes(mem.buffer)
  BY <1>1 DEF AccountedDs, SettledDs
<1>4. OfNodes(mem.buffer) =
        UNION {{mem.buffer[i].ref} \cup
               {mem.buffer[i].leaves[j].ref : j \in DOMAIN mem.buffer[i].leaves} :
                  i \in DOMAIN mem.buffer}
  <2>1. \A i \in DOMAIN mem.buffer : "ref" \in DOMAIN mem.buffer[i]
    BY <1>1, <1>2 DEF KeptDs, LedgerDs, BooksDs, SyncEntries
  <2>2. ASSUME NEW i \in DOMAIN mem.buffer
        PROVE  OfNode(mem.buffer[i]) = {mem.buffer[i].ref} \cup
                 {mem.buffer[i].leaves[j].ref : j \in DOMAIN mem.buffer[i].leaves}
    BY <2>1 DEF OfNode, Root, RefsOf
  <2> QED
    BY <2>2 DEF OfNodes
<1>5. AccountedDs(x) = DS!Held
  BY <1>3, <1>4 DEF DS!Held, RefsOf
<1> QED
  BY <1>2, <1>5 DEF KeptDs, PortRef, DS!Dropped

-----------------------------------------------------------------------------
(* All three. *)

InvAccounts == Inv12 \/ Inv11 \/ InvDs

LEMMA InitialAccounts == AccountsInit => InvAccounts
BY Initial12, Initial11, InitialDs DEF AccountsInit, InvAccounts

LEMMA StepAccounts == InvAccounts /\ [AccountsNext]_runVars => InvAccounts'
<1> SUFFICES ASSUME InvAccounts, [AccountsNext]_runVars
             PROVE  InvAccounts'
  OBVIOUS
<1>1. CASE UNCHANGED runVars
  <2>1. adapter' = adapter /\ mem' = mem /\ db' = db /\ map' = map /\ open' = open /\ wrong' = wrong
    BY <1>1 DEF runVars, dmVars
  <2>2. Start(mem', db', map') = Start(mem, db, map)
    BY <2>1
  <2> QED
    BY <2>1, <2>2 DEF InvAccounts, Inv12, Inv11, InvDs
<1>2. CASE AccountsNext
  <2>1. adapter' = adapter
    BY <1>2 DEF AccountsNext
  <2>2. CASE Inv12
    <3>1. A12!Next
      BY <1>2, <2>2 DEF AccountsNext, Inv12
    <3> QED
      BY <2>1, <2>2, <3>1, Step12 DEF InvAccounts
  <2>3. CASE Inv11
    <3>1. A11!Next
      BY <1>2, <2>3 DEF AccountsNext, Inv11
    <3> QED
      BY <2>1, <2>3, <3>1, Step11 DEF InvAccounts
  <2>4. CASE InvDs
    <3>1. DS!Next
      BY <1>2, <2>4 DEF AccountsNext, InvDs
    <3> QED
      BY <2>1, <2>4, <3>1, StepDs DEF InvAccounts
  <2> QED
    BY <2>2, <2>3, <2>4 DEF InvAccounts
<1> QED
  BY <1>1, <1>2

LEMMA KeptAccounts == InvAccounts => AnsweredOnce /\ NothingLost
<1> SUFFICES ASSUME InvAccounts
             PROVE  AnsweredOnce /\ NothingLost
  OBVIOUS
<1>1. AnsweredOnce
  BY DEF InvAccounts, Inv12, Inv11, InvDs, AnsweredOnce
<1>2. CASE Inv12
  BY <1>1, <1>2, Held12 DEF NothingLost, Inv12
<1>3. CASE Inv11
  BY <1>1, <1>3, Held11 DEF NothingLost, Inv11
<1>4. CASE InvDs
  BY <1>1, <1>4, HeldDs DEF NothingLost, InvDs
<1> QED
  BY <1>1, <1>2, <1>3, <1>4 DEF InvAccounts

\* No command is answered twice, and what is unanswered is held by the adapter
\* that runs; what it drops is what NothingLost names.
THEOREM AccountsAnswerOnce == AccountsSpec => [](AnsweredOnce /\ NothingLost)
BY InitialAccounts, StepAccounts, KeptAccounts, PTL DEF AccountsSpec
=============================================================================
