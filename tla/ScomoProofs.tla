----------------------------- MODULE ScomoProofs -----------------------------
(***************************************************************************)
(* Proofs about the SCOMO adapter for every set of names, servers and      *)
(* objects and every bound.                                                *)
(***************************************************************************)
EXTENDS Scomo, AdapterProofs, SequenceTheorems

(* The inductive invariant, of a state that a handler gets or leaves. *)

AlertRows == [luid : Int, server : Servers \cup {""}, retry : 0 .. MaxRetry]

IsMem(m) ==
  m \in [up : {m.up}, server : Servers \cup {""}, atomic : {m.atomic}, buffer : {m.buffer},
         updated : {m.updated}, stream : {m.stream}, streamed : {m.streamed},
         streamOpen : {m.streamOpen}, statusRef : {<< >>, <<StreamRef>>}]
IsDb(d) ==
  /\ DOMAIN d = {"comp", "next", "results", "alerts", "async", "static"}
  /\ d.next \in Nat \ {0}
  /\ d.alerts \in Seq(AlertRows)

\* A mapping is to an id that was given, and a node of Download to a component
\* to download of its name only.
Own(x, node) ==
  x.map[node] \in IdsIn(x, "Download") /\ node[1] = "Download"
      => node[2] = x.db.comp[x.map[node]].user
IsMap(x) ==
  /\ x.map \in [DOMAIN x.map -> Int]
  /\ \A node \in DOMAIN x.map : x.map[node] < x.db.next /\ Own(x, node)

Good(x) ==
  /\ IsServer(x) /\ IsMem(x.mem) /\ IsDb(x.db)
  /\ Ids(x) \subseteq 1 .. x.db.next - 1
  /\ IsMap(x)

\* What was sent for a pending alert and what is left of its tries are no more than
\* the tries it was given.
Retry(rows, i) ==
  IF \E k \in DOMAIN rows : rows[k].luid = i
  THEN rows[Lowest({k \in DOMAIN rows : rows[k].luid = i})].retry ELSE 0
Budget(rows, q) ==
  \A i \in DOMAIN q : q[i] \in Nat /\ q[i] + Retry(rows, i) <= MaxRetry

Inv == Good(X) /\ open \cup wrong \subseteq {StreamRef} /\ Budget(db.alerts, queued)

\* y is a state that follows x in a handler, before its answer.
Quiet(x, y) ==
  Good(y) /\ y.said = x.said /\ y.db.alerts = x.db.alerts

USE RetryIsNat

-----------------------------------------------------------------------------
(* Pending alerts. *)

\* The least number of a set of them.
LEMMA LowestIs ==
  ASSUME NEW S \in SUBSET Nat, S # {}
  PROVE  Lowest(S) \in S /\ \A k \in S : Lowest(S) <= k
BY LeastNumber DEF Lowest

LEMMA FirstRow ==
  ASSUME NEW rows \in Seq(AlertRows), NEW i, NEW k \in DOMAIN rows, rows[k].luid = i,
         \A j \in 1 .. k - 1 : rows[j].luid # i
  PROVE  Retry(rows, i) = rows[k].retry
<1> DEFINE S == {j \in DOMAIN rows : rows[j].luid = i}
<1>1. S \in SUBSET Nat /\ k \in S /\ DOMAIN rows = 1 .. Len(rows)
  OBVIOUS
<1>2. Lowest(S) \in S /\ Lowest(S) <= k
  BY <1>1, LowestIs
<1>3. Lowest(S) = k
  BY <1>1, <1>2
<1> QED
  BY <1>1, <1>3 DEF Retry

LEMMA RowOf ==
  ASSUME NEW rows \in Seq(AlertRows), NEW i \in Pending(rows)
  PROVE  \E k \in DOMAIN rows : rows[k].luid = i /\ \A j \in 1 .. k - 1 : rows[j].luid # i
<1> DEFINE S == {j \in DOMAIN rows : rows[j].luid = i}
<1>1. S \in SUBSET Nat /\ S # {} /\ DOMAIN rows = 1 .. Len(rows)
  BY DEF Pending
<1>2. PICK k \in S : \A j \in S : k <= j
  BY <1>1, LeastNumber
<1>3. \A j \in 1 .. k - 1 : j \notin S
  <2> HIDE DEF S
  <2> QED
    BY <1>1, <1>2
<1> QED
  BY <1>1, <1>2, <1>3

LEMMA RetryType ==
  ASSUME NEW rows \in Seq(AlertRows), NEW i
  PROVE  /\ Retry(rows, i) \in 0 .. MaxRetry
         /\ i \notin Pending(rows) => Retry(rows, i) = 0
<1>1. CASE i \in Pending(rows)
  <2>1. PICK k \in DOMAIN rows : rows[k].luid = i /\ \A j \in 1 .. k - 1 : rows[j].luid # i
    BY <1>1, RowOf
  <2>2. rows[k].retry \in 0 .. MaxRetry
    <3>1. rows[k] \in AlertRows
      OBVIOUS
    <3> QED
      BY <3>1 DEF AlertRows
  <2>3. Retry(rows, i) = rows[k].retry
    BY <2>1, FirstRow
  <2> QED
    BY <1>1, <2>2, <2>3
<1>2. CASE i \notin Pending(rows)
  BY <1>2 DEF Retry, Pending
<1> QED
  BY <1>1, <1>2

LEMMA RowAppended ==
  ASSUME NEW rows \in Seq(AlertRows), NEW row \in AlertRows, NEW i
  PROVE  /\ Append(rows, row) \in Seq(AlertRows)
         /\ Pending(Append(rows, row)) = Pending(rows) \cup {row.luid}
         /\ Retry(Append(rows, row), i)
            = IF i \in Pending(rows) THEN Retry(rows, i)
              ELSE IF row.luid = i THEN row.retry ELSE 0
<1> DEFINE new == Append(rows, row)
<1>1. /\ new \in Seq(AlertRows) /\ DOMAIN rows = 1 .. Len(rows) /\ DOMAIN new = 1 .. Len(rows) + 1
      /\ Len(rows) \in Nat
      /\ \A k \in DOMAIN rows : new[k] = rows[k]
      /\ new[Len(rows) + 1] = row
  OBVIOUS
<1> HIDE DEF new
<1>2. Pending(new) = Pending(rows) \cup {row.luid}
  BY <1>1 DEF Pending
<1>3. CASE i \in Pending(rows)
  <2>1. PICK k \in DOMAIN rows : rows[k].luid = i /\ \A j \in 1 .. k - 1 : rows[j].luid # i
    BY <1>3, RowOf
  <2>2. /\ k \in DOMAIN new /\ new[k] = rows[k]
        /\ \A j \in 1 .. k - 1 : new[j].luid # i
    BY <1>1, <2>1
  <2>3. Retry(new, i) = new[k].retry
    BY <1>1, <2>1, <2>2, FirstRow
  <2>4. Retry(rows, i) = rows[k].retry
    BY <2>1, FirstRow
  <2> QED
    BY <1>1, <1>2, <1>3, <2>2, <2>3, <2>4 DEF new
<1>4. CASE i \notin Pending(rows) /\ row.luid = i
  <2>1. \A j \in 1 .. Len(rows) : new[j].luid # i
    BY <1>1, <1>4 DEF Pending
  <2>2. Retry(new, i) = new[Len(rows) + 1].retry
    BY <1>1, <1>4, <2>1, FirstRow
  <2> QED
    BY <1>1, <1>2, <1>4, <2>2 DEF new
<1>5. CASE i \notin Pending(rows) /\ row.luid # i
  BY <1>1, <1>2, <1>5, RetryType DEF new
<1> QED
  BY <1>3, <1>4, <1>5
\* The recursion that picks rows is defined.
LEMMA OnlyIs ==
  ASSUME NEW rows \in Seq(AlertRows), NEW K, 0 \notin K
  PROVE  \E f : /\ f[0] = << >> /\ Only(rows, K) = f[Len(rows)]
               /\ \A n \in 0 .. Len(rows) - 1 :
                     f[n + 1] = IF n + 1 \in K THEN Append(f[n], rows[n + 1]) ELSE f[n]
<1> DEFINE N == Len(rows)
           F(g, n) == CASE n = 0 -> << >>
                        [] n \in K -> Append(g[n - 1], rows[n])
                        [] OTHER -> g[n - 1]
           Picks(m, g) == g = [n \in 0 .. m |-> F(g, n)]
           only == CHOOSE g : Picks(N, g)
           S == {m \in Nat : \E g : Picks(m, g)}
<1>0. N \in Nat
  OBVIOUS
<1>1. 0 \in S
  <2>1. Picks(0, [n \in 0 .. 0 |-> << >>])
    OBVIOUS
  <2> QED
    BY <2>1
<1>2. ASSUME NEW m \in Nat, m \in S
      PROVE  m + 1 \in S
  <2>1. PICK g : Picks(m, g)
    BY <1>2
  <2> DEFINE h == [n \in 0 .. m + 1 |-> IF n <= m THEN g[n] ELSE F(g, n)]
  <2>2. ASSUME NEW n \in 0 .. m + 1
        PROVE  h[n] = F(h, n)
    <3>1. n # 0 => n - 1 \in 0 .. m /\ h[n - 1] = g[n - 1]
      OBVIOUS
    <3>2. F(h, n) = F(g, n)
      <4> HIDE DEF h
      <4> QED
        BY <3>1
    <3>3. n <= m => g[n] = F(g, n)
      <4> HIDE DEF F
      <4> QED
        BY <2>1
    <3> QED
      BY <3>2, <3>3
  <2>3. Picks(m + 1, h)
    BY <2>2
  <2> HIDE DEF h, Picks
  <2> QED
    BY <2>3
<1>3. \E g : Picks(N, g)
  <2>1. 0 .. N \subseteq S
    <3> HIDE DEF S
    <3> QED
      BY <1>0, <1>1, <1>2, InductionUpTo DEF S
  <2>2. N \in S
    <3> HIDE DEF S
    <3> QED
      BY <1>0, <2>1
  <2> HIDE DEF Picks
  <2> QED
    BY <2>2
<1>4. Picks(N, only)
  BY <1>3
<1>5. \A n \in 0 .. N : only[n] = F(only, n)
  <2> HIDE DEF F
  <2> QED
    BY <1>4
<1>6. Only(rows, K) = only[N]
  BY DEF Only, only
<1> HIDE DEF only
<1>7. only[0] = << >>
  BY <1>0, <1>5
<1>8. ASSUME NEW n \in 0 .. N - 1
      PROVE  only[n + 1] = IF n + 1 \in K THEN Append(only[n], rows[n + 1]) ELSE only[n]
  <2>1. n + 1 \in 0 .. N /\ n + 1 # 0 /\ (n + 1) - 1 = n
    BY <1>0
  <2>2. only[n + 1] = F(only, n + 1)
    <3> HIDE DEF F
    <3> QED
      BY <1>5, <2>1
  <2> QED
    BY <2>1, <2>2
<1> QED
  BY <1>6, <1>7, <1>8

LEMMA OnlyRows ==
  ASSUME NEW rows \in Seq(AlertRows), NEW K, 0 \notin K
  PROVE  Only(rows, K) \in Seq(AlertRows)
<1> DEFINE N == Len(rows)
<1>1. PICK f : /\ f[0] = << >> /\ Only(rows, K) = f[N]
               /\ \A n \in 0 .. N - 1 :
                     f[n + 1] = IF n + 1 \in K THEN Append(f[n], rows[n + 1]) ELSE f[n]
  BY OnlyIs
<1> DEFINE T == {n \in 0 .. N : f[n] \in Seq(AlertRows)}
<1>2. N \in Nat /\ T \in SUBSET Nat /\ 0 \in T
  <2>1. N \in Nat /\ f[0] \in Seq(AlertRows)
    BY <1>1
  <2> QED
    BY <2>1
<1>3. ASSUME NEW n \in 0 .. N - 1, n \in T
      PROVE  n + 1 \in T
  <2>1. rows[n + 1] \in AlertRows /\ n + 1 \in 0 .. N
    BY <1>2
  <2>2. f[n] \in Seq(AlertRows)
    BY <1>3
  <2>3. Append(f[n], rows[n + 1]) \in Seq(AlertRows)
    BY <2>1, <2>2
  <2>4. f[n + 1] \in {f[n], Append(f[n], rows[n + 1])}
    BY <1>1
  <2> QED
    BY <2>1, <2>2, <2>3, <2>4
<1>4. 0 .. N \subseteq T
  <2> HIDE DEF T
  <2> QED
    BY <1>2, <1>3, InductionUpTo
<1> QED
  BY <1>1, <1>2, <1>4

\* Without the rows about some components, the first row of every other one is the
\* same.
LEMMA OthersAre ==
  ASSUME NEW rows \in Seq(AlertRows), NEW L
  PROVE  LET new == Others(rows, L)
         IN  /\ new \in Seq(AlertRows)
             /\ Pending(new) = Pending(rows) \ L
             /\ \A i : Retry(new, i) = IF i \in L THEN 0 ELSE Retry(rows, i)
<1> DEFINE N == Len(rows)
           K == {k \in DOMAIN rows : rows[k].luid \notin L}
<1>0. N \in Nat /\ 0 \notin K
  OBVIOUS
<1> HIDE DEF K
<1>1. PICK others : /\ others[0] = << >> /\ Only(rows, K) = others[N]
                    /\ \A n \in 0 .. N - 1 :
                          others[n + 1] = IF n + 1 \in K THEN Append(others[n], rows[n + 1]) ELSE others[n]
  BY <1>0, OnlyIs
<1> DEFINE Is(n) == /\ others[n] \in Seq(AlertRows)
                    /\ Pending(others[n]) = Pending(SubSeq(rows, 1, n)) \ L
                    /\ \A i : Retry(others[n], i)
                              = IF i \in L THEN 0 ELSE Retry(SubSeq(rows, 1, n), i)
           T == {n \in 0 .. N : Is(n)}
<1>6. 0 \in T
  <2>1. others[0] = << >> /\ SubSeq(rows, 1, 0) = << >>
    BY <1>0, <1>1
  <2>2. << >> \in Seq(AlertRows) /\ Pending(<< >>) = {}
    BY DEF Pending
  <2>3. \A i : Retry(<< >>, i) = 0
    BY <2>2, RetryType
  <2>4. Is(0)
    BY <2>1, <2>2, <2>3
  <2> HIDE DEF Is
  <2> QED
    BY <1>0, <2>4
<1>7. ASSUME NEW n \in 0 .. N - 1, n \in T
      PROVE  n + 1 \in T
  <2> DEFINE head == SubSeq(rows, 1, n)
             row == rows[n + 1]
  <2>1. others[n + 1] = IF row.luid \in L THEN others[n] ELSE Append(others[n], row)
    <3>1. n + 1 \in DOMAIN rows
      BY <1>0
    <3> QED
      BY <1>1, <3>1 DEF K
  <2>2. head \in Seq(AlertRows) /\ row \in AlertRows /\ SubSeq(rows, 1, n + 1) = Append(head, row)
    BY <1>0
  <2> HIDE DEF head, row
  <2>3. /\ others[n] \in Seq(AlertRows)
        /\ Pending(others[n]) = Pending(head) \ L
        /\ \A i : Retry(others[n], i) = IF i \in L THEN 0 ELSE Retry(head, i)
    BY <1>7 DEF head
  <2> HIDE DEF T
  <2>4. /\ Pending(Append(head, row)) = Pending(head) \cup {row.luid}
        /\ \A i : Retry(Append(head, row), i)
                  = IF i \in Pending(head) THEN Retry(head, i)
                    ELSE IF row.luid = i THEN row.retry ELSE 0
    BY <2>2, RowAppended
  <2>5. CASE row.luid \in L
    <3>1. Pending(others[n + 1]) = Pending(Append(head, row)) \ L
      BY <2>1, <2>3, <2>4, <2>5
    <3>2. ASSUME NEW i
          PROVE  Retry(others[n + 1], i) = IF i \in L THEN 0 ELSE Retry(Append(head, row), i)
      BY <2>1, <2>2, <2>3, <2>4, <2>5, RetryType
    <3>3. Is(n + 1)
      BY <2>1, <2>2, <2>3, <2>5, <3>1, <3>2 DEF head, row
    <3> HIDE DEF Is
    <3> QED
      BY <1>0, <3>3 DEF T
  <2>6. CASE row.luid \notin L
    <3>0. others[n + 1] = Append(others[n], row)
      BY <2>1, <2>6
    <3>1. /\ Append(others[n], row) \in Seq(AlertRows)
          /\ Pending(Append(others[n], row)) = Pending(others[n]) \cup {row.luid}
          /\ \A i : Retry(Append(others[n], row), i)
                    = IF i \in Pending(others[n]) THEN Retry(others[n], i)
                      ELSE IF row.luid = i THEN row.retry ELSE 0
      BY <2>2, <2>3, RowAppended
    <3>2. Pending(others[n + 1]) = Pending(Append(head, row)) \ L
      BY <2>3, <2>4, <2>6, <3>0, <3>1
    <3>3. ASSUME NEW i
          PROVE  Retry(others[n + 1], i) = IF i \in L THEN 0 ELSE Retry(Append(head, row), i)
      BY <2>3, <2>4, <2>6, <3>0, <3>1
    <3>4. Is(n + 1)
      BY <2>2, <3>0, <3>1, <3>2, <3>3 DEF head, row
    <3> HIDE DEF Is
    <3> QED
      BY <1>0, <3>4 DEF T
  <2> QED
    BY <2>5, <2>6
<1>8. 0 .. N \subseteq T
  <2>1. T \in SUBSET Nat
    OBVIOUS
  <2> HIDE DEF T
  <2> QED
    BY <1>0, <1>6, <1>7, <2>1, InductionUpTo
<1>9. Others(rows, L) = others[N]
  BY <1>1 DEF Others, K
<1>10. SubSeq(rows, 1, N) = rows
  OBVIOUS
<1>11. Is(N)
  <2> HIDE DEF Is
  <2> QED
    BY <1>0, <1>8
<1> QED
  BY <1>9, <1>10, <1>11

\* The count of a pending alert is set in its first row.
LEMMA RetrySet ==
  ASSUME NEW rows \in Seq(AlertRows), NEW i \in Pending(rows), NEW n \in 0 .. MaxRetry
  PROVE  LET new == [rows EXCEPT ![Lowest({k \in DOMAIN rows : rows[k].luid = i})].retry = n]
         IN  /\ new \in Seq(AlertRows) /\ Pending(new) = Pending(rows)
             /\ \A j : Retry(new, j) = IF j = i THEN n ELSE Retry(rows, j)
<1> DEFINE S == {k \in DOMAIN rows : rows[k].luid = i}
           f == Lowest(S)
           row == [rows[f] EXCEPT !.retry = n]
           new == [rows EXCEPT ![f].retry = n]
<1>1. S \in SUBSET Nat /\ S # {} /\ DOMAIN rows = 1 .. Len(rows)
  BY DEF Pending
<1>2. f \in S /\ \A k \in S : f <= k
  BY <1>1, LowestIs
<1> HIDE DEF f
<1>3. rows[f] \in AlertRows
  BY <1>2
<1>4. row \in AlertRows /\ row.luid = rows[f].luid /\ row.retry = n
  BY <1>3 DEF AlertRows
<1>5. /\ new \in Seq(AlertRows) /\ DOMAIN new = DOMAIN rows
      /\ new[f] = row /\ \A k \in DOMAIN rows \ {f} : new[k] = rows[k]
  <2>1. new = [rows EXCEPT ![f] = row]
    OBVIOUS
  <2> HIDE DEF row, new
  <2> QED
    BY <1>2, <1>4, <2>1
<1> HIDE DEF new, row
<1>6. \A k \in DOMAIN rows : new[k].luid = rows[k].luid
  BY <1>4, <1>5
<1>7. Pending(new) = Pending(rows)
  BY <1>5, <1>6 DEF Pending
<1>8. Retry(new, i) = n
  <2>1. \A j \in 1 .. f - 1 : new[j].luid # i
    BY <1>1, <1>2, <1>5, <1>6
  <2> QED
    BY <1>2, <1>4, <1>5, <1>6, <2>1, FirstRow
<1>9. ASSUME NEW j, j # i
      PROVE  Retry(new, j) = Retry(rows, j)
  <2>1. CASE j \notin Pending(rows)
    BY <1>5, <1>7, <2>1, RetryType
  <2>2. CASE j \in Pending(rows)
    <3>1. PICK k \in DOMAIN rows : rows[k].luid = j /\ \A m \in 1 .. k - 1 : rows[m].luid # j
      BY <2>2, RowOf
    <3>2. Retry(rows, j) = rows[k].retry
      BY <3>1, FirstRow
    <3>3. k # f /\ new[k] = rows[k] /\ \A m \in 1 .. k - 1 : new[m].luid # j
      BY <1>1, <1>2, <1>5, <1>6, <1>9, <3>1, SMTT(40)
    <3>4. Retry(new, j) = new[k].retry
      BY <1>5, <3>1, <3>3, FirstRow
    <3> QED
      BY <3>2, <3>3, <3>4
  <2> QED
    BY <2>1, <2>2
<1> QED
  BY <1>5, <1>7, <1>8, <1>9 DEF new, f
-----------------------------------------------------------------------------
(* States of handlers. *)

LEMMA QuietTransitive ==
  ASSUME NEW x, NEW y, NEW z, Quiet(x, y), Quiet(y, z)
  PROVE  Quiet(x, z)
BY DEF Quiet

LEMMA QuietItself ==
  ASSUME NEW x, Good(x)
  PROVE  Quiet(x, x)
BY DEF Quiet

\* What the server does to its components.
LEMMA FollowedQuietly ==
  ASSUME NEW x, Good(x), NEW y, Follows(x, y)
  PROVE  Quiet(x, y)
<1>1. /\ IsServer(y) /\ y.mem = x.mem /\ y.map = x.map /\ y.said = x.said
      /\ DOMAIN y.db = DOMAIN x.db /\ Ids(y) \subseteq Ids(x)
      /\ \A f \in DOMAIN x.db \ {"comp", "results"} : y.db[f] = x.db[f]
  BY DEF Follows, Same
<1>2. y.db.next = x.db.next /\ y.db.alerts = x.db.alerts
  <2>1. {"next", "alerts"} \subseteq DOMAIN x.db \ {"comp", "results"}
    BY DEF Good, IsDb
  <2> QED
    BY <1>1, <2>1
<1>3. IsMem(y.mem) /\ IsDb(y.db)
  BY <1>1, <1>2 DEF Good, IsDb
<1>4. \A node \in DOMAIN y.map : Own(y, node)
  BY <1>1 DEF Follows, Good, IsMap, Own
<1> QED
  BY <1>1, <1>2, <1>3, <1>4 DEF Good, Quiet, IsMap

LEMMA TrimmedQuietly ==
  ASSUME NEW x, Good(x), NEW y, Trimmed(x, y)
  PROVE  Quiet(x, y)
BY FollowedQuietly, TrimmedFollows

\* A mapping that is removed.
LEMMA MappingRemoved ==
  ASSUME NEW x, Good(x), NEW node
  PROVE  Quiet(x, RemoveMapping(x, node)) /\ RemoveMapping(x, node).db = x.db
<1> DEFINE y == [mem |-> x.mem, db |-> x.db, map |-> Without(x.map, {node}), said |-> x.said]
<1>1. RemoveMapping(x, node) = y
  BY DEF RemoveMapping, Good, IsServer
<1>2. IsServer(y)
  BY DEF Good, IsServer, Ids
<1>3. IsMap(y)
  BY DEF Good, IsMap, Own, Without, IdsIn, Ids
<1>4. Good(y)
  BY <1>2, <1>3 DEF Good, Ids
<1> QED
  BY <1>1, <1>4 DEF Quiet

\* A mapping that is set, if that of a node of Download is to a component to download
\* of its name or to none to download.
LEMMA MappingSet ==
  ASSUME NEW x, Good(x), NEW node, NEW luid \in Int, luid < x.db.next,
         \/ node[1] # "Download"
         \/ luid \notin IdsIn(x, "Download")
         \/ node[2] = x.db.comp[luid].user
  PROVE  LET y == SetMapping(x, node, luid) IN Quiet(x, y) /\ y.db = x.db
<1> DEFINE y == [mem |-> x.mem, db |-> x.db, map |-> With(x.map, node, luid), said |-> x.said]
<1>1. SetMapping(x, node, luid) = y
  BY DEF SetMapping, Good, IsServer
<1>2. IsServer(y)
  BY DEF Good, IsServer, Ids
<1>3. IsMap(y)
  <2>1. y.map \in [DOMAIN y.map -> Int]
    BY DEF Good, IsMap, With
  <2>2. ASSUME NEW n \in DOMAIN y.map
        PROVE  y.map[n] < x.db.next /\ Own(y, n)
    BY DEF Good, IsMap, Own, With, IdsIn, Ids
  <2> QED
    BY <2>1, <2>2 DEF IsMap
<1>4. Good(y)
  BY <1>2, <1>3 DEF Good, Ids
<1> QED
  BY <1>1, <1>4 DEF Quiet

LEMMA LuidIs ==
  ASSUME NEW x, Good(x), NEW node
  PROVE  LuidOf(x, node) \in Int /\ LuidOf(x, node) < x.db.next
BY DEF LuidOf, Luid, NoLuid, Good, IsMap, IsDb

LEMMA NoMappingSet ==
  ASSUME NEW x, Good(x), NEW node
  PROVE  LET y == SetMapping(x, node, NoLuid) IN Quiet(x, y) /\ y.db = x.db
<1>1. NoLuid \in Int /\ NoLuid < x.db.next /\ NoLuid \notin IdsIn(x, "Download")
  BY DEF NoLuid, Good, IsDb, IdsIn
<1> QED
  BY <1>1, MappingSet

\* A new component takes the next id, which no component and no mapping has.
LEMMA ComponentAdded ==
  ASSUME NEW x, Good(x), NEW user, NEW state
  PROVE  LET y == NewComponent(x, user, state)
         IN  /\ Quiet(x, y) /\ y.db.next = x.db.next + 1
             /\ y.map = x.map /\ x.db.next \in Ids(y)
             /\ y.db.comp[x.db.next] = Component(user, state)
<1> DEFINE id == x.db.next
           y == NewComponent(x, user, state)
<1>1. id \notin Ids(x)
  BY DEF Good, IsDb
<1>2. /\ IsServer(y) /\ y.mem = x.mem /\ y.map = x.map /\ y.said = x.said
      /\ Ids(y) = Ids(x) \cup {id} /\ y.db.comp[id] = Component(user, state)
      /\ \A i \in Ids(x) \ {id} : y.db.comp[i] = x.db.comp[i]
      /\ y.db.next = id + 1 /\ DOMAIN y.db = DOMAIN x.db
      /\ \A f \in DOMAIN x.db \ {"comp", "next"} : y.db[f] = x.db[f]
  BY NewComponentIs DEF Good
<1> HIDE DEF y
<1>3. y.db.alerts = x.db.alerts
  BY <1>2 DEF Good, IsDb
<1>4. IsMem(y.mem) /\ IsDb(y.db)
  BY <1>2, <1>3 DEF Good, IsDb
<1>5. Ids(y) \subseteq 1 .. y.db.next - 1
  BY <1>2 DEF Good, IsDb
<1>6. IsMap(y)
  <2>1. ASSUME NEW node \in DOMAIN x.map
        PROVE  y.map[node] < y.db.next /\ Own(y, node)
    <3>1. x.map[node] \in Int /\ x.map[node] < id /\ Own(x, node) /\ id \in Nat
      BY DEF Good, IsMap, IsDb
    <3> QED
      BY <1>1, <1>2, <3>1 DEF Own, IdsIn
  <2> QED
    BY <1>2, <2>1 DEF Good, IsMap
<1> QED
  BY <1>2, <1>3, <1>4, <1>5, <1>6 DEF Good, Quiet, y

\* ... and its node a mapping to it.
LEMMA ComponentMapped ==
  ASSUME NEW x, Good(x), NEW place, NEW user
  PROVE  Quiet(x, SetMapping(NewComponent(x, user, place), <<place, user>>, x.db.next))
<1> DEFINE y == NewComponent(x, user, place)
<1>1. /\ Quiet(x, y) /\ y.db.next = x.db.next + 1
      /\ y.db.comp[x.db.next] = Component(user, place)
  BY ComponentAdded
<1> HIDE DEF y
<1>2. x.db.next \in Int /\ x.db.next < y.db.next /\ y.db.comp[x.db.next].user = user
  BY <1>1 DEF Good, IsDb, Component
<1>3. Quiet(y, SetMapping(y, <<place, user>>, x.db.next))
  BY <1>1, <1>2, MappingSet DEF Quiet
<1> QED
  BY <1>1, <1>3, QuietTransitive DEF y
-----------------------------------------------------------------------------
(* The mappings follow the components. *)

LEMMA MappingMoved ==
  ASSUME NEW x, Good(x), NEW from, NEW to, to[1] # "Download", NEW luid \in Int, luid < x.db.next
  PROVE  LET y == MoveMapping(x, from, to, luid) IN Quiet(x, y) /\ y.db = x.db
<1> DEFINE y == RemoveMapping(x, from)
<1>1. Quiet(x, y) /\ y.db = x.db
  BY MappingRemoved
<1> HIDE DEF y
<1>2. LET z == SetMapping(y, to, luid) IN Quiet(y, z) /\ z.db = y.db
  BY <1>1, MappingSet DEF Quiet
<1> QED
  BY <1>1, <1>2, QuietTransitive DEF MoveMapping, DirectSetMapping, y

LEMMA ChangeCompletedQuietly ==
  ASSUME NEW x, Good(x), NEW i
  PROVE  Quiet(x, StateChangeComplete(x, i))
BY ChangeCompleted, TrimmedQuietly DEF Good

\* One component whose state has changed, ...
LEMMA OneChecked ==
  ASSUME NEW x, Good(x), NEW i
  PROVE  Quiet(x, CheckStateChange(x, i))
<1> DEFINE user == x.db.comp[i].user
           deployed == <<"Deployed", user>>
           delivered == <<"Delivered", user>>
           download == <<"Download", IF IsStatic(x, user) THEN x.db.static ELSE user>>
<1>1. /\ LuidOf(x, delivered) \in Int /\ LuidOf(x, delivered) < x.db.next
      /\ LuidOf(x, download) \in Int /\ LuidOf(x, download) < x.db.next
  BY LuidIs
<1>2. deployed[1] # "Download" /\ delivered[1] # "Download"
  OBVIOUS
<1> HIDE DEF user, deployed, delivered, download
<1>3. Quiet(x, StateChangeComplete(x, i)) /\ Quiet(x, x)
  BY ChangeCompletedQuietly, QuietItself
<1>4. ASSUME NEW from, NEW to, to[1] # "Download", NEW luid \in Int, luid < x.db.next
      PROVE  Quiet(x, StateChangeComplete(MoveMapping(x, from, to, luid), i))
  <2> DEFINE y == MoveMapping(x, from, to, luid)
  <2>1. Quiet(x, y)
    BY <1>4, MappingMoved
  <2> HIDE DEF y
  <2>2. Quiet(y, StateChangeComplete(y, i))
    BY <2>1, ChangeCompletedQuietly DEF Quiet
  <2> QED
    BY <2>1, <2>2, QuietTransitive DEF y
<1>5. /\ Quiet(x, StateChangeComplete(MoveMapping(x, delivered, deployed, LuidOf(x, delivered)), i))
      /\ Quiet(x, StateChangeComplete(MoveMapping(x, download, deployed, LuidOf(x, download)), i))
      /\ Quiet(x, StateChangeComplete(MoveMapping(x, download, delivered, LuidOf(x, download)), i))
  BY <1>1, <1>2, <1>4
<1>6. Quiet(x, RemoveMapping(x, delivered)) /\ Quiet(x, RemoveMapping(x, download))
  BY MappingRemoved
<1>7. CheckStateChange(x, i)
      \in {x, StateChangeComplete(x, i), RemoveMapping(x, delivered), RemoveMapping(x, download),
           StateChangeComplete(MoveMapping(x, delivered, deployed, LuidOf(x, delivered)), i),
           StateChangeComplete(MoveMapping(x, download, deployed, LuidOf(x, download)), i),
           StateChangeComplete(MoveMapping(x, download, delivered, LuidOf(x, download)), i)}
  BY DEF CheckStateChange, user, deployed, delivered, download
<1> QED
  BY <1>3, <1>5, <1>6, <1>7

\* ... and all of them, one after the other.
LEMMA EveryChecked ==
  ASSUME NEW x, Good(x)
  PROVE  Quiet(x, CheckEveryStateChange(x))
<1> DEFINE N == x.db.next - 1
           C == StateChanging(x)
           F(g, n) == CASE n = 0 -> x
                        [] n \in C -> CheckStateChange(g[n - 1], n)
                        [] OTHER -> g[n - 1]
           Checks(m, g) == g = [n \in 0 .. m |-> F(g, n)]
           checked == CHOOSE g : Checks(N, g)
           S == {m \in Nat : \E g : Checks(m, g)}
           T == {n \in 0 .. N : Quiet(x, checked[n])}
<1>0. N \in Nat /\ 0 \notin C
  BY DEF Good, IsDb, StateChanging, Ids
<1> HIDE DEF N, C
<1>1. 0 \in S
  <2>1. Checks(0, [n \in 0 .. 0 |-> x])
    BY <1>0
  <2> QED
    BY <2>1
<1>2. ASSUME NEW m \in Nat, m \in S
      PROVE  m + 1 \in S
  <2>1. PICK g : Checks(m, g)
    BY <1>2
  <2> DEFINE h == [n \in 0 .. m + 1 |-> IF n <= m THEN g[n] ELSE F(g, n)]
  <2>2. ASSUME NEW n \in 0 .. m + 1
        PROVE  h[n] = F(h, n)
    <3>1. n # 0 => n - 1 \in 0 .. m /\ h[n - 1] = g[n - 1]
      OBVIOUS
    <3>2. F(h, n) = F(g, n)
      <4> HIDE DEF h
      <4> QED
        BY <1>0, <3>1
    <3>3. n <= m => g[n] = F(g, n)
      <4> HIDE DEF F
      <4> QED
        BY <2>1
    <3> QED
      BY <3>2, <3>3
  <2>3. Checks(m + 1, h)
    BY <2>2
  <2> HIDE DEF h, Checks
  <2> QED
    BY <2>3
<1>3. \E g : Checks(N, g)
  <2>1. 0 .. N \subseteq S
    <3> HIDE DEF S
    <3> QED
      BY <1>0, <1>1, <1>2, InductionUpTo DEF S
  <2> QED
    BY <1>0, <2>1
<1>4. Checks(N, checked)
  BY <1>3
<1>5. \A n \in 0 .. N : checked[n] = F(checked, n)
  <2> HIDE DEF F
  <2> QED
    BY <1>4
<1> HIDE DEF checked
<1>6. 0 \in T
  BY <1>0, <1>5, QuietItself
<1>7. ASSUME NEW n \in 0 .. N - 1, n \in T
      PROVE  n + 1 \in T
  <2>1. n + 1 \in 0 .. N /\ n + 1 # 0 /\ (n + 1) - 1 = n
    BY <1>0
  <2>2. checked[n + 1] = F(checked, n + 1)
    <3> HIDE DEF F
    <3> QED
      BY <1>5, <2>1
  <2>3. checked[n + 1] \in {checked[n], CheckStateChange(checked[n], n + 1)}
    BY <2>1, <2>2
  <2>4. Quiet(x, checked[n])
    BY <1>7
  <2>5. Quiet(x, CheckStateChange(checked[n], n + 1))
    BY <2>4, OneChecked, QuietTransitive DEF Quiet
  <2> QED
    BY <2>1, <2>3, <2>4, <2>5
<1>8. 0 .. N \subseteq T
  <2>1. T \in SUBSET Nat
    OBVIOUS
  <2> HIDE DEF T
  <2> QED
    BY <1>0, <1>6, <1>7, <2>1, InductionUpTo
<1>9. CheckEveryStateChange(x) = [checked[N] EXCEPT !.mem.updated = TRUE]
  BY DEF CheckEveryStateChange, checked, N, C
<1>10. Quiet(x, checked[N])
  BY <1>0, <1>8
<1> DEFINE z == checked[N]
           y == [z EXCEPT !.mem.updated = TRUE]
<1> HIDE DEF z
<1>11. Quiet(x, z) /\ CheckEveryStateChange(x) = y
  BY <1>9, <1>10 DEF z
<1>12. y = [mem |-> [z.mem EXCEPT !.updated = TRUE], db |-> z.db, map |-> z.map, said |-> z.said]
  BY <1>11 DEF Quiet, Good, IsServer
<1>13. IsMem([z.mem EXCEPT !.updated = TRUE])
  BY <1>11 DEF Quiet, Good, IsMem
<1> HIDE DEF y
<1>14. Good(y)
  BY <1>11, <1>12, <1>13 DEF Quiet, Good, IsServer, Ids, IsMap, Own, IdsIn
<1> QED
  BY <1>11, <1>12, <1>14 DEF Quiet
LEMMA Checks ==
  ASSUME NEW x, Good(x)
  PROVE  Quiet(x, CheckStateChanges(x))
<1> DEFINE z == ComponentIds(x, "Active").x
<1>1. Quiet(x, z)
  BY IdsListed, TrimmedQuietly DEF Good
<1> HIDE DEF z
<1>2. Quiet(z, CheckEveryStateChange(z))
  BY <1>1, EveryChecked DEF Quiet
<1> QED
  BY <1>1, <1>2, QuietTransitive, QuietItself DEF CheckStateChanges, z

LEMMA PredefinedNode ==
  ASSUME NEW x, Good(x)
  PROVE  Quiet(x, CheckAndAddPredefinedNode(x))
BY QuietItself, ComponentMapped DEF CheckAndAddPredefinedNode, DirectSetMapping

-----------------------------------------------------------------------------
(* Which component a command is about. *)

\* What was found: nothing, or an id that was given before.
Found(x, g) ==
  /\ g = [x |-> g.x, id |-> g.id]
  /\ Quiet(x, g.x)
  /\ g.id \in Int /\ g.id < x.db.next /\ g.x.db.next = x.db.next

\* ... by its name.
Named(g, user, state) ==
  g.id # 0 => g.id \in IdsIn(g.x, state) /\ g.x.db.comp[g.id].user = user

LEMMA FoundByName ==
  ASSUME NEW x, Good(x), NEW user, NEW state
  PROVE  LET g == GetLuidForUserId(x, user, state)
         IN  Found(x, g) /\ Named(g, user, state)
<1> DEFINE c == ComponentIds(x, state)
           found == {i \in c.ids : c.x.db.comp[i].user = user}
           g == [x |-> c.x, id |-> IF found = {} THEN 0 ELSE Lowest(found)]
<1>1. Trimmed(x, c.x) /\ c.ids = IdsIn(c.x, state)
  BY IdsListed DEF Good
<1>2. Quiet(x, c.x)
  BY <1>1, TrimmedQuietly
<1>3. GetLuidForUserId(x, user, state) = g
  BY DEF GetLuidForUserId, FindUserId
<1> HIDE DEF c
<1>4. Ids(c.x) \subseteq 1 .. x.db.next - 1 /\ x.db.next \in Nat \ {0}
  BY <1>1 DEF Trimmed, Same, Good, IsDb
<1>5. c.x.db.next = x.db.next
  <2>1. "next" \in DOMAIN x.db \ {"comp", "results"}
    BY DEF Good, IsDb
  <2> QED
    BY <1>1, <2>1 DEF Trimmed, Same
<1>6. found \in SUBSET Nat
  BY <1>1, <1>4 DEF IdsIn
<1>7. found # {} => Lowest(found) \in found
  <2> HIDE DEF found
  <2> QED
    BY <1>6, LowestIs
<1>8. found # {} => Lowest(found) \in IdsIn(c.x, state) /\ c.x.db.comp[Lowest(found)].user = user
  BY <1>1, <1>7
<1> HIDE DEF found
<1>9. Named(g, user, state)
  BY <1>8 DEF Named
<1>10. g.id \in Int /\ g.id < x.db.next
  BY <1>4, <1>8 DEF IdsIn
<1> QED
  BY <1>2, <1>3, <1>5, <1>9, <1>10 DEF Found

\* By the LUID of its node, or by its name.
LEMMA FoundByLuid ==
  ASSUME NEW x, Good(x), NEW luid \in Int, luid < x.db.next, NEW user, NEW state
  PROVE  Found(x, GetLuid(x, luid, user, state))
<1>1. Found(x, [x |-> x, id |-> luid])
  BY QuietItself DEF Found
<1> QED
  BY <1>1, FoundByName DEF GetLuid

\* A deployed one.
LEMMA FoundDeployed ==
  ASSUME NEW x, Good(x), NEW luid \in Int, luid < x.db.next, NEW user
  PROVE  Found(x, GetDeployed(x, luid, user))
<1> DEFINE a == GetLuid(x, luid, user, "Active")
           b == GetLuid(a.x, luid, user, "Inactive")
<1>1. Found(x, a)
  BY FoundByLuid
<1> HIDE DEF a
<1>2. Found(a.x, b)
  BY <1>1, FoundByLuid DEF Found, Quiet
<1> HIDE DEF b
<1>3. Found(x, b)
  BY <1>1, <1>2, QuietTransitive DEF Found
<1>4. GetDeployed(x, luid, user) \in {a, b}
  BY DEF GetDeployed, OrInactive, a, b
<1> QED
  BY <1>1, <1>3, <1>4

\* A node takes over the component its name had in Download, or the one that has its
\* name, which gets a mapping.
LEMMA TakenOver ==
  ASSUME NEW x, Good(x), NEW node, node[1] \in Places, node = <<node[1], node[2]>>
  PROVE  LET g == TakeOver(x, node)
         IN  g = [x |-> g.x, id |-> g.id] /\ Quiet(x, g.x)
<1> DEFINE down == <<"Download", node[2]>>
           luid == LuidOf(x, down)
           y == SetMapping(x, node, luid)
           z == SetMapping(y, down, NoLuid)
           f == GetLeafLuid(x, node)
           s == SetMapping(f.x, node, f.id)
<1>1. CASE LuidOf(x, node) # NoLuid
  BY <1>1, QuietItself DEF TakeOver
<1>2. CASE LuidOf(x, node) = NoLuid /\ luid # NoLuid
  <2>1. node[1] # "Download"
    BY <1>2
  <2>2. luid \in Int /\ luid < x.db.next
    BY LuidIs
  <2> HIDE DEF luid
  <2>3. Quiet(x, y)
    BY <2>1, <2>2, MappingSet
  <2>4. Quiet(y, z)
    BY <2>3, NoMappingSet DEF Quiet
  <2> HIDE DEF y
  <2>5. Quiet(x, z)
    BY <2>3, <2>4, QuietTransitive
  <2>6. TakeOver(x, node) = [x |-> z, id |-> luid]
    BY <1>2 DEF TakeOver, DirectSetMapping, y, luid
  <2> QED
    BY <2>5, <2>6
<1>3. CASE LuidOf(x, node) = NoLuid /\ luid = NoLuid
  <2>1. Found(x, f) /\ (node[1] = "Download" => Named(f, node[2], "Download"))
    <3>1. NoLuid \in Int /\ NoLuid < x.db.next
      BY DEF NoLuid, Good, IsDb
    <3>2. Found(x, GetDeployed(x, NoLuid, node[2]))
      BY <3>1, FoundDeployed
    <3> QED
      BY <3>2, FoundByName DEF GetLeafLuid, Places, StateOf
  <2> HIDE DEF f
  <2>2. TakeOver(x, node) = IF f.id = 0 THEN f ELSE [f EXCEPT !.x = s]
    BY <1>3 DEF TakeOver, Adopt, DirectSetMapping, f
  <2>3. CASE f.id = 0
    BY <2>1, <2>2, <2>3 DEF Found
  <2>4. CASE f.id # 0
    <3>1. Quiet(f.x, s)
      BY <2>1, <2>4, MappingSet DEF Found, Named, Quiet
    <3> HIDE DEF s
    <3>2. Quiet(x, s)
      BY <2>1, <3>1, QuietTransitive DEF Found
    <3>3. TakeOver(x, node) = [x |-> s, id |-> f.id]
      BY <2>1, <2>2, <2>4 DEF Found
    <3> QED
      BY <3>2, <3>3
  <2> QED
    BY <2>3, <2>4
<1> QED
  BY <1>1, <1>2, <1>3
-----------------------------------------------------------------------------
(* Answers. *)

\* y is a state in which a handler that began in x has answered the command, once.
Answers(x, y, ref) ==
  /\ Good(y) /\ y.db.alerts = x.db.alerts
  /\ \E status : y.said = <<[ref |-> ref, status |-> status]>>

LEMMA BufferedQuietly ==
  ASSUME NEW x, Good(x), NEW ref
  PROVE  Quiet(x, Buffered(x, ref))
<1> DEFINE m == [x.mem EXCEPT !.buffer = Append(@, ref)]
           y == [mem |-> m, db |-> x.db, map |-> x.map, said |-> x.said]
<1>1. IsMem(m)
  BY DEF Good, IsMem
<1>2. Buffered(x, ref) \in {x, y}
  BY DEF Buffered, Good, IsServer
<1> HIDE DEF m
<1>3. Good(y)
  BY <1>1 DEF Good, IsServer, Ids, IsMap, Own, IdsIn
<1> QED
  BY <1>2, <1>3 DEF Quiet

LEMMA AnswerGiven ==
  ASSUME NEW x, x.said = << >>, NEW y, Quiet(x, y), NEW ref, NEW status
  PROVE  Answers(x, SetStatus(y, ref, status), ref) /\ Answers(x, Answer(y, ref, status), ref)
<1> DEFINE z == SetStatus(y, ref, status)
           said == <<[ref |-> ref, status |-> status]>>
<1>1. z = [mem |-> y.mem, db |-> y.db, map |-> y.map, said |-> said]
  <2>1. Append(<< >>, [ref |-> ref, status |-> status]) = said
    OBVIOUS
  <2> QED
    BY <2>1 DEF SetStatus, Quiet, Good, IsServer
<1> HIDE DEF said
<1>2. Good(z)
  BY <1>1 DEF Quiet, Good, IsServer, Ids, IsMap, Own, IdsIn
<1>3. z.said = said /\ z.db.alerts = x.db.alerts
  BY <1>1 DEF Quiet
<1>4. Answer(y, ref, status) \in {z, Buffered(z, ref)}
  BY DEF Answer
<1> HIDE DEF z
<1>5. Quiet(z, Buffered(z, ref))
  BY <1>2, BufferedQuietly
<1> QED
  BY <1>2, <1>3, <1>4, <1>5 DEF Answers, Quiet, z, said

LEMMA BufferedAnswer ==
  ASSUME NEW x, NEW y, NEW ref, Answers(x, y, ref), NEW r
  PROVE  Answers(x, Buffered(y, r), ref)
BY BufferedQuietly DEF Answers, Quiet

LEMMA AnswersAfter ==
  ASSUME NEW x, NEW y, Quiet(x, y), NEW z, NEW ref, Answers(y, z, ref)
  PROVE  Answers(x, z, ref)
BY DEF Answers, Quiet

\* A command of a node.
IsNode(node) == node[1] \in Places /\ node = <<node[1], node[2]>>

LEMMA NodeAdded ==
  ASSUME NEW x, Good(x), x.said = << >>, NEW node, IsNode(node), NEW ref
  PROVE  Answers(x, AddNodeObject(x, node, ref), ref)
<1>1. Quiet(x, DeliverOrDownload(x, node))
  <2>1. Quiet(x, SetMapping(NewComponent(x, node[2], node[1]), <<node[1], node[2]>>, x.db.next))
    BY ComponentMapped
  <2> QED
    BY <2>1 DEF DeliverOrDownload, IsNode
<1>2. Quiet(x, x)
  BY QuietItself
<1> QED
  BY <1>1, <1>2, AnswerGiven DEF AddNodeObject

\* A stream is closed or opened.
LEMMA StreamSet ==
  ASSUME NEW x, Good(x), NEW is, NEW s
  PROVE  /\ Quiet(x, [x EXCEPT !.mem.streamOpen = is])
         /\ Quiet(x, Streaming(x, is))
         /\ Quiet(x, [x EXCEPT !.mem.stream = s])
         /\ Quiet(x, [x EXCEPT !.mem.statusRef = <<StreamRef>>])
<1>1. ASSUME NEW w, Good(w), NEW y, NEW m, IsMem(m),
             y = [mem |-> m, db |-> w.db, map |-> w.map, said |-> w.said]
      PROVE  Quiet(w, y)
  BY <1>1 DEF Quiet, Good, IsServer, Ids, IsMap, Own, IdsIn
<1>2. [x EXCEPT !.mem.streamOpen = is]
      = [mem |-> [x.mem EXCEPT !.streamOpen = is], db |-> x.db, map |-> x.map, said |-> x.said]
  BY DEF Good, IsServer
<1>3. IsMem([x.mem EXCEPT !.streamOpen = is])
  BY DEF Good, IsMem
<1>4. Quiet(x, [x EXCEPT !.mem.streamOpen = is])
  BY <1>1, <1>2, <1>3
<1>5. Quiet(x, Streaming(x, is))
  <2> DEFINE w == [x EXCEPT !.mem.streamOpen = is]
             y == [w EXCEPT !.mem.streamed = is]
  <2> HIDE DEF w
  <2>1. Good(w)
    BY <1>4 DEF Quiet, w
  <2>2. y = [mem |-> [w.mem EXCEPT !.streamed = is], db |-> w.db, map |-> w.map, said |-> w.said]
    BY <2>1 DEF Good, IsServer
  <2>3. IsMem([w.mem EXCEPT !.streamed = is])
    BY <2>1 DEF Good, IsMem
  <2>4. Quiet(w, y)
    BY <1>1, <2>1, <2>2, <2>3
  <2> QED
    BY <1>4, <2>4, QuietTransitive DEF Streaming, w
<1>6. [x EXCEPT !.mem.stream = s]
      = [mem |-> [x.mem EXCEPT !.stream = s], db |-> x.db, map |-> x.map, said |-> x.said]
  BY DEF Good, IsServer
<1>7. IsMem([x.mem EXCEPT !.stream = s])
  BY DEF Good, IsMem
<1>8. [x EXCEPT !.mem.statusRef = <<StreamRef>>]
      = [mem |-> [x.mem EXCEPT !.statusRef = <<StreamRef>>], db |-> x.db, map |-> x.map, said |-> x.said]
  BY DEF Good, IsServer
<1>9. IsMem([x.mem EXCEPT !.statusRef = <<StreamRef>>])
  BY DEF Good, IsMem
<1> QED
  BY <1>1, <1>4, <1>5, <1>6, <1>7, <1>8, <1>9
LEMMA LeafUpdated ==
  ASSUME NEW x, Good(x), x.said = << >>, NEW node, NEW leaf, NEW o, NEW ref
  PROVE  Answers(x, UpdateLeafObject(x, node, leaf, o, ref), ref)
<1> DEFINE y == CheckStateChanges(x)
           u == DoUpdate(y, leaf, [long |-> o.long, known |-> o.known, luid |-> LuidOf(x, node)])
           z == [y EXCEPT !.mem.streamOpen = FALSE]
<1>1. Quiet(x, y)
  BY Checks
<1> HIDE DEF y
<1>2. Quiet(x, z)
  BY <1>1, StreamSet, QuietTransitive DEF Quiet
<1> HIDE DEF z
<1>3. u.x = y
  BY DEF DoUpdate
<1>4. UpdateLeafObject(x, node, leaf, o, ref)
      \in {SetStatus(y, ref, "EError"), Answer(y, ref, u.status), Answer(z, ref, u.status)}
  <2> HIDE DEF u
  <2>1. AnswerUpdate(u, leaf, ref)
        \in {SetStatus(y, ref, "EError"), Answer(y, ref, u.status), Answer(z, ref, u.status)}
    BY <1>3 DEF AnswerUpdate, z
  <2>2. UpdateLeafObject(x, node, leaf, o, ref) = AnswerUpdate(u, leaf, ref)
    BY DEF UpdateLeafObject, u, y
  <2> QED
    BY <2>1, <2>2
<1> HIDE DEF u
<1> QED
  BY <1>1, <1>2, <1>4, AnswerGiven

\* A stream that is opened is answered once, or in an atomic not at all.
LEMMA StreamOpened ==
  ASSUME NEW x, Good(x), x.said = << >>, NEW node, NEW leaf, NEW o
  PROVE  LET y == StreamLeafObject(x, node, leaf, o, StreamRef)
         IN  Answers(x, y, StreamRef) \/ Quiet(x, y)
<1> DEFINE opens == ~x.mem.streamOpen
           i == LuidOf(x, node)
           y == [x EXCEPT !.mem.stream = <<[node |-> node, leaf |-> leaf, o |-> o, luid |-> i]>>]
           z == IF opens /\ leaf = "Data" THEN Streaming(y, TRUE) ELSE y
           w == [z EXCEPT !.mem.statusRef = <<StreamRef>>]
<1>1. Quiet(x, y)
  BY StreamSet
<1> HIDE DEF y
<1>2. Quiet(y, Streaming(y, TRUE))
  BY <1>1, StreamSet DEF Quiet
<1>3. Quiet(x, z)
  BY <1>1, <1>2, QuietTransitive
<1> HIDE DEF z
<1>4. Quiet(z, w) /\ Quiet(z, Buffered(z, StreamRef))
  BY <1>3, StreamSet, BufferedQuietly DEF Quiet
<1>5. Quiet(x, w) /\ Quiet(x, Buffered(z, StreamRef))
  <2> HIDE DEF w
  <2> QED
    BY <1>3, <1>4, QuietTransitive
<1>6. Quiet(x, x)
  BY QuietItself
<1> HIDE DEF w
<1>7. \E status : StreamLeafObject(x, node, leaf, o, StreamRef)
                  \in {SetStatus(x, StreamRef, status), Buffered(z, StreamRef),
                       SetStatus(w, StreamRef, status)}
  BY DEF StreamLeafObject, w, z, y
<1> QED
  BY <1>5, <1>6, <1>7, AnswerGiven

\* A stream that is sent is answered once, or, if only atomics had streams, not at all.
LEMMA StreamSent ==
  ASSUME NEW x, Good(x), x.said = << >>
  PROVE  LET y == StreamCommitted(x)
         IN  Answers(x, y, StreamRef) \/ Quiet(x, y)
<1> DEFINE s == x.mem.stream[1]
           y == CheckStateChanges(x)
           u == DoUpdate(y, s.leaf, [long |-> FALSE, known |-> s.o.known, luid |-> s.luid])
           z == Streaming(y, FALSE)
<1>1. Quiet(x, y)
  BY Checks
<1> HIDE DEF s, y
<1>2. Quiet(x, z)
  <2>1. Quiet(y, z)
    BY <1>1, StreamSet DEF Quiet
  <2> HIDE DEF z
  <2> QED
    BY <1>1, <2>1, QuietTransitive
<1>3. u.x = y
  BY DEF DoUpdate
<1>4. StreamCommitted(x) = AnswerStream(u)
  BY DEF StreamCommitted, y, s
<1> HIDE DEF u, z
<1>5. z.mem.statusRef = << >> \/ z.mem.statusRef[1] = StreamRef
  <2>1. z.mem.statusRef \in {<< >>, <<StreamRef>>}
    BY <1>2 DEF Quiet, Good, IsMem
  <2> QED
    BY <2>1
<1>6. AnswerStream(u) \in {z, SetStatus(z, StreamRef, "EOk"), SetStatus(z, StreamRef, u.status)}
  BY <1>3, <1>5 DEF AnswerStream, z
<1> QED
  BY <1>2, <1>4, <1>6, AnswerGiven
\* A component that was found is removed, and with it the mapping of the node.
LEMMA RemovedQuietly ==
  ASSUME NEW x, Good(x), NEW i, NEW refuses, NEW node
  PROVE  LET y == ClientRemove(x, i, refuses).x
         IN  Quiet(x, y) /\ Quiet(x, RemoveMapping(y, node)) /\ Quiet(x, SetMapping(y, node, NoLuid))
<1> DEFINE y == ClientRemove(x, i, refuses).x
<1>1. Quiet(x, y)
  BY ComponentRemoved, TrimmedQuietly DEF Good
<1> HIDE DEF y
<1>2. Quiet(y, RemoveMapping(y, node)) /\ Quiet(y, SetMapping(y, node, NoLuid))
  BY <1>1, MappingRemoved, NoMappingSet DEF Quiet
<1> QED
  BY <1>1, <1>2, QuietTransitive DEF y

LEMMA NodeDeleted ==
  ASSUME NEW x, Good(x), x.said = << >>, NEW node, IsNode(node), NEW ref, NEW refuses
  PROVE  Answers(x, DeleteObject(x, node, ref, refuses), ref)
<1> DEFINE g == GetLuid(x, LuidOf(x, node), node[2], StateOf[node[1]])
           r == ClientRemove(g.x, g.id, refuses)
<1>1. Found(x, g)
  BY LuidIs, FoundByLuid
<1> HIDE DEF g
<1>2. Quiet(g.x, r.x) /\ Quiet(g.x, SetMapping(r.x, node, NoLuid))
  <2>1. Good(g.x)
    BY <1>1 DEF Found, Quiet
  <2> QED
    BY <2>1, RemovedQuietly
<1> HIDE DEF r
<1>3. Quiet(x, g.x) /\ Quiet(x, r.x) /\ Quiet(x, SetMapping(r.x, node, NoLuid)) /\ Quiet(x, x)
  BY <1>1, <1>2, QuietTransitive, QuietItself, SMTT(40) DEF Found
<1>4. \E y \in {x, g.x, r.x, SetMapping(r.x, node, NoLuid)} : \E status :
         DeleteObject(x, node, ref, refuses) \in {SetStatus(y, ref, status), Answer(y, ref, status)}
  BY DEF DeleteObject, DeleteFound, g, r
<1> QED
  BY <1>3, <1>4, AnswerGiven

\* An installation moves the mapping of the node of Delivered, or drops it.
LEMMA NodeInstalled ==
  ASSUME NEW x, Good(x), x.said = << >>, NEW node, NEW target, NEW ref, NEW end \in InstallEnds
  PROVE  Answers(x, ExecuteInstall(x, node, target, ref, end), ref)
<1> DEFINE luid == LuidOf(x, node)
           g == GetLuid(x, luid, node[2], "Delivered")
           r == ServerInstall(g.x, g.id, end)
           y == SetMapping(r.x, node, NoLuid)
           z == SetMapping(y, <<"Deployed", node[2]>>, luid)
           c == StateChangeComplete(z, g.id)
           d == IF target = "Inactive" THEN Deactivate(c, g.id) ELSE c
<1>1. luid \in Int /\ luid < x.db.next
  BY LuidIs
<1> HIDE DEF luid
<1>2. Found(x, g)
  BY <1>1, FoundByLuid
<1> HIDE DEF g
<1>3. Quiet(g.x, r.x) /\ r.x.db.next = g.x.db.next
  <2>1. Follows(g.x, r.x)
    BY <1>2, ServerInstalls DEF Found, Quiet, Good
  <2>2. "next" \in DOMAIN g.x.db \ {"comp", "results"}
    BY <1>2 DEF Found, Quiet, Good, IsDb
  <2> HIDE DEF r
  <2> QED
    BY <1>2, <2>1, <2>2, FollowedQuietly DEF Found, Quiet, Follows, Same
<1> HIDE DEF r
<1>4. Quiet(x, r.x) /\ luid < r.x.db.next
  BY <1>1, <1>2, <1>3, QuietTransitive DEF Found
<1>5. Quiet(r.x, y) /\ y.db = r.x.db
  BY <1>4, NoMappingSet DEF Quiet
<1> HIDE DEF y
<1>6. Quiet(y, z)
  BY <1>1, <1>4, <1>5, MappingSet DEF Quiet
<1> HIDE DEF z
<1>7. Quiet(z, c)
  BY <1>6, ChangeCompletedQuietly DEF Quiet
<1> HIDE DEF c
<1>8. Quiet(c, d)
  BY <1>7, ApplicationSwitched, FollowedQuietly, QuietItself DEF Quiet, Good
<1> HIDE DEF d
<1>9. Quiet(x, d)
  BY <1>4, <1>5, <1>6, <1>7, <1>8, QuietTransitive
<1>10. Quiet(d, RemoveMapping(d, node)) /\ Quiet(r.x, RemoveMapping(r.x, node))
  BY <1>4, <1>9, MappingRemoved DEF Quiet
<1>11. Quiet(x, g.x) /\ Quiet(x, RemoveMapping(d, node)) /\ Quiet(x, RemoveMapping(r.x, node))
  BY <1>2, <1>4, <1>9, <1>10, QuietTransitive DEF Found
<1>12. \E w \in {g.x, RemoveMapping(d, node), RemoveMapping(r.x, node)} : \E status :
          ExecuteInstall(x, node, target, ref, end) = SetStatus(w, ref, status)
  <2>1. ExecuteInstall(x, node, target, ref, end) = Install(g, node, luid, target, ref, end)
    BY DEF ExecuteInstall, g, luid
  <2>2. AnswerInstall(r, g.id, node, luid, target, ref)
        \in {SetStatus(RemoveMapping(d, node), ref, MapError(r.err)),
             SetStatus(RemoveMapping(r.x, node), ref, MapError(r.err))}
    BY DEF AnswerInstall, DirectSetMapping, d, c, z, y
  <2>3. Install(g, node, luid, target, ref, end)
        \in {SetStatus(g.x, ref, "ENotFound"), AnswerInstall(r, g.id, node, luid, target, ref)}
    BY DEF Install, r
  <2> QED
    BY <2>1, <2>2, <2>3
<1> QED
  BY <1>11, <1>12, AnswerGiven
LEMMA NodeRemoved ==
  ASSUME NEW x, Good(x), x.said = << >>, NEW node, NEW ref, NEW refuses
  PROVE  Answers(x, ExecuteRemove(x, node, ref, refuses), ref)
<1> DEFINE luid == LuidOf(x, node)
           g == IF node[1] = "Delivered" THEN GetLuid(x, luid, node[2], "Delivered")
                ELSE GetDeployed(x, luid, node[2])
           r == ClientRemove(g.x, g.id, refuses)
           y == RemoveMapping(r.x, node)
           status == IF node \in DOMAIN r.x.map THEN "EOk" ELSE "EError"
<1>1. luid \in Int /\ luid < x.db.next
  BY LuidIs
<1> HIDE DEF luid
<1>2. Found(x, g)
  BY <1>1, FoundByLuid, FoundDeployed
<1> HIDE DEF g
<1>3. Quiet(g.x, r.x) /\ Quiet(g.x, y)
  <2>1. Good(g.x)
    BY <1>2 DEF Found, Quiet
  <2> QED
    BY <2>1, RemovedQuietly
<1> HIDE DEF r, y, status
<1>4. Quiet(x, g.x) /\ Quiet(x, r.x) /\ Quiet(x, y)
  BY <1>2, <1>3, QuietTransitive DEF Found
<1>5. ExecuteRemove(x, node, ref, refuses)
      \in {SetStatus(g.x, ref, "ENotFound"), SetStatus(r.x, ref, MapError(r.err)),
           Buffered(SetStatus(y, ref, status), ref)}
  BY DEF ExecuteRemove, RemoveFound, AnswerRemove, y, r, g, luid, status
<1>6. /\ Answers(x, SetStatus(g.x, ref, "ENotFound"), ref)
      /\ Answers(x, SetStatus(r.x, ref, MapError(r.err)), ref)
      /\ Answers(x, SetStatus(y, ref, status), ref)
  BY <1>4, AnswerGiven
<1> QED
  BY <1>5, <1>6, BufferedAnswer

LEMMA NodeSwitched ==
  ASSUME NEW x, Good(x), x.said = << >>, NEW node, NEW state, NEW ref
  PROVE  Answers(x, ExecuteSwitch(x, node, state, ref), ref)
<1> DEFINE g == GetDeployed(x, LuidOf(x, node), node[2])
<1>1. Found(x, g)
  BY LuidIs, FoundDeployed
<1> HIDE DEF g
<1>2. Quiet(g.x, Activate(g.x, g.id)) /\ Quiet(g.x, Deactivate(g.x, g.id))
  BY <1>1, ApplicationSwitched, FollowedQuietly DEF Found, Quiet, Good
<1>3. /\ Quiet(x, g.x) /\ Quiet(x, Activate(g.x, g.id)) /\ Quiet(x, Deactivate(g.x, g.id))
  BY <1>1, <1>2, QuietTransitive DEF Found
<1>4. \E y \in {g.x, Activate(g.x, g.id), Deactivate(g.x, g.id)} : \E status :
         ExecuteSwitch(x, node, state, ref) = SetStatus(y, ref, status)
  BY DEF ExecuteSwitch, SwitchFound, g
<1> QED
  BY <1>3, <1>4, AnswerGiven

LEMMA LeafFetched ==
  ASSUME NEW x, Good(x), x.said = << >>, NEW node, IsNode(node), NEW leaf, NEW empty, NEW ref
  PROVE  /\ Answers(x, FetchLeafObject(x, node, leaf, ref), ref)
         /\ Answers(x, FetchLeafObjectSize(x, node, leaf, empty, ref), ref)
<1> DEFINE g == TakeOver(x, node)
<1>1. Quiet(x, g.x)
  BY TakenOver DEF IsNode
<1> HIDE DEF g
<1>2. \E status : FetchLeafObject(x, node, leaf, ref) = Answer(g.x, ref, status)
  BY DEF FetchLeafObject, FetchFound, g
<1>3. \E status : FetchLeafObjectSize(x, node, leaf, empty, ref)
                  \in {SetStatus(g.x, ref, status), Answer(g.x, ref, status)}
  BY DEF FetchLeafObjectSize, GetSize, g
<1> QED
  BY <1>1, <1>2, <1>3, AnswerGiven

\* Components without mapping get one; a node of Download that of the first component
\* of its name.
LEMMA Listed ==
  ASSUME NEW x, Good(x), NEW place \in Places, NEW state, place = "Download" => state = "Download"
  PROVE  Quiet(x, IdList(x, place, state))
<1> DEFINE c == ComponentIds(x, state)
           z == c.x
           byName(user) == {i \in c.ids : z.db.comp[i].user = user}
           named == {node \in {place} \X {z.db.comp[i].user : i \in c.ids} : LuidOf(z, node) = NoLuid}
           m == [node \in DOMAIN z.map \cup named |->
                   IF node \in named THEN Lowest(byName(node[2])) ELSE z.map[node]]
           y == [mem |-> z.mem, db |-> z.db, map |-> m, said |-> z.said]
<1>1. Quiet(x, z) /\ c.ids = IdsIn(z, state)
  BY IdsListed, TrimmedQuietly DEF Good
<1>2. Good(z)
  BY <1>1 DEF Quiet
<1>3. IdList(x, place, state) = [z EXCEPT !.map = m]
  BY DEF IdList, ListEach
<1> HIDE DEF c
<1>4. IdList(x, place, state) = y
  <2> HIDE DEF m, z
  <2> QED
    BY <1>2, <1>3, SMTT(40) DEF Good, IsServer
<1>5. ASSUME NEW node \in named
      PROVE  /\ node[1] = place
             /\ Lowest(byName(node[2])) \in IdsIn(z, state)
             /\ z.db.comp[Lowest(byName(node[2]))].user = node[2]
  <2>1. byName(node[2]) # {} /\ byName(node[2]) \subseteq IdsIn(z, state)
    BY <1>1
  <2>2. byName(node[2]) \in SUBSET Nat
    BY <1>2, <2>1 DEF Good, IsDb, IdsIn
  <2>3. Lowest(byName(node[2])) \in byName(node[2])
    <3> HIDE DEF byName
    <3> QED
      BY <2>1, <2>2, LowestIs
  <2> QED
    BY <2>1, <2>3
<1> HIDE DEF named, byName, z
<1>6. ASSUME NEW node \in DOMAIN m
      PROVE  m[node] \in Int /\ m[node] < z.db.next /\ Own(y, node)
  <2>1. CASE node \in named
    <3>1. m[node] = Lowest(byName(node[2]))
      BY <2>1
    <3>2. m[node] \in IdsIn(z, state) /\ z.db.comp[m[node]].user = node[2]
      BY <1>5, <2>1, <3>1
    <3>3. m[node] \in 1 .. z.db.next - 1
      BY <1>2, <3>2 DEF Good, IdsIn
    <3> HIDE DEF m
    <3> QED
      BY <1>2, <3>2, <3>3 DEF Own, IdsIn, Ids, Good, IsDb
  <2>2. CASE node \notin named
    <3>1. node \in DOMAIN z.map /\ m[node] = z.map[node]
      BY <2>2
    <3> HIDE DEF m
    <3> QED
      BY <1>2, <3>1 DEF Good, IsMap, Own, IdsIn, Ids
  <2> QED
    BY <2>1, <2>2
<1>7. m \in [DOMAIN m -> Int]
  <2>1. m = [node \in DOMAIN m |-> m[node]]
    OBVIOUS
  <2> HIDE DEF m
  <2> QED
    BY <1>6, <2>1
<1> HIDE DEF m
<1>8. IsMap(y)
  BY <1>6, <1>7 DEF IsMap
<1>9. Good(y)
  BY <1>2, <1>8 DEF Good, IsServer, Ids
<1> QED
  BY <1>1, <1>4, <1>9 DEF Quiet
LEMMA PlaceListed ==
  ASSUME NEW x, Good(x), x.said = << >>, NEW place \in Places, NEW ref
  PROVE  Answers(x, ChildURIList(x, place, ref), ref)
<1> DEFINE y == IdList(x, place, "Active")
           z == IdList(y, place, "Inactive")
           w == IdList(x, place, StateOf[place])
<1>1. CASE place = "Deployed"
  <2>1. Quiet(x, y)
    BY <1>1, Listed
  <2> HIDE DEF y
  <2>2. Quiet(y, z)
    BY <1>1, <2>1, Listed DEF Quiet
  <2> HIDE DEF z
  <2>3. Quiet(x, z)
    BY <2>1, <2>2, QuietTransitive
  <2>4. ChildURIList(x, place, ref) = Answer(z, ref, "EOk")
    BY <1>1 DEF ChildURIList, z, y
  <2> QED
    BY <2>3, <2>4, AnswerGiven
<1>2. CASE place # "Deployed"
  <2>1. Quiet(x, w)
    BY <1>2, Listed DEF StateOf, Places
  <2>2. ChildURIList(x, place, ref) = Answer(w, ref, "EOk")
    BY <1>2 DEF ChildURIList
  <2> HIDE DEF w
  <2> QED
    BY <2>1, <2>2, AnswerGiven
<1> QED
  BY <1>1, <1>2

LEMMA NodeListed ==
  ASSUME NEW x, Good(x), x.said = << >>, NEW node, IsNode(node), NEW ref
  PROVE  Answers(x, ListNode(x, node, ref), ref)
<1> DEFINE luid == LuidOf(x, node)
           g == IF node[1] = "Deployed" THEN GetDeployed(x, luid, node[2])
                ELSE GetLuid(x, luid, node[2], StateOf[node[1]])
<1>1. luid \in Int /\ luid < x.db.next
  BY LuidIs
<1> HIDE DEF luid
<1>2. Found(x, g)
  BY <1>1, FoundByLuid, FoundDeployed
<1> HIDE DEF g
<1>3. Quiet(x, x) /\ Quiet(x, g.x)
  BY <1>2, QuietItself DEF Found
<1>4. \E y \in {x, g.x} : \E status : ListNode(x, node, ref) = Answer(y, ref, status)
  BY DEF ListNode, ListFound, g, luid
<1> QED
  BY <1>3, <1>4, AnswerGiven

-----------------------------------------------------------------------------
(* Handlers that change the pending alerts. *)

LEMMA AlertsChanged ==
  ASSUME NEW x, Good(x), NEW rows \in Seq(AlertRows)
  PROVE  LET y == [x EXCEPT !.db.alerts = rows]
         IN  Good(y) /\ y.said = x.said /\ y.db.alerts = rows
<1> DEFINE d == [x.db EXCEPT !.alerts = rows]
           y == [mem |-> x.mem, db |-> d, map |-> x.map, said |-> x.said]
<1>1. [x EXCEPT !.db.alerts = rows] = y
  BY DEF Good, IsServer
<1>2. /\ DOMAIN d = DOMAIN x.db /\ d.alerts = rows
      /\ \A f \in DOMAIN x.db \ {"alerts"} : d[f] = x.db[f]
  BY DEF Good, IsDb
<1> HIDE DEF d
<1>3. d.comp = x.db.comp /\ d.next = x.db.next
  BY <1>2 DEF Good, IsDb
<1>4. Good(y)
  BY <1>2, <1>3 DEF Good, IsServer, IsDb, Ids, IsMap, Own, IdsIn
<1> QED
  BY <1>1, <1>2, <1>4

LEMMA ResultsChanged ==
  ASSUME NEW x, Good(x), NEW S
  PROVE  Quiet(x, [x EXCEPT !.db.results = S])
<1> DEFINE d == [x.db EXCEPT !.results = S]
           y == [mem |-> x.mem, db |-> d, map |-> x.map, said |-> x.said]
<1>1. [x EXCEPT !.db.results = S] = y
  BY DEF Good, IsServer
<1>2. DOMAIN d = DOMAIN x.db /\ \A f \in DOMAIN x.db \ {"results"} : d[f] = x.db[f]
  BY DEF Good, IsDb
<1> HIDE DEF d
<1>3. d.comp = x.db.comp /\ d.next = x.db.next /\ d.alerts = x.db.alerts
  BY <1>2 DEF Good, IsDb
<1>4. Good(y)
  BY <1>2, <1>3 DEF Good, IsServer, IsDb, Ids, IsMap, Own, IdsIn
<1> QED
  BY <1>1, <1>3, <1>4 DEF Quiet

\* How often an alert was sent.
Sent(sent, i) == Cardinality({k \in DOMAIN sent : sent[k] = i})

LEMMA SentAppended ==
  ASSUME NEW A, NEW sent \in Seq(A), NEW j \in A, NEW i
  PROVE  /\ Sent(sent, i) \in Nat
         /\ Sent(Append(sent, j), i) = IF i = j THEN Sent(sent, i) + 1 ELSE Sent(sent, i)
<1> DEFINE N == Len(sent)
           new == Append(sent, j)
           S == {k \in DOMAIN sent : sent[k] = i}
<1>1. N \in Nat /\ DOMAIN sent = 1 .. N /\ DOMAIN new = 1 .. N + 1
  OBVIOUS
<1>2. (\A k \in 1 .. N : new[k] = sent[k]) /\ new[N + 1] = j
  OBVIOUS
<1>3. IsFiniteSet(S)
  <2>1. IsFiniteSet(1 .. N)
    BY <1>1, FS_Interval
  <2>2. S \subseteq 1 .. N
    BY <1>1
  <2> QED
    BY <2>1, <2>2, FS_Subset
<1>4. Cardinality(S) \in Nat /\ Cardinality(S \cup {N + 1}) = Cardinality(S) + 1
  <2>1. N + 1 \notin S
    BY <1>1
  <2> HIDE DEF S
  <2> QED
    BY <1>3, <2>1, FS_CardinalityType, FS_AddElement
<1>5. {k \in DOMAIN new : new[k] = i} = IF i = j THEN S \cup {N + 1} ELSE S
  BY <1>1, <1>2
<1> QED
  BY <1>4, <1>5 DEF Sent

\* What is sent is taken from the tries that are left.
Spends(x, s, A) ==
  /\ DOMAIN s = {"x", "left", "sent"} /\ s.sent \in Seq(A)
  /\ Good(s.x) /\ s.x.said = x.said
  /\ \A i : Sent(s.sent, i) + Retry(s.x.db.alerts, i) <= Retry(x.db.alerts, i)

LEMMA RetryCount ==
  ASSUME NEW x, NEW i
  PROVE  GetRetryCountForLuid(x, i) = Retry(x.db.alerts, i)
BY DEF GetRetryCountForLuid, Retry, Rows

LEMMA OneSent ==
  ASSUME NEW x, Good(x), NEW A, NEW s, Spends(x, s, A), NEW i \in A
  PROVE  Spends(x, SendOne(s, i), A)
<1> DEFINE y == s.x
           rows == y.db.alerts
           retry == GetRetryCountForLuid(y, i)
           z == DeleteFromDatabase(y, i)
           g == GenericAlertSent(z, i)
           u == UpdateRetryCountForLuid(y, i, retry - 1)
<1>1. Good(y) /\ rows \in Seq(AlertRows) /\ y.said = x.said
  BY DEF Spends, Good, IsDb
<1>2. retry = Retry(rows, i) /\ retry \in 0 .. MaxRetry /\ (retry # 0 => i \in Pending(rows))
  BY <1>1, RetryCount, RetryType
<1>3. /\ \A j : Sent(s.sent, j) \in Nat /\ Retry(x.db.alerts, j) \in Nat
      /\ \A j : Retry(rows, j) \in Nat
  BY <1>1, SentAppended, RetryType DEF Spends, Good, IsDb
<1> HIDE DEF y, retry
<1>4. /\ Good(z) /\ z.said = x.said
      /\ \A j : Retry(z.db.alerts, j) = IF j = i THEN 0 ELSE Retry(rows, j)
  <2> DEFINE new == Others(rows, {i})
  <2>1. /\ new \in Seq(AlertRows)
        /\ \A j : Retry(new, j) = IF j \in {i} THEN 0 ELSE Retry(rows, j)
    BY <1>1, OthersAre
  <2>2. z = [y EXCEPT !.db.alerts = new]
    BY DEF DeleteFromDatabase
  <2> HIDE DEF new, z
  <2>3. Good(z) /\ z.said = y.said /\ z.db.alerts = new
    BY <1>1, <2>1, <2>2, AlertsChanged
  <2> QED
    BY <1>1, <2>1, <2>3
<1> HIDE DEF z
<1>5. Good(g) /\ g.said = x.said /\ g.db.alerts = z.db.alerts
  BY <1>4, ResultsChanged, SMTT(40) DEF GenericAlertSent, Quiet
<1> HIDE DEF g
<1>6. retry # 0 => /\ Good(u) /\ u.said = x.said
                   /\ \A j : Retry(u.db.alerts, j) = IF j = i THEN retry - 1 ELSE Retry(rows, j)
  <2> SUFFICES ASSUME retry # 0
               PROVE  /\ Good(u) /\ u.said = x.said
                      /\ \A j : Retry(u.db.alerts, j) = IF j = i THEN retry - 1 ELSE Retry(rows, j)
    OBVIOUS
  <2> DEFINE new == [rows EXCEPT ![Lowest({k \in DOMAIN rows : rows[k].luid = i})].retry = retry - 1]
  <2>0. retry - 1 \in 0 .. MaxRetry
    BY <1>2
  <2>1. /\ new \in Seq(AlertRows)
        /\ \A j : Retry(new, j) = IF j = i THEN retry - 1 ELSE Retry(rows, j)
    BY <1>1, <1>2, <2>0, RetrySet, ZenonT(60)
  <2>2. u = [y EXCEPT !.db.alerts = new]
    BY DEF UpdateRetryCountForLuid, Rows
  <2> HIDE DEF new, u
  <2>3. Good(u) /\ u.said = y.said /\ u.db.alerts = new
    BY <1>1, <2>1, <2>2, AlertsChanged
  <2> QED
    BY <1>1, <2>1, <2>3
<1> HIDE DEF u
<1>7. CASE s.left
  BY <1>7 DEF SendOne
<1>8. CASE ~s.left /\ ~HasResult(y, i)
  <2> DEFINE t == [s EXCEPT !.x = z, !.left = TRUE]
  <2>1. SendOne(s, i) = t
    BY <1>8 DEF SendOne, y, z, retry
  <2>2. DOMAIN t = {"x", "left", "sent"} /\ t.sent = s.sent /\ t.x = z
    BY DEF Spends
  <2> HIDE DEF t
  <2>3. \A j : Sent(s.sent, j) + Retry(z.db.alerts, j) <= Retry(x.db.alerts, j)
    BY <1>3, <1>4 DEF Spends, y
  <2>4. Spends(x, t, A)
    BY <1>4, <2>2, <2>3 DEF Spends
  <2> QED
    BY <2>1, <2>4
<1>9. CASE ~s.left /\ HasResult(y, i) /\ retry = 0
  <2> DEFINE t == [s EXCEPT !.x = g, !.left = TRUE]
  <2>1. SendOne(s, i) = t
    BY <1>9 DEF SendOne, y, z, g, retry
  <2>2. DOMAIN t = {"x", "left", "sent"} /\ t.sent = s.sent /\ t.x = g
    BY DEF Spends
  <2> HIDE DEF t
  <2>3. \A j : Sent(s.sent, j) + Retry(g.db.alerts, j) <= Retry(x.db.alerts, j)
    BY <1>3, <1>4, <1>5 DEF Spends, y
  <2> QED
    BY <1>4, <1>5, <2>1, <2>2, <2>3 DEF Spends
<1>10. CASE ~s.left /\ HasResult(y, i) /\ retry # 0
  <2> DEFINE t == [s EXCEPT !.x = u, !.sent = Append(@, i)]
  <2>1. SendOne(s, i) = t
    <3>1. ~s.left /\ HasResult(s.x, i) /\ retry # 0
      BY <1>10 DEF y
    <3>2. u = UpdateRetryCountForLuid(s.x, i, retry - 1) /\ retry = GetRetryCountForLuid(s.x, i)
      BY DEF u, y, retry
    <3> QED
      BY <3>1, <3>2 DEF SendOne
  <2>2. DOMAIN t = {"x", "left", "sent"} /\ t.sent = Append(s.sent, i) /\ t.x = u
    BY DEF Spends
  <2> HIDE DEF t
  <2>3. ASSUME NEW j
        PROVE  Sent(t.sent, j) + Retry(u.db.alerts, j) <= Retry(x.db.alerts, j)
    <3>1. Sent(t.sent, j) = IF j = i THEN Sent(s.sent, j) + 1 ELSE Sent(s.sent, j)
      BY <2>2, SentAppended DEF Spends
    <3>2. Sent(s.sent, j) + Retry(rows, j) <= Retry(x.db.alerts, j)
      BY DEF Spends, y
    <3> QED
      BY <1>2, <1>3, <1>6, <1>10, <3>1, <3>2
  <2>4. t.sent \in Seq(A)
    BY <2>2 DEF Spends
  <2>5. Good(t.x) /\ t.x.said = x.said
    BY <1>6, <1>10, <2>2
  <2>6. Spends(x, t, A)
    BY <2>2, <2>3, <2>4, <2>5 DEF Spends
  <2> QED
    BY <2>1, <2>6
<1> QED
  BY <1>7, <1>8, <1>9, <1>10
LEMMA AlertsSent ==
  ASSUME NEW x, Good(x)
  PROVE  Spends(x, SendPendingGenericAlert(x), Int)
<1> DEFINE rows == AlertsOf(x, x.mem.server)
           N == Len(rows)
           s0 == [x |-> x, left |-> FALSE, sent |-> << >>]
           F(g, n) == IF n = 0 THEN s0 ELSE SendOne(g[n - 1], rows[n].luid)
           Sends(m, g) == g = [n \in 0 .. m |-> F(g, n)]
           sent == CHOOSE g : Sends(N, g)
           S == {m \in Nat : \E g : Sends(m, g)}
           T == {n \in 0 .. N : Spends(x, sent[n], Int)}
<1>0. rows \in Seq(AlertRows) /\ N \in Nat
  <2> DEFINE K == {k \in DOMAIN x.db.alerts : x.db.alerts[k].server = x.mem.server}
  <2>1. x.db.alerts \in Seq(AlertRows) /\ 0 \notin K
    BY DEF Good, IsDb
  <2> HIDE DEF K
  <2>2. Only(x.db.alerts, K) \in Seq(AlertRows)
    BY <2>1, OnlyRows
  <2>3. rows = Only(x.db.alerts, K)
    BY DEF AlertsOf, K
  <2> HIDE DEF rows
  <2> QED
    BY <2>2, <2>3
<1> HIDE DEF N, rows, s0
<1>1. 0 \in S
  <2>1. Sends(0, [n \in 0 .. 0 |-> s0])
    OBVIOUS
  <2> QED
    BY <2>1
<1>2. ASSUME NEW m \in Nat, m \in S
      PROVE  m + 1 \in S
  <2>1. PICK g : Sends(m, g)
    BY <1>2
  <2> DEFINE h == [n \in 0 .. m + 1 |-> IF n <= m THEN g[n] ELSE F(g, n)]
  <2>2. ASSUME NEW n \in 0 .. m + 1
        PROVE  h[n] = F(h, n)
    <3>1. n # 0 => n - 1 \in 0 .. m /\ h[n - 1] = g[n - 1]
      OBVIOUS
    <3>2. F(h, n) = F(g, n)
      <4> HIDE DEF h
      <4> QED
        BY <3>1
    <3>3. n <= m => g[n] = F(g, n)
      <4> HIDE DEF F
      <4> QED
        BY <2>1
    <3> QED
      BY <3>2, <3>3
  <2>3. Sends(m + 1, h)
    BY <2>2
  <2> HIDE DEF h, Sends
  <2> QED
    BY <2>3
<1>3. \E g : Sends(N, g)
  <2>1. 0 .. N \subseteq S
    <3> HIDE DEF S
    <3> QED
      BY <1>0, <1>1, <1>2, InductionUpTo DEF S
  <2> QED
    BY <1>0, <2>1
<1>4. Sends(N, sent)
  BY <1>3
<1>5. \A n \in 0 .. N : sent[n] = F(sent, n)
  <2> HIDE DEF F
  <2> QED
    BY <1>4
<1>6. SendPendingGenericAlert(x) = sent[N]
  BY DEF SendPendingGenericAlert, sent, N, rows, s0
<1> HIDE DEF sent
<1>7. 0 \in T
  <2>1. sent[0] = s0
    BY <1>0, <1>5
  <2>2. Spends(x, s0, Int)
    <3>1. \A i : Sent(<< >>, i) = 0
      <4>1. \A i : {k \in DOMAIN << >> : << >>[k] = i} = {}
        OBVIOUS
      <4> QED
        BY <4>1, FS_EmptySet DEF Sent
    <3>2. \A i : Retry(x.db.alerts, i) \in Nat
      BY RetryType DEF Good, IsDb
    <3> QED
      BY <3>1, <3>2 DEF Spends, s0
  <2> QED
    BY <1>0, <2>1, <2>2
<1>8. ASSUME NEW n \in 0 .. N - 1, n \in T
      PROVE  n + 1 \in T
  <2>1. n + 1 \in 0 .. N /\ n + 1 # 0 /\ (n + 1) - 1 = n /\ n + 1 \in DOMAIN rows
    BY <1>0 DEF N
  <2>2. sent[n + 1] = F(sent, n + 1)
    <3> HIDE DEF F
    <3> QED
      BY <1>5, <2>1
  <2>3. sent[n + 1] = SendOne(sent[n], rows[n + 1].luid)
    BY <2>1, <2>2
  <2>4. rows[n + 1].luid \in Int
    <3>1. rows[n + 1] \in AlertRows
      BY <1>0, <2>1
    <3> QED
      BY <3>1 DEF AlertRows
  <2>5. Spends(x, sent[n], Int)
    BY <1>8
  <2>6. Spends(x, sent[n + 1], Int)
    BY <2>3, <2>4, <2>5, OneSent
  <2> QED
    BY <2>1, <2>6
<1>9. 0 .. N \subseteq T
  <2>1. T \in SUBSET Nat
    OBVIOUS
  <2> HIDE DEF T
  <2> QED
    BY <1>0, <1>7, <1>8, <2>1, InductionUpTo
<1> QED
  BY <1>0, <1>6, <1>9

\* What is reset has no tries left.
LEMMA AlertsReset ==
  ASSUME NEW x, Good(x)
  PROVE  LET y == ResetAlerts(x)
         IN  /\ Good(y) /\ y.said = x.said
             /\ \A i : Retry(y.db.alerts, i) <= Retry(x.db.alerts, i)
<1> DEFINE rows == AlertsOf(x, x.mem.server)
           luids == {rows[k].luid : k \in DOMAIN rows}
           new == Others(x.db.alerts, luids)
           z == [x EXCEPT !.db.alerts = new]
           y == [z EXCEPT !.db.results = @ \ luids]
<1>1. ResetAlerts(x) = y
  BY DEF ResetAlerts
<1> HIDE DEF luids
<1>2. new \in Seq(AlertRows) /\ \A i : Retry(new, i) = IF i \in luids THEN 0 ELSE Retry(x.db.alerts, i)
  BY OthersAre DEF Good, IsDb
<1> HIDE DEF new
<1>3. Good(z) /\ z.said = x.said /\ z.db.alerts = new
  BY <1>2, AlertsChanged
<1> HIDE DEF z
<1>4. Quiet(z, y)
  BY <1>3, ResultsChanged
<1> HIDE DEF y
<1>5. \A i : Retry(x.db.alerts, i) \in Nat
  BY RetryType DEF Good, IsDb
<1> QED
  BY <1>1, <1>2, <1>3, <1>4, <1>5 DEF Quiet
-----------------------------------------------------------------------------
(* A download: its alert gets all tries. *)

Reported(x, y) ==
  \/ y.db.alerts = x.db.alerts
  \/ \E row \in AlertRows : y.db.alerts = Append(x.db.alerts, row)

LEMMA AlertAdded ==
  ASSUME NEW x, Good(x), NEW i \in Int
  PROVE  LET y == ASyncReport(x, i) IN Good(y) /\ y.said = x.said /\ Reported(x, y)
<1> DEFINE row == [luid |-> i, server |-> x.mem.server, retry |-> MaxRetry]
           rows == Append(x.db.alerts, row)
<1>1. row \in AlertRows
  <2>1. x.mem.server \in Servers \cup {""}
    BY Zenon DEF Good, IsMem
  <2>2. MaxRetry \in 0 .. MaxRetry
    OBVIOUS
  <2> QED
    BY <2>1, <2>2, Zenon DEF AlertRows
<1>2. ASyncReport(x, i) = [x EXCEPT !.db.alerts = rows]
  BY DEF ASyncReport, SaveToDatabase
<1> HIDE DEF row
<1>3. rows \in Seq(AlertRows)
  BY <1>1 DEF Good, IsDb
<1> HIDE DEF rows
<1>4. Good(ASyncReport(x, i)) /\ ASyncReport(x, i).said = x.said
      /\ ASyncReport(x, i).db.alerts = rows
  BY <1>2, <1>3, AlertsChanged
<1> QED
  BY <1>1, <1>4 DEF Reported, rows

LEMMA Unlisted ==
  ASSUME NEW x, Good(x), NEW node, NEW target
  PROVE  Quiet(x, Unmapped(x, node, target))
BY QuietItself, MappingRemoved DEF Unmapped

LEMMA DownloadAnswered ==
  ASSUME NEW x, Good(x), x.said = << >>, NEW g, Found(x, g), g.id \in Int,
         NEW node, NEW target, NEW ref, NEW end
  PROVE  LET y == DownloadFound(g, node, target, ref, end)
         IN  Good(y) /\ Reported(x, y) /\ Replied(y, ref)
<1> DEFINE y == DownloadFound(g, node, target, ref, end)
           s == StartDownload(g.x, g.id, target)
           async == g.x.db.async
           z == IF async THEN ASyncReport(s, g.id) ELSE DownloadEnded(s, g.id, end)
           u == Unmapped(z, node, target)
<1>1. Quiet(x, g.x) /\ Good(g.x) /\ g.x.said = << >>
  BY DEF Found, Quiet
<1>2. CASE g.id = 0
  <2>1. y = SetStatus(g.x, ref, "ENotFound")
    BY <1>2 DEF DownloadFound
  <2>2. Answers(x, y, ref)
    BY <1>1, <2>1, AnswerGiven
  <2> QED
    BY <2>2 DEF Answers, Reported, Replied
<1>3. CASE g.id # 0 /\ g.id \notin Ids(g.x)
  <2>1. y = SetStatus(Unmapped(g.x, node, target), ref, "ENotFound")
    BY <1>3 DEF DownloadFound
  <2>2. Quiet(x, Unmapped(g.x, node, target))
    BY <1>1, Unlisted, QuietTransitive
  <2>3. Answers(x, y, ref)
    BY <2>1, <2>2, AnswerGiven
  <2> QED
    BY <2>3 DEF Answers, Reported, Replied
<1>4. CASE g.id # 0 /\ g.id \in Ids(g.x)
  <2>1. Quiet(g.x, s) /\ g.id \in Ids(s) /\ IsServer(s)
    BY <1>1, <1>4, DownloadStarted, FollowedQuietly DEF Good, Follows, Same
  <2>2. Good(s) /\ s.said = << >> /\ s.db.alerts = x.db.alerts
    BY <1>1, <2>1 DEF Quiet
  <2> HIDE DEF s
  <2>3. Good(z) /\ z.said = << >> /\ Reported(x, z)
    <3>1. CASE async
      <4>1. Good(z) /\ z.said = s.said /\ Reported(s, z)
        BY <2>2, <3>1, AlertAdded
      <4> QED
        BY <2>2, <4>1 DEF Reported
    <3>2. CASE ~async
      <4>1. Follows(s, DownloadEnded(s, g.id, end))
        BY <2>1, DownloadFollowed
      <4>2. Quiet(s, z)
        BY <2>2, <3>2, <4>1, FollowedQuietly
      <4> QED
        BY <2>2, <4>2 DEF Quiet, Reported
    <3> QED
      BY <3>1, <3>2, SMTT(40)
  <2>4. y = SetStatus(u, ref, IF async THEN "EAcceptedForProcessing" ELSE SyncStatus(end))
    BY <1>4 DEF DownloadFound, s
  <2> HIDE DEF z
  <2>5. Quiet(z, u)
    BY <2>3, Unlisted
  <2> HIDE DEF u
  <2>6. Answers(z, y, ref)
    BY <2>3, <2>4, <2>5, AnswerGiven
  <2> QED
    BY <2>3, <2>6 DEF Answers, Reported, Replied
<1> QED
  BY <1>2, <1>3, <1>4

LEMMA NodeDownloaded ==
  ASSUME NEW x, Good(x), x.said = << >>, NEW node, NEW command, NEW ref, NEW end
  PROVE  LET y == ExecuteDownload(x, node, command, ref, end)
         IN  Good(y) /\ Reported(x, y) /\ Replied(y, ref)
<1> DEFINE g == GetLuid(x, LuidOf(x, node), node[2], "Download")
<1>1. Found(x, g)
  BY LuidIs, FoundByLuid
<1>2. g.id \in Int
  BY <1>1 DEF Found
<1>3. ExecuteDownload(x, node, command, ref, end)
      = DownloadFound(g, node, DownloadTarget(command), ref, end)
  BY DEF ExecuteDownload
<1> DEFINE target == DownloadTarget(command)
           y == DownloadFound(g, node, target, ref, end)
<1> HIDE DEF g, target
<1>4. Good(y) /\ Reported(x, y) /\ Replied(y, ref)
  BY <1>1, <1>2, DownloadAnswered
<1> QED
  BY <1>3, <1>4, Zenon DEF target
-----------------------------------------------------------------------------
(* Steps. *)

LEMMA Counted ==
  ASSUME NEW sent \in Seq(Int), NEW rows \in Seq(AlertRows), NEW new \in Seq(AlertRows),
         NEW q, Budget(rows, q),
         \A i : Sent(sent, i) + Retry(new, i)
                <= IF i \in Pending(rows) THEN Retry(rows, i) ELSE MaxRetry
  PROVE  Budget(new, [i \in ToSet(sent) \cup Pending(new) |->
                         (IF i \in Pending(rows) \cap DOMAIN q THEN q[i] ELSE 0)
                         + Cardinality({k \in DOMAIN sent : sent[k] = i})])
<1> DEFINE D == ToSet(sent) \cup Pending(new)
           G(i) == (IF i \in Pending(rows) \cap DOMAIN q THEN q[i] ELSE 0) + Sent(sent, i)
           r == [i \in D |-> G(i)]
<1>1. ASSUME NEW i
      PROVE  G(i) \in Nat /\ G(i) + Retry(new, i) <= MaxRetry
  <2>1. Sent(sent, i) \in Nat /\ Retry(new, i) \in 0 .. MaxRetry /\ Retry(rows, i) \in 0 .. MaxRetry
    BY SentAppended, RetryType
  <2>2. i \in DOMAIN q => q[i] \in Nat /\ q[i] + Retry(rows, i) <= MaxRetry
    BY DEF Budget
  <2> QED
    BY <2>1, <2>2
<1> HIDE DEF D, G
<1>2. DOMAIN r = D /\ \A i \in D : r[i] = G(i)
  OBVIOUS
<1>3. Budget(new, r)
  <2> HIDE DEF r
  <2> QED
    BY <1>1, <1>2 DEF Budget
<1> QED
  BY <1>3 DEF D, G, Sent

\* What Count says of the sequence that was sent.
LEMMA CountKept ==
  ASSUME NEW sent \in Seq(Int), Count(sent), db.alerts \in Seq(AlertRows), db.alerts' \in Seq(AlertRows),
         Budget(db.alerts, queued),
         \A i : Sent(sent, i) + Retry(db.alerts', i)
                <= IF i \in Pending(db.alerts) THEN Retry(db.alerts, i) ELSE MaxRetry
  PROVE  Budget(db.alerts', queued')
BY Counted DEF Count

\* A state that a call leaves is good for the next one.
LEMMA LeftGood ==
  ASSUME NEW y, Good(y), mem' = y.mem, db' = y.db, map' = Without(y.map, {}) \/ map' = y.map
  PROVE  Good(X')
<1> DEFINE z == [mem |-> y.mem, db |-> y.db, map |-> y.map, said |-> << >>]
<1>1. Without(y.map, {}) = y.map
  BY DEF Without, Good, IsMap
<1>2. X' = z
  BY <1>1 DEF X
<1>3. Good(z)
  BY DEF Good, IsServer, Ids, IsMap, Own, IdsIn
<1> QED
  BY <1>2, <1>3

LEMMA BudgetOfReport ==
  ASSUME NEW x, Good(x), NEW y, Reported(x, y), NEW i
  PROVE  /\ y.db.alerts \in Seq(AlertRows)
         /\ Sent(<< >>, i) = 0
         /\ Retry(y.db.alerts, i)
            <= IF i \in Pending(x.db.alerts) THEN Retry(x.db.alerts, i) ELSE MaxRetry
<1>0. x.db.alerts \in Seq(AlertRows)
  BY DEF Good, IsDb
<1>1. Sent(<< >>, i) = 0
  <2>1. {k \in DOMAIN << >> : << >>[k] = i} = {}
    OBVIOUS
  <2> QED
    BY <2>1, FS_EmptySet DEF Sent
<1>2. CASE y.db.alerts = x.db.alerts
  BY <1>0, <1>1, <1>2, RetryType
<1>3. ASSUME NEW row \in AlertRows, y.db.alerts = Append(x.db.alerts, row)
      PROVE  /\ y.db.alerts \in Seq(AlertRows)
             /\ Retry(y.db.alerts, i)
                <= IF i \in Pending(x.db.alerts) THEN Retry(x.db.alerts, i) ELSE MaxRetry
  <2>1. row.retry \in 0 .. MaxRetry
    BY Zenon DEF AlertRows
  <2> QED
    BY <1>0, <1>3, <2>1, RowAppended, RetryType
<1> QED
  BY <1>1, <1>2, <1>3 DEF Reported
LEMMA Begins ==
  /\ X.said = << >> /\ X.mem = mem /\ X.db = db /\ X.map = map
  /\ Inv => Good(X) /\ db.alerts \in Seq(AlertRows) /\ Good(Checked) /\ Quiet(X, Checked) /\ Checked.said = << >>
<1>1. X.said = << >> /\ X.mem = mem /\ X.db = db /\ X.map = map
  BY DEF X
<1>2. Inv => Good(X)
  BY DEF Inv
<1>3. Inv => db.alerts \in Seq(AlertRows)
  BY <1>1, <1>2 DEF Good, IsDb
<1> QED
  BY <1>1, <1>2, <1>3, Checks DEF Checked, Quiet

\* A command whose handler answers it, once, or opens a stream, which may be
\* answered later.
LEMMA CommandDone ==
  ASSUME Inv, NEW ref \in {Now, StreamRef}, NEW y, Do(ref, y), Good(y), Reported(X, y),
         Replied(y, ref) \/ (ref = StreamRef /\ y.said = << >>)
  PROVE  Inv'
<1>1. Serve({ref}, y) /\ Count(<< >>)
  BY DEF Do
<1>2. Now.op # "delete" /\ StreamRef.op # "delete"
  BY DEF Now, StreamRef
<1>3. /\ mem' = y.mem /\ db' = y.db /\ map' = Without(y.map, {})
      /\ open' \subseteq open \cup {ref} /\ wrong' \subseteq wrong \cup {ref}
  <2>1. ref.op # "delete"
    BY <1>2
  <2>2. y.said = << >> \/ Replied(y, ref)
    OBVIOUS
  <2> QED
    BY <1>1, <2>1, <2>2, ServedAtMostOnce
<1>4. Good(X')
  BY <1>3, LeftGood
<1>5. open' \cup wrong' \subseteq {StreamRef}
  <2>1. CASE ref = StreamRef
    BY <1>3, <2>1 DEF Inv
  <2>2. CASE ref = Now /\ Replied(y, Now)
    <3>1. PICK status : y.said = <<[ref |-> Now, status |-> status]>>
      BY <2>2 DEF Replied
    <3>2. open' = open \ {Now} /\ wrong' = wrong
      BY <1>1, <2>2, <3>1, ServedOnce
    <3> QED
      BY <3>2 DEF Inv
  <2> QED
    BY <2>1, <2>2
<1>6. Budget(db.alerts', queued')
  <2>1. db.alerts' = y.db.alerts
    BY <1>3
  <2>2. \A i : /\ y.db.alerts \in Seq(AlertRows)
               /\ Sent(<< >>, i) = 0
               /\ Retry(y.db.alerts, i) <= IF i \in Pending(db.alerts) THEN Retry(db.alerts, i) ELSE MaxRetry
    BY Begins, BudgetOfReport
  <2>3. \A i : Retry(y.db.alerts, i) \in Nat
    BY <2>2, RetryType
  <2>4. << >> \in Seq(Int) /\ Budget(db.alerts, queued)
    BY DEF Inv
  <2>5. \A i : Sent(<< >>, i) + Retry(db.alerts', i)
               <= IF i \in Pending(db.alerts) THEN Retry(db.alerts, i) ELSE MaxRetry
    BY <2>1, <2>2, <2>3
  <2> QED
    BY <1>1, <2>1, <2>2, <2>4, <2>5, Begins, CountKept
<1> QED
  BY <1>4, <1>5, <1>6 DEF Inv

LEMMA AnswersDone ==
  ASSUME Inv, NEW y, Do(Now, y), Answers(Checked, y, Now)
  PROVE  Inv'
<1>1. Reported(X, y) /\ Good(y) /\ Replied(y, Now)
  BY Begins DEF Answers, Reported, Replied, Quiet
<1> QED
  BY <1>1, CommandDone

LEMMA NodesAre ==
  ASSUME NEW node \in Nodes
  PROVE  IsNode(node)
BY DEF Nodes, IsNode

LEMMA AddNodeStep ==
  ASSUME Inv, AddNode
  PROVE  Inv'
<1>1. PICK node \in Nodes : Do(Now, AddNodeObject(Checked, node, Now))
  BY DEF AddNode
<1>2. Answers(Checked, AddNodeObject(Checked, node, Now), Now)
  BY Begins, NodesAre, NodeAdded
<1> QED
  BY <1>1, <1>2, AnswersDone

LEMMA UpdateLeafStep ==
  ASSUME Inv, UpdateLeaf
  PROVE  Inv'
<1>1. PICK node, leaf, o : Do(Now, UpdateLeafObject(X, node, leaf, o, Now))
  BY DEF UpdateLeaf
<1> DEFINE y == UpdateLeafObject(X, node, leaf, o, Now)
<1>2. Answers(X, y, Now)
  BY Begins, LeafUpdated
<1> HIDE DEF y
<1>3. Reported(X, y) /\ Good(y) /\ Replied(y, Now)
  BY <1>2 DEF Answers, Reported, Replied
<1>4. Do(Now, y)
  BY <1>1 DEF y
<1> QED
  BY <1>3, <1>4, CommandDone

LEMMA OpenStreamStep ==
  ASSUME Inv, OpenStream
  PROVE  Inv'
<1>1. PICK node, leaf, o : Do(StreamRef, StreamLeafObject(X, node, leaf, o, StreamRef))
  BY DEF OpenStream
<1> DEFINE y == StreamLeafObject(X, node, leaf, o, StreamRef)
<1>2. Answers(X, y, StreamRef) \/ Quiet(X, y)
  BY Begins, StreamOpened
<1>3. Do(StreamRef, y)
  BY <1>1
<1> HIDE DEF y
<1>4. Good(y) /\ Reported(X, y) /\ (Replied(y, StreamRef) \/ y.said = << >>)
  BY <1>2, Begins DEF Answers, Quiet, Reported, Replied
<1> QED
  BY <1>3, <1>4, CommandDone

\* What is sent or reset only takes from the tries.
LEMMA SilentlyCounted ==
  ASSUME Inv, NEW y, Serve({}, y), Good(y), y.said = << >> \/ Replied(y, StreamRef),
         NEW sent \in Seq(Int), Count(sent),
         \A i : Sent(sent, i) + Retry(y.db.alerts, i) <= Retry(db.alerts, i)
  PROVE  Inv'
<1>1. StreamRef.op # "delete"
  BY DEF StreamRef
<1>2. /\ mem' = y.mem /\ db' = y.db /\ map' = Without(y.map, {})
      /\ open' \subseteq open \cup {} /\ wrong' \subseteq wrong \cup {StreamRef}
  BY <1>1, ServedAtMostOnce
<1>3. Good(X')
  BY <1>2, LeftGood
<1>4. y.db.alerts \in Seq(AlertRows) /\ db.alerts \in Seq(AlertRows)
  BY Begins DEF Good, IsDb
<1>5. \A i : Sent(sent, i) + Retry(y.db.alerts, i) <= IF i \in Pending(db.alerts) THEN Retry(db.alerts, i) ELSE MaxRetry
  <2>1. \A i : /\ Sent(sent, i) \in Nat /\ Retry(y.db.alerts, i) \in Nat
               /\ Retry(db.alerts, i) \in 0 .. MaxRetry
    BY <1>4, SentAppended, RetryType
  <2> QED
    BY <2>1
<1>6. db.alerts' = y.db.alerts
  BY <1>2
<1>7. Budget(db.alerts', queued')
  BY <1>4, <1>5, <1>6, CountKept DEF Inv
<1> QED
  BY <1>2, <1>3, <1>7 DEF Inv
LEMMA CommitStreamStep ==
  ASSUME Inv, CommitStream
  PROVE  Inv'
<1> DEFINE z == StreamCommitted(X)
           y == [z EXCEPT !.mem.stream = << >>]
<1>1. Serve({}, y) /\ Count(<< >>)
  BY DEF CommitStream
<1>2. Answers(X, z, StreamRef) \/ Quiet(X, z)
  BY Begins, StreamSent
<1> HIDE DEF z
<1>3. Good(z) /\ z.db.alerts = X.db.alerts /\ (z.said = << >> \/ Replied(z, StreamRef))
  BY <1>2, Begins DEF Answers, Quiet, Replied
<1>4. Quiet(z, y)
  BY <1>3, StreamSet
<1> HIDE DEF y
<1>5. Good(y) /\ y.db.alerts = db.alerts /\ (y.said = << >> \/ Replied(y, StreamRef))
  BY <1>3, <1>4, Begins DEF Quiet, Replied
<1>6. \A i : Sent(<< >>, i) + Retry(y.db.alerts, i) <= Retry(db.alerts, i)
  <2>1. \A i : Sent(<< >>, i) = 0
    BY Begins, BudgetOfReport DEF Reported
  <2>2. \A i : Retry(db.alerts, i) \in Nat
    BY Begins, RetryType
  <2> QED
    BY <1>5, <2>1, <2>2
<1>7. << >> \in Seq(Int)
  OBVIOUS
<1> QED
  BY <1>1, <1>5, <1>6, <1>7, SilentlyCounted

LEMMA DeleteStep ==
  ASSUME Inv, Delete
  PROVE  Inv'
<1>1. PICK node \in Nodes, refuses \in BOOLEAN :
         Do(Now, Forget(DeleteObject(Checked, node, Now, refuses), node))
  BY DEF Delete
<1> DEFINE z == DeleteObject(Checked, node, Now, refuses)
           y == Forget(z, node)
<1>2. Answers(Checked, z, Now)
  BY Begins, NodesAre, NodeDeleted
<1>3. Do(Now, y)
  BY <1>1
<1> HIDE DEF z
<1>4. Good(z)
  BY <1>2 DEF Answers
<1>5. Quiet(z, y)
  BY <1>4, QuietItself, MappingRemoved DEF Forget
<1> HIDE DEF y
<1>6. Answers(Checked, y, Now)
  BY <1>2, <1>5 DEF Answers, Quiet
<1> QED
  BY <1>3, <1>6, AnswersDone

LEMMA ExecDownloadStep ==
  ASSUME Inv, ExecDownload
  PROVE  Inv'
<1>1. PICK node, command, end : Do(Now, ExecuteDownload(Checked, node, command, Now, end))
  BY DEF ExecDownload
<1> DEFINE y == ExecuteDownload(Checked, node, command, Now, end)
<1>2. Good(y) /\ Reported(Checked, y) /\ Replied(y, Now)
  BY Begins, NodeDownloaded
<1>3. Do(Now, y)
  BY <1>1
<1> HIDE DEF y
<1>4. Reported(X, y)
  BY <1>2, Begins DEF Reported, Quiet
<1> QED
  BY <1>2, <1>3, <1>4, CommandDone

LEMMA ExecStep ==
  ASSUME Inv, ExecInstall \/ ExecRemove \/ ExecSwitch
  PROVE  Inv'
<1>1. CASE ExecInstall
  <2>1. PICK user \in Names, target \in DeployedStates, end \in InstallEnds :
           Do(Now, ExecuteInstall(Checked, <<"Delivered", user>>, target, Now, end))
    BY <1>1 DEF ExecInstall
  <2>2. Answers(Checked, ExecuteInstall(Checked, <<"Delivered", user>>, target, Now, end), Now)
    BY Begins, NodeInstalled
  <2> QED
    BY <2>1, <2>2, AnswersDone
<1>2. CASE ExecRemove
  <2>1. PICK node, refuses : Do(Now, ExecuteRemove(Checked, node, Now, refuses))
    BY <1>2 DEF ExecRemove
  <2>2. Answers(Checked, ExecuteRemove(Checked, node, Now, refuses), Now)
    BY Begins, NodeRemoved
  <2> QED
    BY <2>1, <2>2, AnswersDone
<1>3. CASE ExecSwitch
  <2>1. PICK node, state : Do(Now, ExecuteSwitch(Checked, node, state, Now))
    BY <1>3 DEF ExecSwitch
  <2>2. Answers(Checked, ExecuteSwitch(Checked, node, state, Now), Now)
    BY Begins, NodeSwitched
  <2> QED
    BY <2>1, <2>2, AnswersDone
<1> QED
  BY <1>1, <1>2, <1>3

LEMMA FetchStep ==
  ASSUME Inv, Fetch \/ List
  PROVE  Inv'
<1>1. CASE Fetch
  <2>1. PICK node \in Nodes, leaf \in {"State"}, empty \in BOOLEAN :
           \/ Do(Now, FetchLeafObject(Checked, node, leaf, Now))
           \/ Do(Now, FetchLeafObjectSize(Checked, node, leaf, empty, Now))
    BY <1>1 DEF Fetch
  <2>2. /\ Answers(Checked, FetchLeafObject(Checked, node, leaf, Now), Now)
        /\ Answers(Checked, FetchLeafObjectSize(Checked, node, leaf, empty, Now), Now)
    BY Begins, NodesAre, LeafFetched
  <2> QED
    BY <2>1, <2>2, AnswersDone
<1>2. CASE \E place \in Places : Do(Now, ChildURIList(Checked, place, Now))
  <2>1. PICK place \in Places : Do(Now, ChildURIList(Checked, place, Now))
    BY <1>2
  <2>2. Answers(Checked, ChildURIList(Checked, place, Now), Now)
    BY Begins, PlaceListed
  <2> QED
    BY <2>1, <2>2, AnswersDone
<1>3. CASE \E node \in Nodes : Do(Now, ListNode(Checked, node, Now))
  <2>1. PICK node \in Nodes : Do(Now, ListNode(Checked, node, Now))
    BY <1>3
  <2>2. Answers(Checked, ListNode(Checked, node, Now), Now)
    BY Begins, NodesAre, NodeListed
  <2> QED
    BY <2>1, <2>2, AnswersDone
<1> QED
  BY <1>1, <1>2, <1>3 DEF List

LEMMA ResetStep ==
  ASSUME Inv, Reset
  PROVE  Inv'
<1> DEFINE y == ResetAlerts(X)
<1>1. Serve({}, y) /\ Count(<< >>)
  BY DEF Reset
<1>2. Good(y) /\ y.said = << >> /\ \A i : Retry(y.db.alerts, i) <= Retry(db.alerts, i)
  BY Begins, AlertsReset
<1> HIDE DEF y
<1>3. \A i : Sent(<< >>, i) + Retry(y.db.alerts, i) <= Retry(db.alerts, i)
  <2>1. \A i : Sent(<< >>, i) = 0
    BY Begins, BudgetOfReport DEF Reported
  <2>2. \A i : Retry(y.db.alerts, i) \in Nat
    BY <1>2, RetryType DEF Good, IsDb
  <2> QED
    BY <1>2, <2>1, <2>2
<1>4. << >> \in Seq(Int)
  OBVIOUS
<1> QED
  BY <1>1, <1>2, <1>3, <1>4, SilentlyCounted

LEMMA NewSession ==
  ASSUME NEW server \in Servers \cup {""}, NEW up
  PROVE  IsMem(MemOf(up, server))
BY Zenon DEF IsMem, MemOf

LEMMA StartSessionStep ==
  ASSUME Inv, StartSession
  PROVE  Inv'
<1>1. PICK server \in Servers :
         Begin(SendPendingGenericAlert([X EXCEPT !.mem = MemOf(TRUE, server)]))
  BY DEF StartSession
<1> DEFINE x == [X EXCEPT !.mem = MemOf(TRUE, server)]
           s == SendPendingGenericAlert(x)
           y == IF db.next <= MaxStatic THEN DDFStructure(s) ELSE CheckStateChanges(s.x)
<1>2. Good(x) /\ x.said = << >> /\ x.db = db
  <2> DEFINE m == MemOf(TRUE, server)
  <2> HIDE DEF m
  <2>2. x = [mem |-> m, db |-> X.db, map |-> X.map, said |-> << >>]
    <3>1. IsServer(X)
      BY Begins DEF Good
    <3>2. x = [X EXCEPT !.mem = m]
      BY DEF m
    <3> HIDE DEF x
    <3> QED
      BY <3>1, <3>2, Begins DEF IsServer
  <2>1. IsMem(m)
    BY NewSession DEF m
  <2> HIDE DEF x
  <2>3. Good(x)
    BY <2>1, <2>2, Begins DEF Good, IsServer, Ids, IsMap, Own, IdsIn
  <2> QED
    BY <2>2, <2>3, Begins
<1> HIDE DEF x
<1>3. Spends(x, s, Int)
  BY <1>2, AlertsSent
<1>4. Serve({}, y) /\ Count(s.sent)
  BY <1>1 DEF Begin, x
<1> HIDE DEF s
<1>5. Quiet(s.x, y)
  <2>1. Good(s.x)
    BY <1>3 DEF Spends
  <2>2. Quiet(s.x, CheckStateChanges(s.x))
    BY <2>1, Checks
  <2>3. Quiet(s.x, DDFStructure(s))
    BY <2>2, PredefinedNode, QuietTransitive DEF DDFStructure, Quiet
  <2> QED
    BY <2>2, <2>3
<1> HIDE DEF y
<1>6. /\ Good(y) /\ y.said = << >> /\ s.sent \in Seq(Int)
      /\ \A i : Sent(s.sent, i) + Retry(y.db.alerts, i) <= Retry(db.alerts, i)
  BY <1>2, <1>3, <1>5 DEF Quiet, Spends
<1> QED
  BY <1>4, <1>6, SilentlyCounted

\* A step that changes nothing but the members of the adapter.
LEMMA MembersChanged ==
  ASSUME Inv, IsMem(mem'), UNCHANGED <<db, map, wrong, queued>>, open' \subseteq open
  PROVE  Inv'
<1>1. X' = [mem |-> mem', db |-> db, map |-> map, said |-> << >>]
  BY DEF X
<1>2. Good(X')
  BY <1>1, Begins DEF Good, IsServer, Ids, IsMap, Own, IdsIn
<1> QED
  BY <1>2 DEF Inv

LEMMA MembersStep ==
  ASSUME Inv, EndSession \/ StartAtomic \/ CommitAtomic \/ RollbackAtomic \/ CompleteOutstandingCmds
  PROVE  Inv'
<1>1. IsMem(mem)
  BY Begins DEF Good
<1>2. CASE EndSession
  <2>1. mem' = NewMem /\ UNCHANGED <<db, map, wrong, queued>> /\ open' = {}
    BY <1>2 DEF EndSession, EndWith, X
  <2>2. IsMem(mem')
    BY <2>1, NewSession, Zenon DEF NewMem
  <2> QED
    BY <2>1, <2>2, MembersChanged
<1>3. CASE StartAtomic
  <2>1. mem' = [mem EXCEPT !.atomic = TRUE] /\ UNCHANGED <<db, map, wrong, queued, open>>
    BY <1>3 DEF StartAtomic
  <2>2. IsMem(mem')
    BY <1>1, <2>1 DEF IsMem
  <2> QED
    BY <2>1, <2>2, MembersChanged
<1>4. CASE CommitAtomic
  <2>1. mem' = [mem EXCEPT !.atomic = FALSE] /\ UNCHANGED <<db, map, wrong, queued, open>>
    BY <1>4 DEF CommitAtomic
  <2>2. IsMem(mem')
    BY <1>1, <2>1 DEF IsMem
  <2> QED
    BY <2>1, <2>2, MembersChanged
<1>5. CASE RollbackAtomic
  <2>1. UNCHANGED <<mem, db, map, wrong, queued, open>>
    BY <1>5 DEF RollbackAtomic
  <2> QED
    BY <1>1, <2>1, MembersChanged
<1>6. CASE CompleteOutstandingCmds
  <2>1. mem' = [mem EXCEPT !.buffer = << >>] /\ UNCHANGED <<db, map, wrong, queued, open>>
    BY <1>6 DEF CompleteOutstandingCmds
  <2>2. IsMem(mem')
    BY <1>1, <2>1 DEF IsMem
  <2> QED
    BY <2>1, <2>2, MembersChanged
<1> QED
  BY <1>2, <1>3, <1>4, <1>5, <1>6

\* What the server does without the adapter.
LEMMA ServerStep ==
  ASSUME Inv, DownloadEnds \/ UserUninstalls
  PROVE  Inv'
<1>0. IsServer(X)
  BY Begins DEF Good
<1>1. ASSUME NEW y, Follows(X, y), Elsewhere(y.db, {}), UNCHANGED queued
      PROVE  Inv'
  <2>1. db' = y.db /\ mem' = mem /\ map' = map /\ open' = open /\ wrong' = wrong
    BY <1>1 DEF Elsewhere
  <2>2. Quiet(X, y) /\ y.mem = mem /\ y.map = map
    BY <1>1, Begins, FollowedQuietly DEF Follows, Same
  <2>3. Good(X')
    BY <2>1, <2>2, LeftGood DEF Quiet
  <2>4. db.alerts' = db.alerts
    BY <2>1, <2>2, Begins DEF Quiet
  <2> QED
    BY <1>1, <2>1, <2>3, <2>4 DEF Inv
<1>2. CASE DownloadEnds
  <2>1. PICK i \in DOMAIN db.comp, end \in Ends : Elsewhere(DownloadEnded(X, i, end).db, {})
                                              /\ UNCHANGED queued
    BY <1>2 DEF DownloadEnds
  <2>2. i \in Ids(X)
    BY Begins DEF Ids
  <2>3. Follows(X, DownloadEnded(X, i, end))
    BY <1>0, <2>2, DownloadFollowed
  <2> QED
    BY <1>1, <2>1, <2>3
<1>3. CASE UserUninstalls
  <2>1. PICK i \in DOMAIN db.comp : Elsewhere([db EXCEPT !.comp[i].present = FALSE], {})
                                /\ UNCHANGED queued
    BY <1>3 DEF UserUninstalls
  <2> DEFINE y == [X EXCEPT !.db.comp[i].present = FALSE]
  <2>4. y.db = [db EXCEPT !.comp[i].present = FALSE]
    BY DEF X
  <2>5. i \in Ids(X)
    BY Begins DEF Ids
  <2>6. Follows(X, y)
    BY <1>0, <2>5, Uninstalled
  <2> QED
    BY <1>1, <2>1, <2>4, <2>6
<1> QED
  BY <1>2, <1>3
-----------------------------------------------------------------------------
(* The theorems. *)

LEMMA InitInv ==
  ASSUME Init
  PROVE  Inv
<1>1. PICK async \in BOOLEAN, static \in Statics :
         /\ mem = NewMem /\ map = << >> /\ open = {} /\ wrong = {} /\ queued = << >>
         /\ db = [comp |-> << >>, next |-> 1, results |-> {}, alerts |-> << >>,
                  async |-> async, static |-> static]
  BY DEF Init, DmInit
<1>2. IsMem(mem)
  BY <1>1, NewSession, Zenon DEF NewMem
<1>3. DOMAIN map = {} /\ DOMAIN db.comp = {} /\ DOMAIN queued = {}
  BY <1>1
<1>4. IsDb(db)
  BY <1>1 DEF IsDb
<1>5. X = [mem |-> mem, db |-> db, map |-> map, said |-> << >>]
  BY DEF X
<1>6. IsServer(X) /\ Ids(X) = {}
  BY <1>1, <1>3, <1>5 DEF IsServer, Ids
<1>7. IsMap(X)
  BY <1>1, <1>3, <1>5 DEF IsMap
<1>8. Good(X)
  BY <1>2, <1>4, <1>5, <1>6, <1>7 DEF Good
<1> QED
  BY <1>1, <1>3, <1>8 DEF Inv, Budget

LEMMA NextInv ==
  ASSUME Inv, [Next]_scomoVars
  PROVE  Inv'
<1>1. CASE UNCHANGED scomoVars
  <2>1. UNCHANGED <<mem, db, map, open, wrong, queued>>
    BY <1>1 DEF scomoVars, dmVars
  <2>2. IsMem(mem')
    BY <2>1, Begins DEF Good
  <2> QED
    BY <2>1, <2>2, MembersChanged
<1>2. CASE StartSession
  BY <1>2, StartSessionStep
<1>3. CASE AddNode \/ UpdateLeaf \/ OpenStream \/ CommitStream
  BY <1>3, AddNodeStep, UpdateLeafStep, OpenStreamStep, CommitStreamStep
<1>4. CASE Delete
  BY <1>4, DeleteStep
<1>5. CASE ExecDownload
  BY <1>5, ExecDownloadStep
<1>6. CASE ExecInstall \/ ExecRemove \/ ExecSwitch
  BY <1>6, ExecStep
<1>7. CASE Fetch \/ List
  BY <1>7, FetchStep
<1>8. CASE Reset
  BY <1>8, ResetStep
<1>9. CASE EndSession \/ StartAtomic \/ CommitAtomic \/ RollbackAtomic \/ CompleteOutstandingCmds
  BY <1>9, MembersStep
<1>10. CASE DownloadEnds \/ UserUninstalls
  BY <1>10, ServerStep
<1> QED
  BY <1>1, <1>2, <1>3, <1>4, <1>5, <1>6, <1>7, <1>8, <1>9, <1>10 DEF Next

\* The inductive invariant.
THEOREM Invariant == Spec => []Inv
<1>1. Init => Inv
  BY InitInv
<1>2. Inv /\ [Next]_scomoVars => Inv'
  BY NextInv
<1> QED
  BY <1>1, <1>2, PTL DEF Spec

\* A pending alert is queued at most KMaxRetryCount times between the download it
\* was made for and its removal, whatever is downloaded again, reset or lost meanwhile.
THEOREM AlertsBoundedHolds == Spec => []AlertsBounded
<1>1. Inv => AlertsBounded
  <2> SUFFICES ASSUME Inv, NEW i \in DOMAIN queued
               PROVE  queued[i] <= MaxRetry
    BY DEF AlertsBounded
  <2>1. queued[i] \in Nat /\ queued[i] + Retry(db.alerts, i) <= MaxRetry
    BY DEF Inv, Budget
  <2>2. Retry(db.alerts, i) \in Nat
    BY Begins, RetryType
  <2> QED
    BY <2>1, <2>2
<1> QED
  BY <1>1, Invariant, PTL

\* Every command but a stream is answered once, in its call, also in an atomic.
THEOREM StreamsOnlyHolds == Spec => []StreamsOnly
<1>1. Inv => StreamsOnly
  BY DEF Inv, StreamsOnly
<1> QED
  BY <1>1, Invariant, PTL

\* What is to be downloaded has the node of its own user id: the mappings that the
\* adapter moves, lists and takes over never lead a download to another component.
THEOREM OwnNodeHolds == Spec => []OwnNode
<1>1. Inv => OwnNode
  BY Begins DEF Inv, Good, IsMap, Own, OwnNode
<1> QED
  BY <1>1, Invariant, PTL
=============================================================================
