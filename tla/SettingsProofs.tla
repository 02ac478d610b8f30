--------------------------- MODULE SettingsProofs ---------------------------
(***************************************************************************)
(* Proofs about adapters of settings: the ports of the media player leave  *)
(* room between them, a protected access point stays protected, there is   *)
(* a default mailbox, and every command is answered once, also to the      *)
(* destinations, which are stored within the storing of others.  And proofs*)
(* about the firmware update adapter, for every set of servers and of      *)
(* objects, every sequence of predefined objects and every bound on the    *)
(* identifiers.                                                            *)
(***************************************************************************)
EXTENDS DmServices, DmPlayer, FotaMC, AdapterProofs

(* A call of the engine. *)

\* One answer, to the command that was handed over: nothing more is open.
LEMMA CalledOnce ==
  ASSUME NEW ref, NEW x, Called({ref}, x), Replied(x, ref)
  PROVE  mem' = x.mem /\ db' = x.db /\ open' = open \ {ref} /\ wrong' = wrong
<1>1. PICK status : x.said = <<[ref |-> ref, status |-> status]>>
  BY DEF Replied
<1>2. DOMAIN x.said = {1} /\ x.said[1].ref = ref
  BY <1>1
<1>3. Answered(x) = {ref} /\ Again(x) = {}
  BY <1>2, SMTT(30) DEF Answered, Again
<1> QED
  BY <1>3 DEF Called

-----------------------------------------------------------------------------
(* The media player. *)

\* A state of the adapter within a call, and two ports with room between them.
IsState(x) == x = [mem |-> x.mem, db |-> x.db, map |-> x.map, said |-> x.said]
Model(proxy, ap, min, max, band) ==
  [proxy |-> proxy, ap |-> ap, min |-> min, max |-> max, band |-> band]
IsModel(m) ==
  \E proxy, ap, band : \E min, max \in Int :
    m = Model(proxy, ap, min, max, band) /\ min + 5 < max
IsPlayer(m, d) ==
  /\ IsModel(m)
  /\ \E name, model : d = [name |-> name, model |-> model] /\ IsModel(model)
Playing(x) == IsState(x) /\ IsPlayer(x.mem, x.db) /\ x.said = << >>

\* A command that was answered in its call, in a state that is as it should be.
Played(y, ref) == IsPlayer(y.mem, y.db) /\ Replied(y, ref)

PlayerInv ==
  /\ adapter = "ST"
  /\ IsPlayer(mem, db)
  /\ open = {} /\ wrong = {}

LEMMA PortsAreIntegers == \A n \in 0 .. ST!KMaxPort : n \in Int
BY DEF ST!KMaxPort

LEMMA PlayerStatus ==
  ASSUME NEW x, Playing(x), NEW ref, NEW status
  PROVE  Played(ST!SetStatus(x, ref, status), ref)
<1>1. Append(x.said, [ref |-> ref, status |-> status]) = <<[ref |-> ref, status |-> status]>>
  BY DEF Playing
<1>2. ST!SetStatus(x, ref, status)
      = [mem |-> x.mem, db |-> x.db, map |-> x.map,
         said |-> <<[ref |-> ref, status |-> status]>>]
  BY <1>1 DEF Playing, IsState, ST!SetStatus
<1> DEFINE y == ST!SetStatus(x, ref, status)
<1>3. y.mem = x.mem /\ y.db = x.db /\ y.said = <<[ref |-> ref, status |-> status]>>
  BY <1>2
<1> HIDE DEF y
<1>4. Played(y, ref)
  <2>1. Replied(y, ref)
    BY <1>3, Zenon DEF Replied
  <2> QED
    BY <1>3, <2>1 DEF Played, Playing
<1> QED
  BY <1>4 DEF y

\* The copy may be changed but for the ports, and then be stored or not.
LEMMA PlayerCopy ==
  ASSUME NEW x, Playing(x), NEW m, IsModel(m)
  PROVE  Playing([x EXCEPT !.mem = m]) /\ Playing(ST!StoreSettings([x EXCEPT !.mem = m]))
<1> DEFINE y == [mem |-> m, db |-> x.db, map |-> x.map, said |-> << >>]
<1>1. PICK name, model : x.db = [name |-> name, model |-> model]
  BY DEF Playing, IsPlayer
<1>2. [x EXCEPT !.mem = m] = y
  BY DEF Playing, IsState
<1>3. ST!StoreSettings(y)
      = [mem |-> m, db |-> [name |-> name, model |-> m], map |-> x.map, said |-> << >>]
  BY <1>1 DEF ST!StoreSettings
<1>4. Playing(y)
  <2>1. y.mem = m /\ y.db = x.db /\ y.said = << >> /\ IsState(y)
    BY DEF IsState
  <2> QED
    BY <2>1 DEF Playing, IsPlayer
<1>5. Playing([mem |-> m, db |-> [name |-> name, model |-> m], map |-> x.map, said |-> << >>])
  BY DEF Playing, IsPlayer, IsState
<1> QED
  BY <1>2, <1>3, <1>4, <1>5

LEMMA PlayerStore ==
  ASSUME NEW x, Playing(x), NEW m, IsModel(m), NEW ref, NEW ok, NEW error
  PROVE  Played(ST!Store(x, m, ref, ok, error), ref)
BY PlayerStatus, PlayerCopy DEF ST!Store

LEMMA MinApart ==
  ASSUME NEW m, IsModel(m), NEW n, ST!MinFits(m, n)
  PROVE  IsModel([m EXCEPT !.min = n])
<1>1. n \in Int
  <2>1. n \in ST!KMinPort .. ST!KMaxPort - 1
    BY Zenon DEF ST!MinFits
  <2>2. ST!KMinPort \in Int /\ ST!KMaxPort \in Int
    BY DEF ST!KMinPort, ST!KMaxPort
  <2> QED
    BY <2>1, <2>2
<1>2. PICK proxy, ap, band : \E min, max \in Int :
        m = Model(proxy, ap, min, max, band) /\ min + 5 < max
  BY Zenon DEF IsModel
<1>3. PICK min \in Int, max \in Int : m = Model(proxy, ap, min, max, band)
  BY <1>2
<1>4. [m EXCEPT !.min = n] = Model(proxy, ap, n, max, band)
  BY <1>3 DEF Model
<1>5. m.min = min /\ m.max = max
  BY <1>3 DEF Model
<1>6. n + 5 < max
  BY <1>1, <1>5 DEF ST!MinFits, ST!KPortDiff
<1> QED
  BY <1>1, <1>4, <1>6 DEF IsModel

LEMMA PlayerMin ==
  ASSUME NEW x, Playing(x), NEW obj, NEW ref, NEW ok
  PROVE  Played(ST!SetMinUDPPort(x, obj, ref, ok), ref)
<1> DEFINE m == [x.mem EXCEPT !.min = obj.num]
<1>1. ST!MinFits(x.mem, obj.num) => IsModel(m)
  BY MinApart, Zenon DEF Playing, IsPlayer
<1>2. ST!MinFits(x.mem, obj.num) => Played(ST!Store(x, m, ref, ok, "EError"), ref)
  BY <1>1, PlayerStore, Zenon
<1>3. \/ ST!SetMinUDPPort(x, obj, ref, ok) = ST!SetStatus(x, ref, "EError")
      \/ ST!SetMinUDPPort(x, obj, ref, ok) = ST!SetStatus(x, ref, "EInvalidObject")
      \/ /\ ST!MinFits(x.mem, obj.num)
         /\ ST!SetMinUDPPort(x, obj, ref, ok) = ST!Store(x, m, ref, ok, "EError")
  BY Zenon DEF ST!SetMinUDPPort
<1> QED
  BY <1>2, <1>3, PlayerStatus, Zenon

LEMMA MaxApart ==
  ASSUME NEW m, IsModel(m), NEW n, ST!MaxFits(m, n)
  PROVE  IsModel([m EXCEPT !.max = n])
<1>1. n \in Int
  <2>1. n \in ST!KMinPort .. ST!KMaxPort
    BY Zenon DEF ST!MaxFits
  <2>2. ST!KMinPort \in Int /\ ST!KMaxPort \in Int
    BY DEF ST!KMinPort, ST!KMaxPort
  <2> QED
    BY <2>1, <2>2
<1>2. PICK proxy, ap, band : \E min, max \in Int :
        m = Model(proxy, ap, min, max, band) /\ min + 5 < max
  BY Zenon DEF IsModel
<1>3. PICK min \in Int, max \in Int : m = Model(proxy, ap, min, max, band)
  BY <1>2
<1>4. [m EXCEPT !.max = n] = Model(proxy, ap, min, n, band)
  BY <1>3 DEF Model
<1>5. m.min = min /\ m.max = max
  BY <1>3 DEF Model
<1>6. min + 5 < n
  BY <1>1, <1>5 DEF ST!MaxFits, ST!KPortDiff
<1> QED
  BY <1>1, <1>4, <1>6 DEF IsModel

LEMMA PlayerMax ==
  ASSUME NEW x, Playing(x), NEW obj, NEW ref, NEW ok
  PROVE  Played(ST!SetMaxUDPPort(x, obj, ref, ok), ref)
<1> DEFINE m == [x.mem EXCEPT !.max = obj.num]
<1>1. ST!MaxFits(x.mem, obj.num) => IsModel(m)
  BY MaxApart, Zenon DEF Playing, IsPlayer
<1>2. ST!MaxFits(x.mem, obj.num) => Played(ST!Store(x, m, ref, ok, "EError"), ref)
  BY <1>1, PlayerStore, Zenon
<1>3. \/ ST!SetMaxUDPPort(x, obj, ref, ok) = ST!SetStatus(x, ref, "EError")
      \/ ST!SetMaxUDPPort(x, obj, ref, ok) = ST!SetStatus(x, ref, "EInvalidObject")
      \/ /\ ST!MaxFits(x.mem, obj.num)
         /\ ST!SetMaxUDPPort(x, obj, ref, ok) = ST!Store(x, m, ref, ok, "EError")
  BY Zenon DEF ST!SetMaxUDPPort
<1> QED
  BY <1>2, <1>3, PlayerStatus, Zenon

LEMMA PlayerBandwidths ==
  ASSUME NEW x, Playing(x), NEW bearer, NEW obj, NEW ref, NEW ok
  PROVE  Played(ST!SetNetInfo(x, bearer, obj, ref, ok), ref)
<1> DEFINE y == [x EXCEPT !.mem.band[bearer].max = obj.max]
           z == [x EXCEPT !.mem.band[bearer] = [max |-> obj.max, sus |-> obj.sus]]
<1>1. \E b : y = [x EXCEPT !.mem = [x.mem EXCEPT !.band = b]]
  OBVIOUS
<1>2. \E b : z = [x EXCEPT !.mem = [x.mem EXCEPT !.band = b]]
  OBVIOUS
<1>3. ASSUME NEW b
      PROVE  IsModel([x.mem EXCEPT !.band = b])
  <2>1. PICK proxy, ap, band : \E min, max \in Int :
          x.mem = Model(proxy, ap, min, max, band) /\ min + 5 < max
    BY Zenon DEF Playing, IsPlayer, IsModel
  <2>2. PICK min \in Int, max \in Int : x.mem = Model(proxy, ap, min, max, band) /\ min + 5 < max
    BY <2>1
  <2>3. [x.mem EXCEPT !.band = b] = Model(proxy, ap, min, max, b)
    BY <2>2 DEF Model
  <2> QED
    BY <2>2, <2>3 DEF IsModel
<1>4. Playing(y) /\ Playing(z)
  BY <1>1, <1>2, <1>3, PlayerCopy
<1>5. Playing(ST!StoreSettings(z))
  <2>1. PICK b : z = [x EXCEPT !.mem = [x.mem EXCEPT !.band = b]]
    BY <1>2
  <2> QED
    BY <2>1, <1>3, PlayerCopy
<1> HIDE DEF y, z
<1>6. \A range : Played(ST!SetBandwidths(x, obj, ref, ok, range, y, z), ref)
  BY <1>4, <1>5, PlayerStatus, Zenon DEF ST!SetBandwidths
<1> QED
  BY <1>6 DEF ST!SetNetInfo, y, z

\* The leaves of the bandwidths are none of the others.
LEMMA PlayerUpdates ==
  ASSUME NEW x, Playing(x), NEW leaf, NEW obj, NEW ref, NEW ok
  PROVE  \/ Played(ST!UpdateLeafObject(x, leaf, obj, ref, ok), ref)
         \/ leaf \notin DOMAIN ST!Access
<1>1. Played(ST!UpdateName(x, obj, ref, ok), ref)
  <2> DEFINE y == [x EXCEPT !.db.name = obj.text]
  <2>1. PICK name, model : x.db = [name |-> name, model |-> model] /\ IsModel(model)
    BY DEF Playing, IsPlayer
  <2>2. y = [mem |-> x.mem, db |-> [name |-> obj.text, model |-> model], map |-> x.map, said |-> << >>]
    BY <2>1 DEF Playing, IsState
  <2>3. Playing(y) /\ y = [y EXCEPT !.mem = y.mem] /\ IsModel(y.mem)
    BY <2>1, <2>2 DEF Playing, IsState, IsPlayer
  <2> HIDE DEF y
  <2>4. Playing(ST!StoreSettings(y))
    BY <2>3, PlayerCopy
  <2>5. Played(ST!SetStatus(ST!StoreSettings(y), ref, "EOk"), ref)
    BY <2>4, PlayerStatus
  <2> QED
    BY <2>5, PlayerStatus, Zenon DEF ST!UpdateName, y
<1>2. Played(ST!UpdateProxy(x, obj, ref, ok), ref)
  <2>1. IsModel([x.mem EXCEPT !.proxy = obj.text])
    <3>1. PICK proxy, ap, band : \E min, max \in Int :
            x.mem = Model(proxy, ap, min, max, band) /\ min + 5 < max
      BY Zenon DEF Playing, IsPlayer, IsModel
    <3>2. PICK min \in Int, max \in Int : x.mem = Model(proxy, ap, min, max, band) /\ min + 5 < max
      BY <3>1
    <3>3. [x.mem EXCEPT !.proxy = obj.text] = Model(obj.text, ap, min, max, band)
      BY <3>2 DEF Model
    <3> QED
      BY <3>2, <3>3 DEF IsModel
  <2> QED
    BY <2>1, PlayerStatus, PlayerStore DEF ST!UpdateProxy
<1>3. Played(ST!SetDefaultAp(x, obj, ref, ok), ref)
  <2>1. IsModel([x.mem EXCEPT !.ap = obj.num])
    <3>1. PICK proxy, ap, band : \E min, max \in Int :
            x.mem = Model(proxy, ap, min, max, band) /\ min + 5 < max
      BY Zenon DEF Playing, IsPlayer, IsModel
    <3>2. PICK min \in Int, max \in Int : x.mem = Model(proxy, ap, min, max, band) /\ min + 5 < max
      BY <3>1
    <3>3. [x.mem EXCEPT !.ap = obj.num] = Model(proxy, obj.num, min, max, band)
      BY <3>2 DEF Model
    <3> QED
      BY <3>2, <3>3 DEF IsModel
  <2> QED
    BY <2>1, PlayerStatus, PlayerStore DEF ST!SetDefaultAp
<1> QED
  BY <1>1, <1>2, <1>3, PlayerBandwidths, PlayerMin, PlayerMax
     DEF ST!UpdateLeafObject, ST!Access

LEMMA PlayerServes ==
  ASSUME PlayerInv, UNCHANGED adapter, NEW ref, NEW y, Played(y, ref), ST!Serve({ref}, y)
  PROVE  PlayerInv'
<1>1. Called({ref}, y)
  BY DEF ST!Serve, Called, Answered, Again
<1>2. mem' = y.mem /\ db' = y.db /\ open' = open \ {ref} /\ wrong' = wrong
  BY <1>1, CalledOnce DEF Played
<1>3. IsPlayer(mem', db')
  BY <1>2 DEF Played
<1> QED
  BY <1>2, <1>3 DEF PlayerInv

LEMMA PlayerX ==
  ASSUME PlayerInv
  PROVE  Playing(ST!X)
BY DEF PlayerInv, Playing, IsState, ST!X

LEMMA PlayerInitial ==
  ASSUME PlayerInit
  PROVE  PlayerInv
<1>1. IsModel(ST!Model)
  <2>1. ASSUME NEW proxy, NEW ap, NEW band, NEW min \in Int, NEW max \in Int, min + 5 < max
        PROVE  IsModel(Model(proxy, ap, min, max, band))
    BY <2>1 DEF IsModel
  <2>2. 6970 \in Int /\ 32000 \in Int /\ 6970 + 5 < 32000
    OBVIOUS
  <2>3. ASSUME NEW proxy, NEW ap, NEW band
        PROVE  IsModel(Model(proxy, ap, 6970, 32000, band))
    BY <2>1, <2>2
  <2> DEFINE firstPoint == CHOOSE p \in PlayerPoints : TRUE
             highest == [b \in DOMAIN ST!NetInfo |->
                            [max |-> ST!NetInfo[b].mxMax, sus |-> ST!NetInfo[b].mxSus]]
  <2>4. ST!Model = Model(ST!NoText, firstPoint, 6970, 32000, highest)
    BY DEF ST!Model, Model
  <2> QED
    BY <2>3, <2>4
<1>2. /\ adapter = "ST" /\ mem = ST!Model /\ open = {} /\ wrong = {}
      /\ db = [name |-> ST!NoText, model |-> ST!Model]
  BY DEF PlayerInit, ST!Init, ST!DmInit
<1>3. \E name, model : db = [name |-> name, model |-> model] /\ IsModel(model)
  BY <1>1, <1>2, Zenon
<1> QED
  BY <1>1, <1>2, <1>3, Zenon DEF PlayerInv, IsPlayer

LEMMA PlayerStep ==
  ASSUME PlayerInv, [PlayerNext]_runVars
  PROVE  PlayerInv'
<1>1. CASE UNCHANGED runVars
  BY <1>1 DEF PlayerInv, runVars, dmVars
<1>2. CASE PlayerNext
  <2>1. UNCHANGED adapter /\ Playing(ST!X)
    BY <1>2, PlayerX DEF PlayerNext
  <2>2. ASSUME NEW status, ST!Serve({ST!Now}, ST!SetStatus(ST!X, ST!Now, status))
        PROVE  PlayerInv'
    BY <2>1, <2>2, PlayerStatus, PlayerServes
  <2>3. CASE ST!UpdateLeaf
    <3>1. PICK leaf \in PlayerLeaves, ok \in BOOLEAN : \E obj \in PlayerObjects[leaf] :
            LET ref == ST!LeafRef(ST!Object, leaf, obj)
            IN  ST!Serve({ref}, ST!UpdateLeafObject(ST!X, leaf, obj, ref, ok))
      BY <2>3 DEF ST!UpdateLeaf
    <3>2. PICK obj \in PlayerObjects[leaf] :
            LET ref == ST!LeafRef(ST!Object, leaf, obj)
            IN  ST!Serve({ref}, ST!UpdateLeafObject(ST!X, leaf, obj, ref, ok))
      BY <3>1
    <3> DEFINE ref == ST!LeafRef(ST!Object, leaf, obj)
    <3>3. ST!Serve({ref}, ST!UpdateLeafObject(ST!X, leaf, obj, ref, ok))
      BY <3>2
    <3> HIDE DEF ref
    <3>4. leaf \in DOMAIN ST!Access
      BY PlayerLeavesAssumption
    <3>5. Played(ST!UpdateLeafObject(ST!X, leaf, obj, ref, ok), ref)
      BY <2>1, <3>4, PlayerUpdates
    <3> QED
      BY <2>1, <3>3, <3>5, PlayerServes
  <2>4. CASE ST!Fetch \/ ST!List \/ ST!Other
    <3>1. \E status : ST!Serve({ST!Now}, ST!SetStatus(ST!X, ST!Now, status))
      BY <2>4, Zenon DEF ST!Fetch, ST!List, ST!Other, ST!FetchLeafObjectSize, ST!FetchLeafObject,
           ST!ChildURIList, ST!Refuse, ST!Unsupported
    <3> QED
      BY <2>2, <3>1
  <2>5. CASE ST!EndSession
    <3>1. mem' = db.model /\ db' = db /\ open' = {} /\ wrong' = wrong
      BY <2>5 DEF ST!EndSession, ST!EndWith, ST!NewMem, ST!X
    <3>2. IsPlayer(db.model, db)
      <4>1. PICK name, model : db = [name |-> name, model |-> model] /\ IsModel(model)
        BY DEF PlayerInv, IsPlayer
      <4> QED
        BY <4>1 DEF IsPlayer
    <3> QED
      BY <2>1, <3>1, <3>2 DEF PlayerInv
  <2>6. CASE ST!UserEdits
    <3>1. PICK p \in PlayerPorts :
            /\ p[1] \in 0 .. ST!KMaxPort /\ p[2] \in 0 .. ST!KMaxPort
            /\ p[1] + ST!KPortDiff < p[2]
            /\ db' = [db EXCEPT !.model.min = p[1], !.model.max = p[2]]
            /\ UNCHANGED <<mem, open, wrong>>
      BY <2>6 DEF ST!UserEdits, ST!Elsewhere
    <3>2. PICK name, model : db = [name |-> name, model |-> model] /\ IsModel(model)
      BY DEF PlayerInv, IsPlayer
    <3>3. PICK proxy, ap, band : \E min, max \in Int : model = Model(proxy, ap, min, max, band)
      BY <3>2, Zenon DEF IsModel
    <3>4. PICK min \in Int, max \in Int : model = Model(proxy, ap, min, max, band)
      BY <3>3
    <3> DEFINE low == p[1]
               high == p[2]
    <3>5. low \in Int /\ high \in Int
      <4>1. low \in 0 .. ST!KMaxPort /\ high \in 0 .. ST!KMaxPort
        BY <3>1, Zenon
      <4> QED
        BY <4>1, PortsAreIntegers, Zenon
    <3>6. low + 5 < high
      BY <3>1 DEF ST!KPortDiff
    <3>7. db' = [name |-> name, model |-> Model(proxy, ap, low, high, band)]
      BY <3>1, <3>2, <3>4 DEF Model
    <3> HIDE DEF low, high
    <3>8. IsModel(Model(proxy, ap, low, high, band))
      BY <3>5, <3>6 DEF IsModel
    <3>9. IsPlayer(mem', db')
      BY <3>1, <3>7, <3>8 DEF PlayerInv, IsPlayer
    <3> QED
      BY <2>1, <3>1, <3>9 DEF PlayerInv
  <2> QED
    BY <1>2, <2>3, <2>4, <2>5, <2>6 DEF PlayerNext, ST!Next
<1> QED
  BY <1>1, <1>2

\* The ports that are stored leave room between them, in whatever order the server
\* and the user set them (SetMinUDPPortL, SetMaxUDPPortL).
THEOREM PortsApartAlways == PlayerSpec => []PortsApart
<1>1. PlayerInv => PortsApart
  <2> SUFFICES ASSUME PlayerInv PROVE db.model.min + 5 < db.model.max
    BY DEF PortsApart, ST!KPortDiff
  <2>1. PICK name, model : db = [name |-> name, model |-> model] /\ IsModel(model)
    BY DEF PlayerInv, IsPlayer
  <2> QED
    BY <2>1 DEF IsModel, Model
<1> QED
  BY <1>1, PlayerInitial, PlayerStep, PTL DEF PlayerSpec

\* The adapter of the media player keeps no command waiting, and answers none twice
\* or without being asked.
THEOREM PlayerAnswersOnce == PlayerSpec => [](AnsweredOnce /\ open = {})
<1>1. PlayerInv => AnsweredOnce /\ open = {}
  BY DEF PlayerInv, AnsweredOnce
<1> QED
  BY <1>1, PlayerInitial, PlayerStep, PTL DEF PlayerSpec
-----------------------------------------------------------------------------
(* Multimedia messages. *)

\* Calls that answer the command `ref`, which was handed over or was waiting, or none.
LEMMA CalledFor ==
  ASSUME NEW refs, NEW x, Called(refs, x), NEW ref, Replied(x, ref), ref \in open \cup refs
  PROVE  mem' = x.mem /\ db' = x.db /\ open' = (open \cup refs) \ {ref} /\ wrong' = wrong
<1>1. PICK status : x.said = <<[ref |-> ref, status |-> status]>>
  BY DEF Replied
<1>2. DOMAIN x.said = {1} /\ x.said[1].ref = ref
  BY <1>1
<1>3. Answered(x) = {ref} /\ Again(x) = {}
  BY <1>2 DEF Answered, Again
<1> QED
  BY <1>3 DEF Called

LEMMA CalledSilently ==
  ASSUME NEW refs, NEW x, Called(refs, x), x.said = << >>
  PROVE  mem' = x.mem /\ db' = x.db /\ open' = open \cup refs /\ wrong' = wrong
<1>1. DOMAIN x.said = {}
  OBVIOUS
<1>2. Answered(x) = {} /\ Again(x) = {}
  BY <1>1 DEF Answered, Again
<1> QED
  BY <1>2 DEF Called

\* The copy and the address that waits, and the settings with the access points.
WaitingAddress(text, ref) == <<[text |-> text, ref |-> ref]>>
IsAddr(addr) ==
  addr = << >> \/ \E text, ref : addr = WaitingAddress(text, ref) /\ ref.op = "leaf"
IsMmsMem(m) == \E copy, addr : m = [copy |-> copy, addr |-> addr] /\ IsAddr(addr)
IsPoint(a) == \E page : \E locked \in BOOLEAN : a = [page |-> page, locked |-> locked]
IsWap(w) == w = [p \in MmsPoints |-> w[p]] /\ \A p \in MmsPoints : IsPoint(w[p])
IsMmsDb(d) ==
  \E settings, service, wap :
    d = [settings |-> settings, service |-> service, wap |-> wap] /\ IsWap(wap)
IsMms(x) == IsState(x) /\ IsMmsMem(x.mem) /\ IsMmsDb(x.db)

\* The access points are as much protected as they were.
SameLocks(d, e) == \A p \in DOMAIN d.wap : e.wap[p].locked = d.wap[p].locked

HeldIn(m) == {m.addr[i].ref : i \in DOMAIN m.addr}
MmsInv ==
  /\ adapter = "MM"
  /\ IsMmsMem(mem) /\ IsMmsDb(db)
  /\ open = HeldIn(mem) /\ wrong = {}

LEMMA Nobody ==
  ASSUME NEW m, m.addr = << >>
  PROVE  HeldIn(m) = {}
<1>1. DOMAIN m.addr = {}
  OBVIOUS
<1> QED
  BY <1>1 DEF HeldIn

LEMMA Somebody ==
  ASSUME NEW m, NEW text, NEW ref, m.addr = WaitingAddress(text, ref)
  PROVE  HeldIn(m) = {ref} /\ m.addr[1].ref = ref /\ m.addr[1].text = text /\ m.addr # << >>
<1>1. DOMAIN m.addr = {1} /\ m.addr[1].ref = ref /\ m.addr[1].text = text
  BY DEF WaitingAddress
<1>2. DOMAIN << >> = {}
  OBVIOUS
<1>3. 1 \in DOMAIN m.addr /\ 1 \notin DOMAIN << >>
  BY <1>1, <1>2
<1>4. m.addr # << >>
  BY <1>3
<1> QED
  BY <1>1, <1>4 DEF HeldIn

LEMMA MmsStatus ==
  ASSUME NEW x, IsMms(x), x.said = << >>, NEW ref, NEW status
  PROVE  LET y == MM!SetStatus(x, ref, status)
         IN  /\ IsMms(y) /\ y.mem = x.mem /\ y.db = x.db /\ Replied(y, ref)
<1>1. Append(x.said, [ref |-> ref, status |-> status]) = <<[ref |-> ref, status |-> status]>>
  OBVIOUS
<1> DEFINE y == MM!SetStatus(x, ref, status)
<1>2. y = [mem |-> x.mem, db |-> x.db, map |-> x.map,
           said |-> <<[ref |-> ref, status |-> status]>>]
  BY <1>1 DEF IsMms, IsState, MM!SetStatus
<1>3. y.mem = x.mem /\ y.db = x.db /\ y.said = <<[ref |-> ref, status |-> status]>> /\ IsState(y)
  BY <1>2 DEF IsState
<1> HIDE DEF y
<1>4. Replied(y, ref)
  BY <1>3, Zenon DEF Replied
<1>5. IsMms(y)
  BY <1>3 DEF IsMms
<1> QED
  BY <1>3, <1>4, <1>5 DEF y

\* What is written back are the settings only.
LEMMA MmsStored ==
  ASSUME NEW x, IsMms(x)
  PROVE  LET y == MM!StoreSettings(x)
         IN  IsMms(y) /\ y.mem = x.mem /\ y.said = x.said /\ SameLocks(x.db, y.db)
<1>1. CASE x.mem.copy = MM!NoCopy
  BY <1>1 DEF MM!StoreSettings, SameLocks
<1>2. CASE x.mem.copy # MM!NoCopy
  <2>1. PICK settings, service, wap :
          x.db = [settings |-> settings, service |-> service, wap |-> wap] /\ IsWap(wap)
    BY DEF IsMms, IsMmsDb
  <2> DEFINE y == MM!StoreSettings(x)
             d == [settings |-> x.mem.copy[1], service |-> service, wap |-> wap]
  <2>2. y = [mem |-> x.mem, db |-> d, map |-> x.map, said |-> x.said]
    BY <1>2, <2>1 DEF MM!StoreSettings, IsMms, IsState
  <2>3. IsMmsDb(d)
    BY <2>1 DEF IsMmsDb
  <2>4. SameLocks(x.db, d)
    BY <2>1 DEF SameLocks
  <2> HIDE DEF d
  <2>5. y.mem = x.mem /\ y.db = d /\ y.said = x.said /\ IsState(y)
    BY <2>2 DEF IsState
  <2> HIDE DEF y
  <2>6. IsMms(y)
    BY <2>3, <2>5 DEF IsMms
  <2> QED
    BY <2>4, <2>5, <2>6 DEF y
<1> QED
  BY <1>1, <1>2

\* The copy may be what it will.
LEMMA MmsCopied ==
  ASSUME NEW x, IsMms(x), NEW copy
  PROVE  LET y == [x EXCEPT !.mem.copy = copy]
         IN  IsMms(y) /\ y.mem.addr = x.mem.addr /\ y.db = x.db /\ y.said = x.said
<1>1. PICK old, addr : x.mem = [copy |-> old, addr |-> addr] /\ IsAddr(addr)
  BY DEF IsMms, IsMmsMem
<1> DEFINE y == [x EXCEPT !.mem.copy = copy]
           m == [copy |-> copy, addr |-> addr]
<1>2. y = [mem |-> m, db |-> x.db, map |-> x.map, said |-> x.said]
  BY <1>1 DEF IsMms, IsState
<1>3. IsMmsMem(m) /\ m.addr = x.mem.addr
  <2>1. m.addr = addr /\ x.mem.addr = addr
    BY <1>1
  <2>2. IsMmsMem(m)
    BY <1>1 DEF IsMmsMem
  <2> QED
    BY <2>1, <2>2
<1> HIDE DEF m
<1>4. y.mem = m /\ y.db = x.db /\ y.said = x.said /\ IsState(y)
  BY <1>2 DEF IsState
<1> HIDE DEF y
<1>5. IsMms(y)
  BY <1>3, <1>4 DEF IsMms
<1> QED
  BY <1>3, <1>4, <1>5 DEF y

LEMMA MmsCreated ==
  ASSUME NEW x, IsMms(x)
  PROVE  LET y == MM!CreateMMSClient(x)
         IN  IsMms(y) /\ y.mem.addr = x.mem.addr /\ y.db = x.db /\ y.said = x.said
BY MmsCopied DEF MM!CreateMMSClient

\* Another address waits, or none.
LEMMA MmsWaits ==
  ASSUME NEW x, IsMms(x), NEW addr, IsAddr(addr)
  PROVE  LET y == [x EXCEPT !.mem.addr = addr]
         IN  IsMms(y) /\ y.mem.addr = addr /\ y.db = x.db /\ y.said = x.said
<1>1. PICK copy, old : x.mem = [copy |-> copy, addr |-> old]
  BY DEF IsMms, IsMmsMem
<1> DEFINE y == [x EXCEPT !.mem.addr = addr]
           m == [copy |-> copy, addr |-> addr]
<1>2. y = [mem |-> m, db |-> x.db, map |-> x.map, said |-> x.said]
  BY <1>1 DEF IsMms, IsState
<1>3. IsMmsMem(m) /\ m.addr = addr
  BY DEF IsMmsMem
<1> HIDE DEF m
<1>4. y.mem = m /\ y.db = x.db /\ y.said = x.said /\ IsState(y)
  BY <1>2 DEF IsState
<1> HIDE DEF y
<1>5. IsMms(y)
  BY <1>3, <1>4 DEF IsMms
<1> QED
  BY <1>3, <1>4, <1>5 DEF y

\* The access points with other protection, or another page, of one of them.
LEMMA WapLocked ==
  ASSUME NEW w, IsWap(w), NEW p \in MmsPoints, NEW b \in BOOLEAN
  PROVE  LET v == [w EXCEPT ![p].locked = b]
         IN  IsWap(v) /\ v[p].locked = b /\ \A q \in MmsPoints \ {p} : v[q] = w[q]
<1> DEFINE v == [w EXCEPT ![p].locked = b]
<1>1. PICK page : \E locked \in BOOLEAN : w[p] = [page |-> page, locked |-> locked]
  BY DEF IsWap, IsPoint
<1>2. DOMAIN w = MmsPoints
  BY DEF IsWap
<1>3. v[p] = [page |-> page, locked |-> b]
  BY <1>1, <1>2
<1>4. \A q \in MmsPoints \ {p} : v[q] = w[q]
  BY <1>2
<1>5. v = [q \in MmsPoints |-> v[q]]
  BY <1>2
<1> HIDE DEF v
<1>6. \A q \in MmsPoints : IsPoint(v[q])
  BY <1>3, <1>4 DEF IsWap, IsPoint
<1>7. IsWap(v) /\ v[p].locked = b
  BY <1>3, <1>5, <1>6 DEF IsWap
<1> QED
  BY <1>4, <1>7 DEF v

LEMMA WapPaged ==
  ASSUME NEW w, IsWap(w), NEW p \in MmsPoints, NEW text
  PROVE  LET v == [w EXCEPT ![p].page = text]
         IN  IsWap(v) /\ \A q \in MmsPoints : v[q].locked = w[q].locked
<1> DEFINE v == [w EXCEPT ![p].page = text]
<1>1. PICK page : \E locked \in BOOLEAN : w[p] = [page |-> page, locked |-> locked]
  BY DEF IsWap, IsPoint
<1>2. PICK locked \in BOOLEAN : w[p] = [page |-> page, locked |-> locked]
  BY <1>1
<1>3. DOMAIN w = MmsPoints
  BY DEF IsWap
<1>4. v[p] = [page |-> text, locked |-> locked]
  BY <1>2, <1>3
<1>5. \A q \in MmsPoints \ {p} : v[q] = w[q]
  BY <1>3
<1>6. v = [q \in MmsPoints |-> v[q]]
  BY <1>3
<1> HIDE DEF v
<1>7. \A q \in MmsPoints : IsPoint(v[q])
  BY <1>4, <1>5 DEF IsWap, IsPoint
<1>8. \A q \in MmsPoints : v[q].locked = w[q].locked
  BY <1>2, <1>4, <1>5
<1> QED
  BY <1>6, <1>7, <1>8 DEF v, IsWap

\* The address is written to a page that is protected again (UpdateMMSAddrL).
LEMMA MmsAddress ==
  ASSUME NEW x, IsMms(x)
  PROVE  IsMmsDb(MM!UpdateMMSAddr(x).db) /\ SameLocks(x.db, MM!UpdateMMSAddr(x).db)
<1>1. PICK settings, service, wap :
        x.db = [settings |-> settings, service |-> service, wap |-> wap] /\ IsWap(wap)
  BY DEF IsMms, IsMmsDb
<1> DEFINE d(w) == [settings |-> settings, service |-> service, wap |-> w]
           point == x.mem.copy[1].point
           text == x.mem.addr[1].text
<1>2. DOMAIN x.db.wap = MmsPoints /\ x.db = d(wap) /\ x.db.wap = wap
  BY <1>1 DEF IsWap
<1>3. ASSUME NEW w, IsWap(w), \A q \in MmsPoints : w[q].locked = wap[q].locked
      PROVE  IsMmsDb(d(w)) /\ SameLocks(x.db, d(w))
  <2>1. d(w).wap = w /\ IsMmsDb(d(w))
    BY <1>3 DEF IsMmsDb
  <2> QED
    BY <1>2, <1>3, <2>1 DEF SameLocks
<1> HIDE DEF point, text
<1>4. ASSUME point \notin MmsPoints
      PROVE  MM!UpdateMMSAddr(x).db = d(wap)
  BY <1>2, <1>4, Zenon DEF MM!UpdateMMSAddr, MM!IsWAPAccessPointRecordLocked, point
<1>5. ASSUME point \in MmsPoints, ~wap[point].locked
      PROVE  MM!UpdateMMSAddr(x).db = d([wap EXCEPT ![point].page = text])
  <2>1. [d(wap) EXCEPT !.wap[point].page = text] = d([wap EXCEPT ![point].page = text])
    BY SMTT(30)
  <2> HIDE DEF d
  <2>2. MM!UpdateMMSAddr(x).db = [x.db EXCEPT !.wap[point].page = text]
    BY <1>2, <1>5 DEF MM!UpdateMMSAddr, MM!IsWAPAccessPointRecordLocked, point, text
  <2> QED
    BY <1>2, <2>1, <2>2
<1>10. ASSUME NEW w, NEW b
       PROVE  [d(w) EXCEPT !.wap[point].locked = b] = d([w EXCEPT ![point].locked = b])
  BY SMTT(30)
<1>11. ASSUME NEW w, NEW t
       PROVE  [d(w) EXCEPT !.wap[point].page = t] = d([w EXCEPT ![point].page = t])
  BY SMTT(30)
<1> DEFINE opened == [wap EXCEPT ![point].locked = FALSE]
           written == [opened EXCEPT ![point].page = text]
           closed == [written EXCEPT ![point].locked = TRUE]
<1>6. ASSUME point \in MmsPoints, wap[point].locked
      PROVE  MM!UpdateMMSAddr(x).db = d(closed)
  <2>1. [d(wap) EXCEPT !.wap[point].locked = FALSE] = d(opened)
    BY <1>10, Zenon
  <2>2. [d(opened) EXCEPT !.wap[point].page = text] = d(written)
    BY <1>11, Zenon
  <2>3. [d(written) EXCEPT !.wap[point].locked = TRUE] = d(closed)
    BY <1>10, Zenon
  <2>7. d(written).wap = written
    OBVIOUS
  <2>4. DOMAIN written = MmsPoints
    BY <1>2
  <2> HIDE DEF d, opened, written, closed
  <2>5. MM!DoProtectWAPAccessRecord(x.db, point, FALSE) = d(opened)
    BY <1>2, <1>6, <2>1 DEF MM!DoProtectWAPAccessRecord
  <2>6. MM!DoProtectWAPAccessRecord(d(written), point, TRUE) = d(closed)
    BY <1>6, <2>3, <2>4, <2>7 DEF MM!DoProtectWAPAccessRecord
  <2> QED
    BY <1>2, <1>6, <2>2, <2>5, <2>6
       DEF MM!UpdateMMSAddr, MM!IsWAPAccessPointRecordLocked, point, text
<1>7. CASE point \notin MmsPoints
  BY <1>1, <1>3, <1>4, <1>7
<1>8. CASE point \in MmsPoints /\ ~wap[point].locked
  <2> DEFINE paged == [wap EXCEPT ![point].page = text]
  <2>1. IsWap(paged) /\ \A q \in MmsPoints : paged[q].locked = wap[q].locked
    BY <1>1, <1>8, WapPaged
  <2>2. MM!UpdateMMSAddr(x).db = d(paged)
    BY <1>5, <1>8
  <2> HIDE DEF paged
  <2> QED
    BY <1>3, <2>1, <2>2
<1>9. CASE point \in MmsPoints /\ wap[point].locked
  <2>1. IsWap(opened) /\ \A q \in MmsPoints \ {point} : opened[q] = wap[q]
    BY <1>1, <1>9, WapLocked
  <2> HIDE DEF opened
  <2>2. IsWap(written) /\ \A q \in MmsPoints : written[q].locked = opened[q].locked
    BY <1>9, <2>1, WapPaged
  <2> HIDE DEF written
  <2>3. IsWap(closed) /\ closed[point].locked = TRUE
        /\ \A q \in MmsPoints \ {point} : closed[q] = written[q]
    BY <1>9, <2>2, WapLocked
  <2> HIDE DEF closed
  <2>4. wap[point].locked = TRUE
    BY <1>1, <1>9 DEF IsWap, IsPoint
  <2>5. \A q \in MmsPoints : closed[q].locked = wap[q].locked
    BY <2>1, <2>2, <2>3, <2>4
  <2> QED
    BY <1>3, <1>6, <1>9, <2>3, <2>5
<1> QED
  BY <1>7, <1>8, <1>9

\* A handler that answers the command or lets it wait with an address; the one that
\* waited is answered then.
MmsDone(x, y, ref) ==
  /\ IsMms(y) /\ SameLocks(x.db, y.db)
  /\ \/ y.mem.addr = x.mem.addr /\ Replied(y, ref)
     \/ /\ \E text : y.mem.addr = WaitingAddress(text, ref)
        /\ \/ x.mem.addr = << >> /\ y.said = << >>
           \/ x.mem.addr # << >> /\ Replied(y, x.mem.addr[1].ref)

LEMMA SameLocksReflexive ==
  ASSUME NEW d PROVE SameLocks(d, d)
BY DEF SameLocks

LEMMA SameLocksTransitive ==
  ASSUME NEW d, NEW e, NEW f, SameLocks(d, e), SameLocks(e, f), DOMAIN e.wap = DOMAIN d.wap
  PROVE  SameLocks(d, f)
BY DEF SameLocks

LEMMA MmsAnswers ==
  ASSUME NEW x, IsMms(x), NEW y, IsMms(y), y.mem.addr = x.mem.addr, SameLocks(x.db, y.db),
         y.said = << >>, NEW ref, NEW status
  PROVE  MmsDone(x, MM!SetStatus(y, ref, status), ref)
BY MmsStatus DEF MmsDone

LEMMA MmsUpdates ==
  ASSUME NEW x, IsMms(x), x.said = << >>, NEW leaf, NEW obj, NEW ref, ref.op = "leaf", NEW mtm
  PROVE  MmsDone(x, MM!UpdateLeafObject(x, leaf, obj, ref, mtm), ref)
<1> DEFINE y == MM!CreateMMSClient(x)
           r == MM!UpdateData(y.mem.copy[1], leaf, obj)
           z == [y EXCEPT !.mem.copy = <<r.s>>]
<1>1. IsMms(y) /\ y.mem.addr = x.mem.addr /\ y.db = x.db /\ y.said = << >>
  BY MmsCreated
<1> HIDE DEF y
<1>2. IsMms(z) /\ z.mem.addr = x.mem.addr /\ z.db = x.db /\ z.said = << >>
  BY <1>1, MmsCopied
<1>3. \A status : MmsDone(x, MM!SetStatus(x, ref, status), ref)
  BY SameLocksReflexive, MmsAnswers
<1>4. \A status : MmsDone(x, MM!SetStatus(MM!StoreSettings(x), ref, status), ref)
  BY MmsStored, MmsAnswers
<1>5. \A status : MmsDone(x, MM!SetStatus(MM!StoreSettings(y), ref, status), ref)
  BY <1>1, MmsStored, MmsAnswers
<1>6. \A status : MmsDone(x, MM!SetStatus(MM!StoreSettings(z), ref, status), ref)
  <2> HIDE DEF z
  <2> QED
    BY <1>2, MmsStored, MmsAnswers
<1>7. MmsDone(x, MM!UpdateAddress(y, obj, ref), ref)
  <2> DEFINE u == IF y.mem.addr = << >> THEN y ELSE MM!SetStatus(y, y.mem.addr[1].ref, "EError")
             w == [u EXCEPT !.mem.addr = WaitingAddress(obj.text, ref)]
  <2>1. /\ IsMms(u) /\ u.db = x.db
        /\ \/ x.mem.addr = << >> /\ u.said = << >>
           \/ x.mem.addr # << >> /\ Replied(u, x.mem.addr[1].ref)
    BY <1>1, MmsStatus
  <2> HIDE DEF u
  <2>2. IsAddr(WaitingAddress(obj.text, ref))
    BY Zenon DEF IsAddr
  <2>3. IsMms(w) /\ w.mem.addr = WaitingAddress(obj.text, ref) /\ w.db = x.db /\ w.said = u.said
    BY <2>1, <2>2, MmsWaits
  <2>4. MM!UpdateAddress(y, obj, ref) = w
    BY DEF MM!UpdateAddress, WaitingAddress, u
  <2> HIDE DEF w
  <2>5. SameLocks(x.db, w.db)
    BY <2>3, SameLocksReflexive
  <2>6. \/ x.mem.addr = << >> /\ w.said = << >>
        \/ x.mem.addr # << >> /\ Replied(w, x.mem.addr[1].ref)
    BY <2>1, <2>3 DEF Replied
  <2>7. MmsDone(x, w, ref)
    BY <2>3, <2>5, <2>6 DEF MmsDone
  <2> QED
    BY <2>4, <2>7
<1> HIDE DEF z, r
<1>8. \/ \E status : \/ MM!UpdateLeafObject(x, leaf, obj, ref, mtm) = MM!SetStatus(x, ref, status)
                    \/ MM!UpdateLeafObject(x, leaf, obj, ref, mtm)
                       = MM!SetStatus(MM!StoreSettings(x), ref, status)
                    \/ MM!UpdateLeafObject(x, leaf, obj, ref, mtm)
                       = MM!SetStatus(MM!StoreSettings(y), ref, status)
                    \/ MM!UpdateLeafObject(x, leaf, obj, ref, mtm)
                       = MM!SetStatus(MM!StoreSettings(z), ref, status)
      \/ MM!UpdateLeafObject(x, leaf, obj, ref, mtm) = MM!UpdateAddress(y, obj, ref)
  BY Zenon DEF MM!UpdateLeafObject, y, z, r
<1> QED
  BY <1>3, <1>4, <1>5, <1>6, <1>7, <1>8

LEMMA MmsFetches ==
  ASSUME NEW x, IsMms(x), x.said = << >>, NEW y, NEW ref, NEW status,
         y \in {x, MM!CreateMMSClient(x)}
  PROVE  MmsDone(x, MM!SetStatus(y, ref, status), ref)
<1>1. IsMms(y) /\ y.mem.addr = x.mem.addr /\ y.db = x.db /\ y.said = << >>
  BY MmsCreated
<1> QED
  BY <1>1, SameLocksReflexive, MmsAnswers

\* What is left at the end of a batch waits no longer and is answered.
LEMMA MmsCompletes ==
  ASSUME NEW x, IsMms(x), x.said = << >>
  PROVE  LET y == MM!CompleteOutstandingCmds(x)
         IN  /\ IsMms(y) /\ SameLocks(x.db, y.db) /\ y.mem.addr = << >>
             /\ \/ x.mem.addr = << >> /\ y.said = << >>
                \/ x.mem.addr # << >> /\ Replied(y, x.mem.addr[1].ref)
<1>1. CASE x.mem.addr = << >>
  BY <1>1, MmsStored DEF MM!CompleteOutstandingCmds
<1>2. CASE x.mem.addr # << >>
  <2> DEFINE d == MM!UpdateMMSAddr(x).db
             status == MM!UpdateMMSAddr(x).status
             u == [x EXCEPT !.db = d]
             ref == x.mem.addr[1].ref
             v == MM!SetStatus(u, ref, status)
             w == [v EXCEPT !.mem.addr = << >>]
             y == MM!StoreSettings(w)
  <2>1. IsMmsDb(d) /\ SameLocks(x.db, d)
    BY MmsAddress
  <2> HIDE DEF d, status, ref
  <2>2. u = [mem |-> x.mem, db |-> d, map |-> x.map, said |-> << >>]
    BY DEF IsMms, IsState
  <2>3. IsMms(u) /\ u.db = d /\ u.said = << >> /\ u.mem = x.mem
    BY <2>1, <2>2 DEF IsMms, IsState
  <2> HIDE DEF u
  <2>4. IsMms(v) /\ v.db = d /\ Replied(v, ref)
    BY <2>3, MmsStatus
  <2> HIDE DEF v
  <2>5. IsAddr(<< >>)
    BY DEF IsAddr
  <2>6. IsMms(w) /\ w.mem.addr = << >> /\ w.db = d /\ w.said = v.said
    BY <2>4, <2>5, MmsWaits
  <2> HIDE DEF w
  <2>7. IsMms(y) /\ y.mem = w.mem /\ y.said = w.said /\ SameLocks(d, y.db)
    BY <2>6, MmsStored
  <2>8. MM!CompleteOutstandingCmds(x) = y
    BY <1>2 DEF MM!CompleteOutstandingCmds, y, w, v, u, d, status, ref
  <2> HIDE DEF y
  <2>9. DOMAIN d.wap = DOMAIN x.db.wap
    BY <2>1 DEF IsMms, IsMmsDb, IsWap
  <2>10. SameLocks(x.db, y.db)
    BY <2>1, <2>7, <2>9, SameLocksTransitive
  <2>11. Replied(y, ref)
    BY <2>4, <2>6, <2>7 DEF Replied
  <2> QED
    BY <1>2, <2>6, <2>7, <2>8, <2>10, <2>11 DEF ref
<1> QED
  BY <1>1, <1>2

LEMMA MmsX ==
  ASSUME MmsInv
  PROVE  /\ IsMms(MM!X) /\ MM!X.said = << >> /\ MM!X.mem = mem /\ MM!X.db = db
         /\ MM!X.mem.addr = mem.addr
BY DEF MmsInv, IsMms, IsState, MM!X

LEMMA MmsHeld ==
  ASSUME MmsInv
  PROVE  /\ mem.addr = << >> => open = {}
         /\ mem.addr # << >> => open = {mem.addr[1].ref} /\ mem.addr[1].ref.op = "leaf"
<1>1. CASE mem.addr = << >>
  BY <1>1, Nobody DEF MmsInv
<1>2. CASE mem.addr # << >>
  <2>1. IsAddr(mem.addr)
    BY DEF MmsInv, IsMmsMem
  <2>2. PICK text, ref : mem.addr = WaitingAddress(text, ref) /\ ref.op = "leaf"
    BY <1>2, <2>1 DEF IsAddr
  <2>3. HeldIn(mem) = {ref} /\ mem.addr[1].ref = ref
    BY <2>2, Somebody
  <2> QED
    BY <1>2, <2>2, <2>3 DEF MmsInv
<1> QED
  BY <1>1, <1>2

\* A command that is handed over is answered, or waits in the place of the one before.
LEMMA MmsServes ==
  ASSUME MmsInv, UNCHANGED adapter, NEW ref, ref \notin open, NEW y,
         MmsDone(MM!X, y, ref), MM!Serve({ref}, y)
  PROVE  MmsInv' /\ SameLocks(db, db')
<1>1. Called({ref}, y)
  BY DEF MM!Serve, Called, Answered, Again
<1>2. IsMms(y) /\ SameLocks(db, y.db)
  BY MmsX DEF MmsDone
<1>3. CASE y.mem.addr = mem.addr /\ Replied(y, ref)
  <2>1. mem' = y.mem /\ db' = y.db /\ open' = open /\ wrong' = wrong
    BY <1>1, <1>3, CalledFor
  <2>2. HeldIn(mem') = HeldIn(mem)
    BY <1>3, <2>1 DEF HeldIn
  <2> QED
    BY <1>2, <2>1, <2>2 DEF MmsInv, IsMms
<1>4. ASSUME NEW text, y.mem.addr = WaitingAddress(text, ref),
             \/ mem.addr = << >> /\ y.said = << >>
             \/ mem.addr # << >> /\ Replied(y, mem.addr[1].ref)
      PROVE  MmsInv' /\ SameLocks(db, db')
  <2>1. mem' = y.mem /\ db' = y.db /\ open' = {ref} /\ wrong' = wrong
    <3>1. CASE mem.addr = << >> /\ y.said = << >>
      BY <1>1, <3>1, MmsHeld, CalledSilently
    <3>2. CASE mem.addr # << >> /\ Replied(y, mem.addr[1].ref)
      BY <1>1, <3>2, MmsHeld, CalledFor
    <3> QED
      BY <1>4, <3>1, <3>2
  <2>2. HeldIn(mem') = {ref}
    BY <1>4, <2>1, Somebody
  <2> QED
    BY <1>2, <2>1, <2>2 DEF MmsInv, IsMms
<1> QED
  BY <1>3, <1>4, MmsX DEF MmsDone

LEMMA MmsInitial ==
  ASSUME adapter = "MM", MM!Init
  PROVE  MmsInv
<1>1. PICK service \in BOOLEAN, locked \in SUBSET MmsPoints :
        /\ mem = [copy |-> MM!NoCopy, addr |-> << >>]
        /\ db = [settings |-> MM!Settings, service |-> service, wap |-> MM!Wap(locked)]
        /\ open = {} /\ wrong = {}
  BY DEF MM!Init, MM!DmInit, MM!NewMem
<1>2. IsWap(MM!Wap(locked))
  <2>1. ASSUME NEW page, NEW p, p \in MmsPoints
        PROVE  IsPoint([page |-> page, locked |-> p \in locked])
    <3>1. (p \in locked) \in BOOLEAN
      OBVIOUS
    <3> QED
      BY <3>1, Zenon DEF IsPoint
  <2>2. ASSUME NEW page
        PROVE  IsWap([p \in MmsPoints |-> [page |-> page, locked |-> p \in locked]])
    <3> DEFINE w == [p \in MmsPoints |-> [page |-> page, locked |-> p \in locked]]
    <3>1. w = [p \in MmsPoints |-> w[p]]
      OBVIOUS
    <3>2. \A p \in MmsPoints : w[p] = [page |-> page, locked |-> p \in locked]
      OBVIOUS
    <3> HIDE DEF w
    <3>3. IsWap(w)
      BY <2>1, <3>1, <3>2 DEF IsWap
    <3> QED
      BY <3>3 DEF w
  <2>3. MM!Wap(locked) = [p \in MmsPoints |-> [page |-> MM!NoText, locked |-> p \in locked]]
    BY DEF MM!Wap
  <2> QED
    BY <2>2, <2>3, Zenon
<1>3. IsMmsDb(db)
  BY <1>1, <1>2 DEF IsMmsDb
<1>4. IsMmsMem(mem) /\ mem.addr = << >>
  BY <1>1 DEF IsMmsMem, IsAddr
<1> QED
  BY <1>1, <1>3, <1>4, Nobody DEF MmsInv

LEMMA MmsStep ==
  ASSUME MmsInv, UNCHANGED adapter, MM!Next
  PROVE  MmsInv' /\ SameLocks(db, db')
<1>1. \A r \in open : r.op = "leaf"
  BY MmsHeld
<1>2. MM!Now \notin open
  BY <1>1 DEF MM!Now
<1>3. ASSUME NEW status, NEW y \in {MM!X, MM!CreateMMSClient(MM!X)},
             MM!Serve({MM!Now}, MM!SetStatus(y, MM!Now, status))
      PROVE  MmsInv' /\ SameLocks(db, db')
  BY <1>2, <1>3, MmsX, MmsFetches, MmsServes
<1>4. CASE MM!UpdateLeaf
  <2>0. PICK leaf \in MmsLeaves, mtm \in BOOLEAN : \E obj \in MmsObjects[leaf] :
          LET ref == MM!LeafRef(MM!Account, leaf, obj.text)
          IN  /\ \A r \in open : r # ref
              /\ MM!Serve({ref}, MM!UpdateLeafObject(MM!X, leaf, obj, ref, mtm))
    BY <1>4 DEF MM!UpdateLeaf
  <2>1. PICK obj \in MmsObjects[leaf] :
          LET ref == MM!LeafRef(MM!Account, leaf, obj.text)
          IN  /\ \A r \in open : r # ref
              /\ MM!Serve({ref}, MM!UpdateLeafObject(MM!X, leaf, obj, ref, mtm))
    BY <2>0
  <2> DEFINE ref == MM!LeafRef(MM!Account, leaf, obj.text)
  <2>2. ref \notin open /\ MM!Serve({ref}, MM!UpdateLeafObject(MM!X, leaf, obj, ref, mtm))
    BY <2>1
  <2>3. ref.op = "leaf"
    BY DEF MM!LeafRef
  <2> HIDE DEF ref
  <2>4. MmsDone(MM!X, MM!UpdateLeafObject(MM!X, leaf, obj, ref, mtm), ref)
    BY <2>3, MmsX, MmsUpdates
  <2> QED
    BY <2>2, <2>4, MmsServes
<1>5. CASE MM!Fetch \/ MM!List \/ MM!Other
  <2>1. \E status : \E y \in {MM!X, MM!CreateMMSClient(MM!X)} :
          MM!Serve({MM!Now}, MM!SetStatus(y, MM!Now, status))
    BY <1>5, Zenon DEF MM!Fetch, MM!List, MM!Other, MM!FetchLeafObjectSize, MM!FetchLeafObject,
         MM!ChildURIList, MM!Refuse
  <2> QED
    BY <1>3, <2>1
<1> DEFINE y == MM!CompleteOutstandingCmds(MM!X)
<1>6. /\ IsMms(y) /\ SameLocks(db, y.db) /\ y.mem.addr = << >>
      /\ \/ mem.addr = << >> /\ y.said = << >>
         \/ mem.addr # << >> /\ Replied(y, mem.addr[1].ref)
  BY MmsX, MmsCompletes
<1> HIDE DEF y
<1>7. CASE MM!Complete
  <2>1. Called({}, y)
    BY <1>7 DEF MM!Complete, MM!Serve, Called, Answered, Again, y
  <2>2. mem' = y.mem /\ db' = y.db /\ open' = {} /\ wrong' = wrong
    <3>1. CASE mem.addr = << >> /\ y.said = << >>
      BY <2>1, <3>1, MmsHeld, CalledSilently
    <3>2. CASE mem.addr # << >> /\ Replied(y, mem.addr[1].ref)
      BY <2>1, <3>2, MmsHeld, CalledFor
    <3> QED
      BY <1>6, <3>1, <3>2
  <2> QED
    BY <1>6, <2>2, Nobody DEF MmsInv, IsMms
<1>8. CASE MM!EndSession
  <2>1. mem' = [copy |-> MM!NoCopy, addr |-> << >>] /\ db' = y.db /\ open' = {} /\ wrong' = wrong
    BY <1>8 DEF MM!EndSession, MM!EndWith, MM!NewMem, y
  <2>2. IsMmsMem(mem') /\ mem'.addr = << >>
    BY <2>1 DEF IsMmsMem, IsAddr
  <2> QED
    BY <1>6, <2>1, <2>2, Nobody DEF MmsInv, IsMms
<1>9. CASE MM!UserEdits
  <2>1. \E s : db' = [db EXCEPT !.settings = s] /\ UNCHANGED <<mem, open, wrong>>
    BY <1>9 DEF MM!UserEdits, MM!Elsewhere
  <2>2. PICK s : db' = [db EXCEPT !.settings = s] /\ UNCHANGED <<mem, open, wrong>>
    BY <2>1
  <2>3. PICK settings, service, wap :
          db = [settings |-> settings, service |-> service, wap |-> wap] /\ IsWap(wap)
    BY DEF MmsInv, IsMmsDb
  <2>4. db' = [settings |-> s, service |-> service, wap |-> wap]
    BY <2>2, <2>3
  <2>5. IsMmsDb(db') /\ SameLocks(db, db')
    BY <2>3, <2>4 DEF IsMmsDb, SameLocks
  <2> QED
    BY <2>2, <2>5 DEF MmsInv, HeldIn
<1> QED
  BY <1>4, <1>5, <1>7, <1>8, <1>9 DEF MM!Next
-----------------------------------------------------------------------------
(* Mailboxes and destinations: what the buffer holds. *)

\* A command of the buffer waits for its answer.
IsCmd(c) == "ref" \in DOMAIN c
Refs(e) == {e.cmds[j].ref : j \in DOMAIN e.cmds}
IsEntry(e) ==
  /\ "cmds" \in DOMAIN e /\ IsSeq(e.cmds)
  /\ \A j \in DOMAIN e.cmds : IsCmd(e.cmds[j])
  /\ \A j, k \in DOMAIN e.cmds : e.cmds[j].ref = e.cmds[k].ref => j = k

\* The same commands wait in f as in e; another one, `ref`, comes after them.
SameCmds(e, f) ==
  /\ "cmds" \in DOMAIN f /\ IsSeq(f.cmds)
  /\ DOMAIN f.cmds = DOMAIN e.cmds /\ Len(f.cmds) = Len(e.cmds)
  /\ \A j \in DOMAIN f.cmds : IsCmd(f.cmds[j]) /\ f.cmds[j].ref = e.cmds[j].ref
Grown(e, f, ref) == IsEntry(f) /\ Refs(f) = Refs(e) \cup {ref}

LEMMA SameEntry ==
  ASSUME NEW e, IsEntry(e), NEW f, SameCmds(e, f)
  PROVE  IsEntry(f) /\ Refs(f) = Refs(e)
BY DEF IsEntry, SameCmds, Refs

LEMMA SameCmdsTransitive ==
  ASSUME NEW e, NEW f, NEW g, SameCmds(e, f), SameCmds(f, g)
  PROVE  SameCmds(e, g)
BY DEF SameCmds

LEMMA SameCmdsReflexive ==
  ASSUME NEW e, IsEntry(e)
  PROVE  SameCmds(e, e)
BY DEF IsEntry, SameCmds

\* Fields other than the commands may change, and the status of a command.
LEMMA OtherField ==
  ASSUME NEW e, IsEntry(e), NEW f, "cmds" \in DOMAIN f, f.cmds = e.cmds
  PROVE  SameCmds(e, f)
BY DEF IsEntry, SameCmds

LEMMA CommandStatus ==
  ASSUME NEW e, IsEntry(e), NEW i, NEW status
  PROVE  SameCmds(e, [e EXCEPT !.cmds[i].status = status])
<1> DEFINE c == [e.cmds[i] EXCEPT !.status = status]
           t == [e.cmds EXCEPT ![i] = c]
           f == [e EXCEPT !.cmds = t]
<1>1. [e EXCEPT !.cmds[i].status = status] = f
  OBVIOUS
<1>2. "cmds" \in DOMAIN f /\ f.cmds = t
  BY DEF IsEntry
<1>3. i \in DOMAIN e.cmds => IsCmd(c) /\ c.ref = e.cmds[i].ref
  BY DEF IsEntry, IsCmd
<1> HIDE DEF c
<1>4. /\ IsSeq(t) /\ DOMAIN t = DOMAIN e.cmds /\ Len(t) = Len(e.cmds)
      /\ i \in DOMAIN e.cmds => t[i] = c
      /\ \A j \in DOMAIN e.cmds \ {i} : t[j] = e.cmds[j]
  BY SeqExcept DEF IsEntry
<1> HIDE DEF t, f
<1>5. \A j \in DOMAIN t : IsCmd(t[j]) /\ t[j].ref = e.cmds[j].ref
  BY <1>3, <1>4 DEF IsEntry
<1>6. SameCmds(e, f)
  BY <1>2, <1>4, <1>5 DEF SameCmds
<1> QED
  BY <1>1, <1>6

LEMMA Applied ==
  ASSUME NEW e, IsEntry(e), NEW i
  PROVE  SameCmds(e, EM!Apply(e, i))
<1>1. ASSUME NEW w, NEW status
      PROVE  SameCmds(e, [e EXCEPT !.work = w, !.cmds[i].status = status])
  <2> DEFINE f == [e EXCEPT !.work = w]
  <2>1. "cmds" \in DOMAIN f /\ f.cmds = e.cmds
    BY DEF IsEntry
  <2>2. [e EXCEPT !.work = w, !.cmds[i].status = status] = [f EXCEPT !.cmds[i].status = status]
    OBVIOUS
  <2> HIDE DEF f
  <2>3. SameCmds(e, f)
    BY <2>1, OtherField
  <2>4. SameCmds(f, [f EXCEPT !.cmds[i].status = status])
    BY <2>3, SameEntry, CommandStatus
  <2> QED
    BY <2>2, <2>3, <2>4, SameCmdsTransitive
<1> QED
  BY <1>1, Zenon DEF EM!Apply

LEMMA CommandAdded ==
  ASSUME NEW e, IsEntry(e), NEW c, IsCmd(c), c.ref \notin Refs(e)
  PROVE  Grown(e, EM!AddCommand(e, c), c.ref) /\ Len(EM!AddCommand(e, c).cmds) = Len(e.cmds) + 1
<1> DEFINE f == EM!AddCommand(e, c)
           t == Append(e.cmds, c)
<1>1. "cmds" \in DOMAIN f /\ f.cmds = t
  BY DEF EM!AddCommand, IsEntry
<1>2. /\ IsSeq(t) /\ Len(t) = Len(e.cmds) + 1 /\ t[Len(e.cmds) + 1] = c
      /\ \A i \in DOMAIN e.cmds : t[i] = e.cmds[i]
      /\ DOMAIN t = DOMAIN e.cmds \cup {Len(e.cmds) + 1}
  BY SeqAppend DEF IsEntry
<1> HIDE DEF t, f
<1>3. \A j \in DOMAIN t : IsCmd(t[j])
  BY <1>2 DEF IsEntry
<1>4. {t[j].ref : j \in DOMAIN t} = Refs(e) \cup {c.ref}
  BY <1>2 DEF Refs
<1>5. ASSUME NEW j \in DOMAIN t, NEW k \in DOMAIN t, t[j].ref = t[k].ref
      PROVE  j = k
  <2>1. \A i \in DOMAIN e.cmds : t[i].ref \in Refs(e) /\ t[i].ref = e.cmds[i].ref
    BY <1>2 DEF Refs
  <2>2. CASE j \in DOMAIN e.cmds /\ k \in DOMAIN e.cmds
    BY <1>5, <2>1, <2>2 DEF IsEntry
  <2> QED
    BY <1>2, <1>5, <2>1, <2>2
<1> QED
  BY <1>1, <1>2, <1>3, <1>4, <1>5 DEF Grown, IsEntry, Refs, f
\* Everything that came before is applied (FirstAddLeafL).
LEMMA AllApplied ==
  ASSUME NEW e, IsEntry(e)
  PROVE  SameCmds(e, EM!ApplyAll(e))
<1> DEFINE N == Len(e.cmds)
           F(g, n) == IF n = 0 THEN e
                      ELSE IF e.cmds[n].leaf = EM!Node THEN g[n - 1]
                      ELSE EM!Apply(g[n - 1], n)
           Applies(m, g) == g = [n \in 0 .. m |-> F(g, n)]
           applied == CHOOSE g : Applies(N, g)
           S == {m \in Nat : \E g : Applies(m, g)}
           T == {n \in 0 .. N : SameCmds(e, applied[n])}
<1>0. N \in Nat
  BY SeqDomain DEF IsEntry
<1> HIDE DEF N
<1>1. 0 \in S
  <2>1. Applies(0, [n \in 0 .. 0 |-> e])
    OBVIOUS
  <2> QED
    BY <2>1
<1>2. ASSUME NEW m \in Nat, m \in S
      PROVE  m + 1 \in S
  <2>1. PICK g : Applies(m, g)
    BY <1>2
  <2> DEFINE h == [n \in 0 .. m + 1 |-> IF n <= m THEN g[n] ELSE F(g, n)]
  <2>2. ASSUME NEW n \in 0 .. m + 1
        PROVE  h[n] = F(h, n)
    <3>1. n # 0 => n - 1 \in 0 .. m /\ h[n - 1] = g[n - 1]
      OBVIOUS
    <3>2. F(h, n) = F(g, n)
      <4> HIDE DEF h
      <4> QED
        BY <3>1
    <3>3. n <= m => g[n] = F(g, n)
      <4> HIDE DEF F
      <4> QED
        BY <2>1
    <3> QED
      BY <3>2, <3>3
  <2>3. Applies(m + 1, h)
    BY <2>2
  <2> HIDE DEF h, Applies
  <2> QED
    BY <2>3
<1>3. \E g : Applies(N, g)
  <2>1. 0 .. N \subseteq S
    <3> HIDE DEF S
    <3> QED
      BY <1>0, <1>1, <1>2, InductionUpTo DEF S
  <2> QED
    BY <1>0, <2>1
<1>4. Applies(N, applied)
  BY <1>3
<1>5. \A n \in 0 .. N : applied[n] = F(applied, n)
  <2> HIDE DEF F
  <2> QED
    BY <1>4
<1>6. EM!ApplyAll(e) = applied[N]
  BY DEF EM!ApplyAll, applied, N
<1> HIDE DEF applied
<1>7. 0 \in T
  BY <1>0, <1>5, SameCmdsReflexive
<1>8. ASSUME NEW n \in 0 .. N - 1, n \in T
      PROVE  n + 1 \in T
  <2>1. n + 1 \in 0 .. N /\ n + 1 # 0 /\ (n + 1) - 1 = n
    BY <1>0
  <2>2. applied[n + 1] \in {applied[n], EM!Apply(applied[n], n + 1)}
    BY <1>5, <2>1
  <2>3. SameCmds(e, EM!Apply(applied[n], n + 1))
    BY <1>8, SameEntry, Applied, SameCmdsTransitive
  <2> QED
    BY <1>8, <2>1, <2>2, <2>3
<1>9. 0 .. N \subseteq T
  <2>1. T \in SUBSET Nat
    OBVIOUS
  <2> HIDE DEF T
  <2> QED
    BY <1>0, <1>7, <1>8, <2>1, InductionUpTo
<1> QED
  BY <1>0, <1>6, <1>9

\* Ports and logins are checked before they are saved.
LEMMA PortChecked ==
  ASSUME NEW e, IsEntry(e), NEW i
  PROVE  SameCmds(e, EM!CheckPort(e, i))
<1> DEFINE n == e.cmds[i].obj.num
           f == [e EXCEPT !.cmds[i].status = "EInvalidObject"]
           g == [e EXCEPT !.work.inPort = n]
           h == [e EXCEPT !.work.outPort = n]
<1>1. SameCmds(e, e) /\ SameCmds(e, f)
  BY CommandStatus, SameCmdsReflexive
<1>2. SameCmds(e, g) /\ SameCmds(e, h)
  <2>1. "cmds" \in DOMAIN g /\ g.cmds = e.cmds /\ "cmds" \in DOMAIN h /\ h.cmds = e.cmds
    BY DEF IsEntry
  <2> HIDE DEF g, h
  <2> QED
    BY <2>1, OtherField
<1>3. EM!CheckPort(e, i) \in {e, f, g, h}
  BY Zenon DEF EM!CheckPort
<1> HIDE DEF f, g, h
<1> QED
  BY <1>1, <1>2, <1>3

LEMMA LoginChecked ==
  ASSUME NEW e, IsEntry(e), NEW i
  PROVE  SameCmds(e, EM!CheckLogin(e, i))
BY CommandStatus, SameCmdsReflexive, Zenon DEF EM!CheckLogin

LEMMA AllChecked ==
  ASSUME NEW e, IsEntry(e)
  PROVE  SameCmds(e, EM!Check(e))
<1> DEFINE N == Len(e.cmds)
           F(g, n) == IF n = 0 THEN e ELSE EM!CheckLogin(EM!CheckPort(g[n - 1], n), n)
           Checks(m, g) == g = [n \in 0 .. m |-> F(g, n)]
           checked == CHOOSE g : Checks(N, g)
           S == {m \in Nat : \E g : Checks(m, g)}
           T == {n \in 0 .. N : SameCmds(e, checked[n])}
<1>0. N \in Nat
  BY SeqDomain DEF IsEntry
<1> HIDE DEF N
<1>1. 0 \in S
  <2>1. Checks(0, [n \in 0 .. 0 |-> e])
    OBVIOUS
  <2> QED
    BY <2>1
<1>2. ASSUME NEW m \in Nat, m \in S
      PROVE  m + 1 \in S
  <2>1. PICK g : Checks(m, g)
    BY <1>2
  <2> DEFINE h == [n \in 0 .. m + 1 |-> IF n <= m THEN g[n] ELSE F(g, n)]
  <2>2. ASSUME NEW n \in 0 .. m + 1
        PROVE  h[n] = F(h, n)
    <3>1. n # 0 => n - 1 \in 0 .. m /\ h[n - 1] = g[n - 1]
      OBVIOUS
    <3>2. F(h, n) = F(g, n)
      <4> HIDE DEF h
      <4> QED
        BY <3>1
    <3>3. n <= m => g[n] = F(g, n)
      <4> HIDE DEF F
      <4> QED
        BY <2>1
    <3> QED
      BY <3>2, <3>3
  <2>3. Checks(m + 1, h)
    BY <2>2
  <2> HIDE DEF h, Checks
  <2> QED
    BY <2>3
<1>3. \E g : Checks(N, g)
  <2>1. 0 .. N \subseteq S
    <3> HIDE DEF S
    <3> QED
      BY <1>0, <1>1, <1>2, InductionUpTo DEF S
  <2> QED
    BY <1>0, <2>1
<1>4. Checks(N, checked)
  BY <1>3
<1>5. \A n \in 0 .. N : checked[n] = F(checked, n)
  <2> HIDE DEF F
  <2> QED
    BY <1>4
<1>6. EM!Check(e) = checked[N]
  BY DEF EM!Check, checked, N
<1> HIDE DEF checked
<1>7. 0 \in T
  BY <1>0, <1>5, SameCmdsReflexive
<1>8. ASSUME NEW n \in 0 .. N - 1, n \in T
      PROVE  n + 1 \in T
  <2>1. n + 1 \in 0 .. N /\ n + 1 # 0 /\ (n + 1) - 1 = n
    BY <1>0
  <2>2. checked[n + 1] = EM!CheckLogin(EM!CheckPort(checked[n], n + 1), n + 1)
    BY <1>5, <2>1
  <2> DEFINE f == EM!CheckPort(checked[n], n + 1)
  <2>3. SameCmds(e, f)
    BY <1>8, SameEntry, PortChecked, SameCmdsTransitive
  <2> HIDE DEF f
  <2>4. SameCmds(e, EM!CheckLogin(f, n + 1))
    BY <2>3, SameEntry, LoginChecked, SameCmdsTransitive
  <2> QED
    BY <2>1, <2>2, <2>4 DEF f
<1>9. 0 .. N \subseteq T
  <2>1. T \in SUBSET Nat
    OBVIOUS
  <2> HIDE DEF T
  <2> QED
    BY <1>0, <1>7, <1>8, <2>1, InductionUpTo
<1> QED
  BY <1>0, <1>6, <1>9
\* The buffer: no command waits in two places.
IsBuffer(b) ==
  /\ IsSeq(b)
  /\ \A i \in DOMAIN b : IsEntry(b[i])
  /\ \A i, k \in DOMAIN b : i # k => Refs(b[i]) \cap Refs(b[k]) = {}
Pending(b) == UNION {Refs(b[i]) : i \in DOMAIN b}

LEMMA EntryAppended ==
  ASSUME NEW b, IsBuffer(b), NEW e, IsEntry(e), Refs(e) \cap Pending(b) = {}
  PROVE  IsBuffer(Append(b, e)) /\ Pending(Append(b, e)) = Pending(b) \cup Refs(e)
<1> DEFINE c == Append(b, e)
           last == Len(b) + 1
<1>1. /\ IsSeq(c) /\ c[last] = e /\ DOMAIN c = DOMAIN b \cup {last}
      /\ \A i \in DOMAIN b : c[i] = b[i]
  BY SeqAppend DEF IsBuffer
<1>2. \A i \in DOMAIN b : Refs(b[i]) \subseteq Pending(b)
  BY DEF Pending
<1> HIDE DEF c, last
<1>3. \A i, k \in DOMAIN c : i # k => Refs(c[i]) \cap Refs(c[k]) = {}
  BY <1>1, <1>2 DEF IsBuffer
<1>4. Pending(c) = Pending(b) \cup Refs(e)
  BY <1>1 DEF Pending
<1>5. IsBuffer(c)
  BY <1>1, <1>3 DEF IsBuffer
<1> QED
  BY <1>4, <1>5 DEF c

LEMMA EntryReplaced ==
  ASSUME NEW b, IsBuffer(b), NEW i \in DOMAIN b, NEW f, NEW ref, ref \notin Pending(b),
         Grown(b[i], f, ref)
  PROVE  LET c == [b EXCEPT ![i] = f]
         IN  IsBuffer(c) /\ Pending(c) = Pending(b) \cup {ref}
<1> DEFINE c == [b EXCEPT ![i] = f]
<1>1. /\ IsSeq(c) /\ c[i] = f /\ DOMAIN c = DOMAIN b
      /\ \A k \in DOMAIN b \ {i} : c[k] = b[k]
  BY SeqExcept DEF IsBuffer
<1>2. \A k \in DOMAIN b : Refs(b[k]) \subseteq Pending(b)
  BY DEF Pending
<1>3. IsEntry(f) /\ Refs(f) = Refs(b[i]) \cup {ref}
  BY DEF Grown
<1> HIDE DEF c
<1>4. \A j, k \in DOMAIN c : j # k => Refs(c[j]) \cap Refs(c[k]) = {}
  BY <1>1, <1>2, <1>3 DEF IsBuffer
<1>5. Pending(c) = Pending(b) \cup {ref}
  BY <1>1, <1>3 DEF Pending
<1>6. IsBuffer(c)
  BY <1>1, <1>3, <1>4 DEF IsBuffer
<1> QED
  BY <1>5, <1>6 DEF c

\* The entry a lookup finds.
LEMMA FirstFound ==
  ASSUME NEW b, IsBuffer(b), NEW at, at \subseteq DOMAIN b
  PROVE  EM!FirstOf(at) = 0 \/ EM!FirstOf(at) \in DOMAIN b
<1>1. CASE at = {}
  BY <1>1 DEF EM!FirstOf
<1>2. CASE at # {}
  <2>1. DOMAIN b \subseteq Nat
    BY SeqDomain DEF IsBuffer
  <2>2. \E n \in at : \A k \in at : n <= k
    BY <1>2, <2>1, LeastNumber
  <2>3. EM!FirstOf(at) \in at
    BY <1>2, <2>2 DEF EM!FirstOf, EM!Min
  <2> QED
    BY <2>3
<1> QED
  BY <1>1, <1>2

-----------------------------------------------------------------------------
(* The mailboxes of the message store. *)

MailDb(d) ==
  /\ {"acc", "default", "last"} \subseteq DOMAIN d
  /\ \A k \in DOMAIN d.acc : k[2] \in Nat
  /\ DOMAIN d.acc # {} => d.default \in DOMAIN d.acc

\* The first of some mailboxes is one of them.
LEMMA FirstMailbox ==
  ASSUME NEW K, K # {}, \A k \in K : k[2] \in Nat
  PROVE  EM!First(K) \in K
<1> DEFINE S == {k[2] : k \in K}
<1>1. S \in SUBSET Nat /\ S # {}
  OBVIOUS
<1> HIDE DEF S
<1>2. PICK n \in S : \A m \in S : n <= m
  BY <1>1, LeastNumber
<1>3. \E k \in K : \A l \in K : k[2] <= l[2]
  BY <1>2 DEF S
<1> QED
  BY <1>3 DEF EM!First

\* A mailbox that is deleted is the default no longer.
LEMMA MailboxDeleted ==
  ASSUME NEW d, MailDb(d), NEW k
  PROVE  MailDb(EM!DeleteAccount(d, k))
<1> DEFINE acc == EM!Without(d.acc, {k})
           left == [d EXCEPT !.acc = acc]
           others == {l \in DOMAIN acc : l[1] # k[1]}
           like == EM!OfType(left, k[1])
           gone == d.default = k \/ EM!OfType(d, k[1]) = {k}
           default == IF ~gone /\ d.default # EM!NoKey THEN d.default
                      ELSE IF others # {} THEN EM!First(others)
                      ELSE IF like # {} THEN EM!First(like)
                      ELSE EM!NoKey
<1>1. EM!DeleteAccount(d, k) = [last |-> d.last, acc |-> acc, default |-> default]
  BY DEF EM!DeleteAccount
<1>2. DOMAIN acc = DOMAIN d.acc \ {k}
  BY DEF EM!Without
<1>3. like = {l \in DOMAIN acc : l[1] = k[1]}
  <2>1. left.acc = acc
    BY DEF MailDb
  <2> HIDE DEF left, acc
  <2> QED
    BY <2>1 DEF EM!OfType
<1> HIDE DEF acc, like, gone
<1>4. others # {} => EM!First(others) \in others
  BY <1>2, FirstMailbox DEF MailDb
<1>5. like # {} => EM!First(like) \in like
  BY <1>2, <1>3, FirstMailbox DEF MailDb
<1> HIDE DEF others
<1>6. ASSUME DOMAIN acc # {}
      PROVE  default \in DOMAIN acc
  <2>1. DOMAIN d.acc # {} /\ d.default \in DOMAIN d.acc
    BY <1>2, <1>6 DEF MailDb
  <2>2. others \subseteq DOMAIN acc /\ like \subseteq DOMAIN acc /\ (others = {} => like # {})
    BY <1>3, <1>6 DEF others
  <2>3. ~gone => d.default \in DOMAIN acc
    BY <1>2, <2>1 DEF gone
  <2> QED
    BY <1>4, <1>5, <2>2, <2>3
<1> HIDE DEF default
<1>7. MailDb([last |-> d.last, acc |-> acc, default |-> default])
  BY <1>2, <1>6 DEF MailDb
<1> QED
  BY <1>1, <1>7

\* A mailbox that is new becomes the default when it is the first.
LEMMA MailboxCreated ==
  ASSUME NEW d, MailDb(d), NEW k, k[2] \in Nat, NEW settings
  PROVE  MailDb(EM!Created(EM!With(d.acc, k, settings), k, d.default))
<1> DEFINE acc == EM!With(d.acc, k, settings)
           like == {l \in DOMAIN acc : l[1] = k[1]}
           default == IF DOMAIN acc = {k} THEN k
                      ELSE IF d.default # EM!NoKey THEN d.default
                      ELSE EM!First(like)
<1>1. DOMAIN acc = DOMAIN d.acc \cup {k}
  BY DEF EM!With
<1> HIDE DEF acc
<1>2. EM!Created(acc, k, d.default) = [acc |-> acc, last |-> k[2], default |-> default]
  BY DEF EM!Created
<1>3. EM!First(like) \in DOMAIN acc
  <2>1. k \in like /\ \A l \in like : l[2] \in Nat
    BY <1>1 DEF MailDb
  <2>2. EM!First(like) \in like
    BY <2>1, FirstMailbox
  <2> QED
    BY <2>2
<1> HIDE DEF like
<1>4. default \in DOMAIN acc
  BY <1>1, <1>3 DEF MailDb
<1> HIDE DEF default
<1>5. MailDb([acc |-> acc, last |-> k[2], default |-> default])
  BY <1>1, <1>4 DEF MailDb
<1> QED
  BY <1>2, <1>5 DEF acc
-----------------------------------------------------------------------------
(* The handlers of the e-mail adapter. *)

AddsOrWrites(b) == \A r \in Pending(b) : r.op \in {"node", "leaf"}
MailMem(m) == "buffer" \in DOMAIN m /\ IsBuffer(m.buffer) /\ AddsOrWrites(m.buffer)
LEMMA NothingBuffered == IsBuffer(<< >>) /\ Pending(<< >>) = {} /\ AddsOrWrites(<< >>)
<1>1. << >> \in Seq({}) /\ DOMAIN << >> = {}
  OBVIOUS
<1>2. IsBuffer(<< >>) /\ Pending(<< >>) = {}
  BY <1>1 DEF IsBuffer, Pending, IsSeq
<1> QED
  BY <1>2 DEF AddsOrWrites

IsMail(x) == IsState(x) /\ MailMem(x.mem) /\ MailDb(x.db)
Waits(x) == Pending(x.mem.buffer)

\* A handler that answers its command, or lets it wait.
MailDone(x, y, ref) ==
  /\ IsMail(y)
  /\ \/ Waits(y) = Waits(x) /\ Replied(y, ref)
     \/ Waits(y) = Waits(x) \cup {ref} /\ y.said = << >>

\* A handler is given a command that does not wait yet.
MailAsked(x, ref) ==
  IsMail(x) /\ x.said = << >> /\ ref \notin Waits(x) /\ ref.op \in {"node", "leaf"}

LEMMA MailStatus ==
  ASSUME NEW x, IsMail(x), x.said = << >>, NEW ref, NEW status
  PROVE  MailDone(x, EM!SetStatus(x, ref, status), ref)
<1>1. Append(x.said, [ref |-> ref, status |-> status]) = <<[ref |-> ref, status |-> status]>>
  OBVIOUS
<1> DEFINE y == EM!SetStatus(x, ref, status)
<1>2. y = [mem |-> x.mem, db |-> x.db, map |-> x.map,
           said |-> <<[ref |-> ref, status |-> status]>>]
  BY <1>1 DEF IsMail, IsState, EM!SetStatus
<1>3. y.mem = x.mem /\ y.db = x.db /\ y.said = <<[ref |-> ref, status |-> status]>> /\ IsState(y)
  BY <1>2 DEF IsState
<1> HIDE DEF y
<1>4. Replied(y, ref)
  BY <1>3, Zenon DEF Replied
<1>5. IsMail(y) /\ Waits(y) = Waits(x)
  BY <1>3 DEF IsMail, Waits
<1> QED
  BY <1>4, <1>5 DEF MailDone, y

\* The mapping may be what it will; the buffer and the mailboxes as they must be.
LEMMA MailMapped ==
  ASSUME NEW x, IsMail(x), NEW names
  PROVE  LET y == [x EXCEPT !.map = names]
         IN  IsMail(y) /\ Waits(y) = Waits(x) /\ y.said = x.said /\ y.mem = x.mem /\ y.db = x.db
<1> DEFINE y == [x EXCEPT !.map = names]
<1>1. y = [mem |-> x.mem, db |-> x.db, map |-> names, said |-> x.said]
  BY DEF IsMail, IsState
<1>2. y.mem = x.mem /\ y.db = x.db /\ y.said = x.said /\ IsState(y)
  BY <1>1 DEF IsState
<1> HIDE DEF y
<1>3. IsMail(y) /\ Waits(y) = Waits(x)
  BY <1>2 DEF IsMail, Waits
<1> QED
  BY <1>2, <1>3 DEF y

LEMMA MailBuffered ==
  ASSUME NEW x, IsMail(x), NEW b, IsBuffer(b), AddsOrWrites(b)
  PROVE  LET y == [x EXCEPT !.mem.buffer = b]
         IN  IsMail(y) /\ y.mem.buffer = b /\ y.said = x.said /\ y.db = x.db /\ y.map = x.map
<1> DEFINE m == [x.mem EXCEPT !.buffer = b]
           y == [x EXCEPT !.mem.buffer = b]
<1>1. y = [mem |-> m, db |-> x.db, map |-> x.map, said |-> x.said]
  BY DEF IsMail, IsState
<1>2. "buffer" \in DOMAIN m /\ m.buffer = b
  BY DEF IsMail, MailMem
<1> HIDE DEF m
<1>3. y.mem = m /\ y.db = x.db /\ y.said = x.said /\ y.map = x.map /\ IsState(y)
  BY <1>1 DEF IsState
<1> HIDE DEF y
<1>4. IsMail(y) /\ y.mem.buffer = b
  BY <1>2, <1>3 DEF IsMail, MailMem
<1> QED
  BY <1>3, <1>4 DEF y

LEMMA MailStored ==
  ASSUME NEW x, IsMail(x), NEW d, MailDb(d)
  PROVE  LET y == [x EXCEPT !.db = d]
         IN  IsMail(y) /\ Waits(y) = Waits(x) /\ y.said = x.said /\ y.mem = x.mem /\ y.db = d
<1> DEFINE y == [x EXCEPT !.db = d]
<1>1. y = [mem |-> x.mem, db |-> d, map |-> x.map, said |-> x.said]
  BY DEF IsMail, IsState
<1>2. y.mem = x.mem /\ y.db = d /\ y.said = x.said /\ IsState(y)
  BY <1>1 DEF IsState
<1> HIDE DEF y
<1>3. IsMail(y) /\ Waits(y) = Waits(x)
  BY <1>2 DEF IsMail, Waits
<1> QED
  BY <1>2, <1>3 DEF y

\* Another state of the call, in which the same commands wait, answers instead.
LEMMA MailInstead ==
  ASSUME NEW x, NEW y, IsMail(y), Waits(y) = Waits(x), y.said = << >>, NEW z, NEW ref,
         MailDone(y, z, ref)
  PROVE  MailDone(x, z, ref)
BY DEF MailDone

LEMMA MailSought ==
  ASSUME NEW x, IsMail(x), x.said = << >>, NEW name
  PROVE  LET y == EM!Seek(x, name).x
         IN  IsMail(y) /\ Waits(y) = Waits(x) /\ y.said = << >>
<1>1. EM!Seek(x, name).x \in {x, EM!ConstructTree(x)}
  BY DEF EM!Seek, EM!Sought
<1>2. \A y : y = EM!ConstructTree(x) => IsMail(y) /\ Waits(y) = Waits(x) /\ y.said = << >>
  <2> DEFINE K == {k \in DOMAIN x.db.acc : EM!TreeName(x.db, k) \notin DOMAIN x.map}
             new == [n \in {EM!TreeName(x.db, k) : k \in K} |->
                        EM!SetLuidById(CHOOSE k \in K : EM!TreeName(x.db, k) = n)]
             names == new @@ x.map
  <2>1. EM!ConstructTree(x) = [x EXCEPT !.map = names]
    BY DEF EM!ConstructTree
  <2> HIDE DEF names
  <2> QED
    BY <2>1, MailMapped
<1> QED
  BY <1>1, <1>2

\* An entry without a command, for a mailbox that was read or is written.
LEMMA EmptyEntry ==
  ASSUME NEW name, NEW luid, NEW work, NEW fetch
  PROVE  IsEntry(EM!Entry(name, luid, work, fetch)) /\ Refs(EM!Entry(name, luid, work, fetch)) = {}
<1> DEFINE e == EM!Entry(name, luid, work, fetch)
<1>1. "cmds" \in DOMAIN e /\ e.cmds = << >>
  BY DEF EM!Entry
<1>2. << >> \in Seq({}) /\ DOMAIN << >> = {}
  OBVIOUS
<1> HIDE DEF e
<1>3. IsEntry(e) /\ Refs(e) = {}
  BY <1>1, <1>2 DEF IsEntry, Refs, IsSeq
<1> QED
  BY <1>3 DEF e

LEMMA EntryOpened ==
  ASSUME NEW x, IsMail(x), NEW e, IsEntry(e), Refs(e) = {}
  PROVE  LET y == [x EXCEPT !.mem.buffer = Append(@, e)]
         IN  /\ IsMail(y) /\ Waits(y) = Waits(x) /\ y.said = x.said
             /\ y.mem.buffer = Append(x.mem.buffer, e)
<1> DEFINE b == Append(x.mem.buffer, e)
           y == [x EXCEPT !.mem.buffer = Append(@, e)]
<1>4. IsBuffer(b) /\ Pending(b) = Waits(x) /\ AddsOrWrites(b)
  BY EntryAppended DEF IsMail, MailMem, Waits, AddsOrWrites
<1>5. y = [x EXCEPT !.mem.buffer = b]
  OBVIOUS
<1> HIDE DEF b
<1>6. IsMail([x EXCEPT !.mem.buffer = b]) /\ [x EXCEPT !.mem.buffer = b].mem.buffer = b
      /\ [x EXCEPT !.mem.buffer = b].said = x.said
  BY <1>4, MailBuffered
<1> HIDE DEF y
<1>7. IsMail(y) /\ y.mem.buffer = b /\ y.said = x.said
  BY <1>5, <1>6
<1>8. Waits(y) = Waits(x)
  BY <1>4, <1>7 DEF Waits
<1> QED
  BY <1>7, <1>8 DEF y, b

\* A command is added to the entry of its mailbox.
LEMMA EntryGrown ==
  ASSUME NEW x, NEW ref, MailAsked(x, ref), NEW i \in DOMAIN x.mem.buffer, NEW f,
         Grown(x.mem.buffer[i], f, ref)
  PROVE  MailDone(x, [x EXCEPT !.mem.buffer[i] = f], ref)
<1> DEFINE b == [x.mem.buffer EXCEPT ![i] = f]
           y == [x EXCEPT !.mem.buffer = b]
<1>1. [x EXCEPT !.mem.buffer[i] = f] = y
  OBVIOUS
<1>2. IsBuffer(b) /\ Pending(b) = Waits(x) \cup {ref} /\ AddsOrWrites(b)
  BY EntryReplaced DEF MailAsked, IsMail, MailMem, Waits, AddsOrWrites
<1> HIDE DEF b
<1>3. IsMail(y) /\ y.mem.buffer = b /\ y.said = x.said
  BY <1>2, MailBuffered DEF MailAsked
<1> HIDE DEF y
<1> QED
  BY <1>1, <1>2, <1>3 DEF MailDone, MailAsked, Waits

LEMMA CommandFor ==
  ASSUME NEW x, NEW ref, MailAsked(x, ref), NEW i \in DOMAIN x.mem.buffer, NEW leaf, NEW obj
  PROVE  LET e == x.mem.buffer[i]
             c == EM!Command(leaf, obj, ref)
         IN  IsEntry(e) /\ Grown(e, EM!AddCommand(e, c), ref)
<1> DEFINE e == x.mem.buffer[i]
           c == EM!Command(leaf, obj, ref)
<1>1. IsCmd(c) /\ c.ref = ref
  BY DEF EM!Command, IsCmd, MailAsked
<1>2. IsEntry(e) /\ ref \notin Refs(e)
  BY DEF MailAsked, IsMail, MailMem, IsBuffer, Waits, Pending
<1> HIDE DEF c, e
<1>3. IsEntry(e) /\ Grown(e, EM!AddCommand(e, c), ref)
  BY <1>1, <1>2, CommandAdded
<1> QED
  BY <1>3 DEF e, c

LEMMA GrownSame ==
  ASSUME NEW e, NEW f, NEW g, NEW ref, Grown(e, f, ref), SameCmds(f, g)
  PROVE  Grown(e, g, ref)
BY SameEntry DEF Grown

LEMMA LeafBuffered ==
  ASSUME NEW x, NEW ref, MailAsked(x, ref), NEW i \in DOMAIN x.mem.buffer, NEW leaf, NEW obj
  PROVE  MailDone(x, EM!UpdateBuffered(x, i, leaf, obj, ref), ref)
<1> DEFINE e == x.mem.buffer[i]
           f == EM!AddCommand(e, EM!Command(leaf, obj, ref))
           g == EM!Apply(f, Len(e.cmds) + 1)
           h == [g EXCEPT !.fetch = FALSE]
<1>1. Grown(e, f, ref)
  BY CommandFor
<1> HIDE DEF f
<1>2. SameCmds(f, g)
  BY <1>1, Applied DEF Grown
<1> HIDE DEF g
<1>3. SameCmds(f, h)
  <2>1. IsEntry(g) /\ SameCmds(f, g)
    BY <1>1, <1>2, SameEntry DEF Grown
  <2>2. "cmds" \in DOMAIN h /\ h.cmds = g.cmds
    BY <2>1 DEF IsEntry
  <2> HIDE DEF h
  <2> QED
    BY <2>1, <2>2, OtherField, SameCmdsTransitive
<1>4. EM!UpdateBuffered(x, i, leaf, obj, ref) = [x EXCEPT !.mem.buffer[i] = h]
  BY DEF EM!UpdateBuffered, e, f, g, h
<1> HIDE DEF h
<1>5. Grown(e, h, ref)
  BY <1>1, <1>3, GrownSame
<1> QED
  BY <1>4, <1>5, EntryGrown
LEMMA LeafStored ==
  ASSUME NEW x, NEW ref, MailAsked(x, ref), NEW luid, NEW i,
         i = 0 \/ i \in DOMAIN x.mem.buffer, NEW w, NEW leaf, NEW obj
  PROVE  MailDone(x, EM!UpdateStored(x, luid, i, w, leaf, obj, ref), ref)
<1> DEFINE new == Len(x.mem.buffer) + 1
           e == EM!Entry(EM!NoName, luid, w, FALSE)
           y == [x EXCEPT !.mem.buffer = Append(@, e)]
<1>1. DOMAIN x.mem.buffer \subseteq Nat \ {0}
  BY SeqDomain DEF MailAsked, IsMail, MailMem, IsBuffer
<1>2. \A status : MailDone(x, EM!SetStatus(x, ref, status), ref)
  BY MailStatus DEF MailAsked
<1>3. i \in DOMAIN x.mem.buffer => MailDone(x, EM!UpdateBuffered(x, i, leaf, obj, ref), ref)
  BY LeafBuffered
<1>4. IsMail(y) /\ Waits(y) = Waits(x) /\ y.said = << >> /\ y.mem.buffer = Append(x.mem.buffer, e)
  <2>1. IsEntry(e) /\ Refs(e) = {}
    BY EmptyEntry
  <2> HIDE DEF e
  <2> QED
    BY <2>1, EntryOpened DEF MailAsked
<1> HIDE DEF y, e
<1>5. MailAsked(y, ref)
  BY <1>4 DEF MailAsked
<1>6. new \in DOMAIN y.mem.buffer
  <2>1. IsSeq(x.mem.buffer)
    BY DEF MailAsked, IsMail, MailMem, IsBuffer
  <2> QED
    BY <1>4, <2>1, SeqAppend
<1> HIDE DEF new
<1>7. MailDone(x, EM!UpdateBuffered(y, new, leaf, obj, ref), ref)
  BY <1>4, <1>5, <1>6, LeafBuffered, MailInstead
<1>8. \/ \E status : EM!UpdateStored(x, luid, i, w, leaf, obj, ref) = EM!SetStatus(x, ref, status)
      \/ i > 0 /\ EM!UpdateStored(x, luid, i, w, leaf, obj, ref)
                  = EM!UpdateBuffered(x, i, leaf, obj, ref)
      \/ EM!UpdateStored(x, luid, i, w, leaf, obj, ref) = EM!UpdateBuffered(y, new, leaf, obj, ref)
  BY Zenon DEF EM!UpdateStored, y, e, new
<1>9. i > 0 => i \in DOMAIN x.mem.buffer
  OBVIOUS
<1> QED
  BY <1>2, <1>3, <1>7, <1>8, <1>9

LEMMA LeafSought ==
  ASSUME NEW x, NEW ref, MailAsked(x, ref), NEW name, NEW leaf, NEW obj
  PROVE  MailDone(x, EM!UpdateSought(EM!Seek(x, name), leaf, obj, ref), ref)
<1> DEFINE s == EM!Seek(x, name)
           i == EM!BufferOfLuid(s.x, s.luid)
           w == EM!DoRestoreSettings(s.x, s.luid)
<1>1. IsMail(s.x) /\ Waits(s.x) = Waits(x) /\ s.x.said = << >>
  BY MailSought DEF MailAsked
<1> HIDE DEF s
<1>2. MailAsked(s.x, ref)
  BY <1>1 DEF MailAsked
<1>3. i = 0 \/ i \in DOMAIN s.x.mem.buffer
  BY <1>1, FirstFound DEF EM!BufferOfLuid, IsMail, MailMem
<1> HIDE DEF i, w
<1>4. MailDone(s.x, EM!UpdateStored(s.x, s.luid, i, w, leaf, obj, ref), ref)
  BY <1>2, <1>3, LeafStored
<1>5. \A status : MailDone(s.x, EM!SetStatus(s.x, ref, status), ref)
  BY <1>1, MailStatus
<1>6. MailDone(s.x, EM!UpdateSought(s, leaf, obj, ref), ref)
  BY <1>4, <1>5, Zenon DEF EM!UpdateSought, i, w
<1>7. MailDone(x, EM!UpdateSought(s, leaf, obj, ref), ref)
  BY <1>1, <1>6, MailInstead
<1> QED
  BY <1>7 DEF s

LEMMA LeafUpdated ==
  ASSUME NEW x, NEW ref, MailAsked(x, ref), NEW name, NEW leaf, NEW obj
  PROVE  MailDone(x, EM!UpdateLeafObject(x, name, leaf, obj, ref), ref)
<1> DEFINE i == EM!BufferOf(x, name)
           e == x.mem.buffer[i]
           f == EM!AddCommand(e, EM!Command(leaf, obj, ref))
           g == EM!ApplyFirst(f, EM!Executed(e), leaf, obj)
           y == [x EXCEPT !.mem.buffer[i] = g]
<1>1. i = 0 \/ i \in DOMAIN x.mem.buffer
  BY FirstFound DEF EM!BufferOf, MailAsked, IsMail, MailMem
<1>2. DOMAIN x.mem.buffer \subseteq Nat \ {0}
  BY SeqDomain DEF MailAsked, IsMail, MailMem, IsBuffer
<1>3. y = [x EXCEPT !.mem.buffer[i] = EM!FirstAddLeaf(@, leaf, obj, ref)]
  BY DEF EM!FirstAddLeaf
<1> HIDE DEF i, y
<1>4. ASSUME i \in DOMAIN x.mem.buffer
      PROVE  MailDone(x, y, ref)
  <2>1. Grown(e, f, ref)
    BY <1>4, CommandFor
  <2> HIDE DEF f
  <2> DEFINE first == [f EXCEPT !.work = EM!SetDefaultSettings(obj.text)]
  <2>2. SameCmds(f, first)
    <3>1. IsEntry(f)
      BY <2>1 DEF Grown
    <3>2. "cmds" \in DOMAIN first /\ first.cmds = f.cmds
      BY <3>1 DEF IsEntry
    <3> HIDE DEF first
    <3> QED
      BY <3>1, <3>2, OtherField
  <2> HIDE DEF first
  <2>3. SameCmds(f, f) /\ SameCmds(f, EM!Apply(f, Len(f.cmds)))
    BY <2>1, Applied, SameCmdsReflexive DEF Grown
  <2>4. SameCmds(f, EM!ApplyAll(first))
    <3>1. IsEntry(first)
      BY <2>1, <2>2, SameEntry DEF Grown
    <3> QED
      BY <2>2, <3>1, AllApplied, SameCmdsTransitive
  <2>5. g \in {f, EM!Apply(f, Len(f.cmds)), EM!ApplyAll(first)}
    BY Zenon DEF EM!ApplyFirst, first
  <2> HIDE DEF g, e
  <2>6. SameCmds(f, g)
    BY <2>3, <2>4, <2>5
  <2>7. Grown(e, g, ref)
    BY <2>1, <2>6, GrownSame
  <2> QED
    BY <1>4, <2>7, EntryGrown DEF y, e
<1>5. MailDone(x, EM!UpdateSought(EM!Seek(x, name), leaf, obj, ref), ref)
  BY LeafSought
<1>6. \/ i > 0 /\ EM!UpdateLeafObject(x, name, leaf, obj, ref) = y
      \/ EM!UpdateLeafObject(x, name, leaf, obj, ref)
         = EM!UpdateSought(EM!Seek(x, name), leaf, obj, ref)
  BY <1>3, Zenon DEF EM!UpdateLeafObject, EM!UpdateNamed, i
<1>7. i > 0 => i \in DOMAIN x.mem.buffer
  BY <1>1, <1>2
<1> QED
  BY <1>4, <1>5, <1>6, <1>7

LEMMA NodeAdded ==
  ASSUME NEW x, NEW ref, MailAsked(x, ref), NEW name, NEW full
  PROVE  MailDone(x, EM!AddNodeObject(x, name, ref, full), ref)
<1> DEFINE y == EM!RemoveMapping(x, EM!GetDynamicEmailNodeUri(name))
           e == EM!Entry(name, 0, EM!None, FALSE)
           c == EM!Command(EM!Node, EM!NoObject, ref)
           f == EM!AddCommand(e, c)
           b == Append(y.mem.buffer, f)
           z == [y EXCEPT !.mem.buffer = b]
<1>1. \A names : IsMail([x EXCEPT !.map = names]) /\ Waits([x EXCEPT !.map = names]) = Waits(x)
                 /\ [x EXCEPT !.map = names].said = << >>
  BY MailMapped DEF MailAsked
<1>2. IsMail(y) /\ Waits(y) = Waits(x) /\ y.said = << >>
  BY <1>1, Zenon DEF EM!RemoveMapping
<1> HIDE DEF y
<1>3. \A status : MailDone(x, EM!SetStatus(x, ref, status), ref)
  BY MailStatus DEF MailAsked
<1>4. \A status : MailDone(x, EM!SetStatus(y, ref, status), ref)
  BY <1>2, MailStatus, MailInstead
<1>5. IsEntry(e) /\ Refs(e) = {}
  BY EmptyEntry
<1>6. IsCmd(c) /\ c.ref = ref
  BY DEF EM!Command, IsCmd, MailAsked
<1> HIDE DEF e, c
<1>7. IsEntry(f) /\ Refs(f) = {ref}
  BY <1>5, <1>6, CommandAdded DEF Grown
<1> HIDE DEF f
<1>8. IsBuffer(b) /\ Pending(b) = Waits(x) \cup {ref} /\ AddsOrWrites(b)
  BY <1>2, <1>7, EntryAppended DEF IsMail, MailMem, Waits, MailAsked, AddsOrWrites
<1> HIDE DEF b
<1>9. IsMail(z) /\ z.mem.buffer = b /\ z.said = << >>
  BY <1>2, <1>8, MailBuffered
<1> HIDE DEF z
<1>10. MailDone(x, z, ref)
  BY <1>8, <1>9 DEF MailDone, Waits
<1>11. \/ \E status : EM!AddNodeObject(x, name, ref, full)
                       \in {EM!SetStatus(x, ref, status), EM!SetStatus(y, ref, status)}
       \/ EM!AddNodeObject(x, name, ref, full) = z
  BY Zenon DEF EM!AddNodeObject, z, b, f, c, e, y
<1> QED
  BY <1>3, <1>4, <1>10, <1>11

LEMMA NodeDeleted ==
  ASSUME NEW x, IsMail(x), x.said = << >>, NEW name, NEW ref
  PROVE  MailDone(x, EM!DeleteNode(x, name, ref), ref)
<1> DEFINE k == EM!GetIdByLuid(EM!Luid(x.map, name))
           d == EM!DeleteAccount(x.db, k)
           y == [x EXCEPT !.db = d]
<1>1. MailDb(d)
  BY MailboxDeleted DEF IsMail
<1> HIDE DEF d
<1>2. IsMail(y) /\ Waits(y) = Waits(x) /\ y.said = << >>
  BY <1>1, MailStored
<1> HIDE DEF y
<1>3. \A status : MailDone(x, EM!SetStatus(y, ref, status), ref)
  BY <1>2, MailStatus, MailInstead
<1>4. EM!DeleteNode(x, name, ref)
      \in {EM!SetStatus(x, ref, "ENotFound"), EM!SetStatus(y, ref, "EOk")}
  BY Zenon DEF EM!DeleteNode, y, d, k
<1> QED
  BY <1>3, <1>4, MailStatus

LEMMA LeafFetched ==
  ASSUME NEW x, IsMail(x), x.said = << >>, NEW name, NEW leaf, NEW ref
  PROVE  MailDone(x, EM!FetchLeafObject(x, name, leaf, ref), ref)
<1> DEFINE s == EM!Seek(x, name)
           w == EM!DoRestoreSettings(s.x, s.luid)
           e == EM!Entry(EM!NoName, s.luid, w, TRUE)
           y == [s.x EXCEPT !.mem.buffer = Append(@, e)]
<1>1. IsMail(s.x) /\ Waits(s.x) = Waits(x) /\ s.x.said = << >>
  BY MailSought
<1> HIDE DEF s
<1>2. IsMail(y) /\ Waits(y) = Waits(x) /\ y.said = << >>
  <2>1. IsEntry(e) /\ Refs(e) = {}
    BY EmptyEntry
  <2> HIDE DEF e
  <2> QED
    BY <1>1, <2>1, EntryOpened
<1> HIDE DEF y
<1>3. \A status : /\ MailDone(x, EM!SetStatus(s.x, ref, status), ref)
                  /\ MailDone(x, EM!SetStatus(y, ref, status), ref)
  BY <1>1, <1>2, MailStatus, MailInstead
<1>4. \E status : EM!FetchLeafObject(x, name, leaf, ref)
                  \in {EM!SetStatus(s.x, ref, status), EM!SetStatus(y, ref, status)}
  BY Zenon DEF EM!FetchLeafObject, EM!FetchSought, EM!FetchStored, y, e, w, s
<1> QED
  BY <1>3, <1>4

LEMMA AccountsListed ==
  ASSUME NEW x, IsMail(x), x.said = << >>, NEW ref
  PROVE  MailDone(x, EM!ListAccounts(x, ref), ref)
<1> DEFINE new == {k \in DOMAIN x.db.acc : \A n \in DOMAIN x.map : x.map[n] # EM!SetLuidById(k)}
           listed == [n \in {EM!ListName(k) : k \in new} |->
                        EM!SetLuidById(CHOOSE k \in new : EM!ListName(k) = n)]
           names == listed @@ x.map
           y == [x EXCEPT !.map = names]
<1>1. EM!ListAccounts(x, ref) = EM!SetStatus(y, ref, "EOk")
  BY DEF EM!ListAccounts
<1> HIDE DEF names
<1>2. IsMail(y) /\ Waits(y) = Waits(x) /\ y.said = << >>
  BY MailMapped
<1> HIDE DEF y
<1> QED
  BY <1>1, <1>2, MailStatus, MailInstead
-----------------------------------------------------------------------------
(* CompleteOutstandingCmdsL of the e-mail adapter. *)

\* One answer more, to a command that was not answered yet.
LEMMA OneMoreAnswer ==
  ASSUME NEW x, IsSeq(x.said), Again(x) = {}, NEW ref, ref \notin Answered(x), NEW status,
         NEW y, y.said = Append(x.said, [ref |-> ref, status |-> status])
  PROVE  IsSeq(y.said) /\ Again(y) = {} /\ Answered(y) = Answered(x) \cup {ref}
<1> DEFINE s == x.said
           a == [ref |-> ref, status |-> status]
           t == Append(s, a)
<1>1. Len(s) \in Nat /\ DOMAIN s = 1 .. Len(s)
  BY SeqDomain
<1>2. a.ref = ref /\ y.said = t
  OBVIOUS
<1>3. /\ IsSeq(t) /\ t[Len(s) + 1] = a
      /\ \A i \in DOMAIN s : t[i] = s[i]
      /\ DOMAIN t = DOMAIN s \cup {Len(s) + 1}
  BY SeqAppend
<1> HIDE DEF t, a
<1>4. Answered(y) = Answered(x) \cup {ref}
  BY <1>2, <1>3 DEF Answered
<1>5. ASSUME NEW j \in DOMAIN t, NEW k \in 1 .. j - 1, t[k].ref = t[j].ref
      PROVE  FALSE
  <2>1. k \in DOMAIN s /\ t[k] = s[k] /\ s[k].ref \in Answered(x)
    BY <1>1, <1>3, <1>5 DEF Answered
  <2>2. CASE j = Len(s) + 1
    BY <1>2, <1>3, <1>5, <2>1, <2>2
  <2>3. CASE j \in DOMAIN s
    <3>1. s[k].ref = s[j].ref
      BY <1>3, <1>5, <2>1, <2>3
    <3>2. s[j].ref \in Again(x)
      BY <2>3, <3>1 DEF Again
    <3> QED
      BY <3>2
  <2> QED
    BY <1>3, <2>2, <2>3
<1>6. Again(y) = {}
  BY <1>2, <1>5 DEF Again
<1> QED
  BY <1>2, <1>3, <1>4, <1>6

\* y comes from x by answers to the commands R, each of them once.
Saying(x) == IsMail(x) /\ IsSeq(x.said) /\ Again(x) = {}
Says(x, y, R) == Saying(y) /\ y.mem = x.mem /\ Answered(y) = Answered(x) \cup R

LEMMA AnswerAdded ==
  ASSUME NEW x, Saying(x), NEW ref, ref \notin Answered(x), NEW status
  PROVE  Says(x, EM!SetStatus(x, ref, status), {ref})
<1> DEFINE t == Append(x.said, [ref |-> ref, status |-> status])
           y == EM!SetStatus(x, ref, status)
<1>1. y = [mem |-> x.mem, db |-> x.db, map |-> x.map, said |-> t]
  <2>1. y = [x EXCEPT !.said = t]
    BY DEF EM!SetStatus
  <2> HIDE DEF t, y
  <2> QED
    BY <2>1 DEF Saying, IsMail, IsState
<1>2. y.mem = x.mem /\ y.db = x.db /\ y.said = t /\ IsState(y)
  BY <1>1 DEF IsState
<1> HIDE DEF y
<1>3. IsSeq(y.said) /\ Again(y) = {} /\ Answered(y) = Answered(x) \cup {ref}
  BY <1>2, OneMoreAnswer, ZenonT(60) DEF Saying
<1>4. IsMail(y)
  BY <1>2 DEF Saying, IsMail
<1> QED
  BY <1>2, <1>3, <1>4 DEF Says, Saying, y

LEMMA CommandAnswered ==
  ASSUME NEW x, Saying(x), NEW c, c.ref \notin Answered(x), NEW e, NEW r
  PROVE  Says(x, EM!AnswerCommand(x, c, e, r), {c.ref})
<1>1. \A status : Says(x, EM!SetStatus(x, c.ref, status), {c.ref})
  BY AnswerAdded
<1> DEFINE y == EM!SetStatus(x, c.ref, "EOk")
           names == EM!With(y.map, e.name, r.luid)
           z == [y EXCEPT !.map = names]
<1>2. Says(x, y, {c.ref})
  BY <1>1
<1>3. EM!SetMapping(y, e.name, r.luid) = z
  BY DEF EM!SetMapping
<1> HIDE DEF y, names
<1>4. IsMail(z) /\ z.said = y.said /\ z.mem = y.mem
  BY <1>2, MailMapped DEF Says, Saying
<1> HIDE DEF z
<1>7. Answered(z) = Answered(y) /\ Again(z) = Again(y) /\ IsSeq(z.said)
  BY <1>2, <1>4 DEF Says, Saying, Answered, Again
<1>5. Says(x, z, {c.ref})
  BY <1>2, <1>4, <1>7 DEF Says, Saying
<1>6. \/ \E status : EM!AnswerCommand(x, c, e, r) = EM!SetStatus(x, c.ref, status)
      \/ EM!AnswerCommand(x, c, e, r) = EM!SetMapping(y, e.name, r.luid)
  BY Zenon DEF EM!AnswerCommand, y
<1> QED
  BY <1>1, <1>3, <1>5, <1>6

LEMMA EntryAnswered ==
  ASSUME NEW e, IsEntry(e), NEW r, Saying(r.x), Refs(e) \cap Answered(r.x) = {}
  PROVE  Says(r.x, EM!AnswerEntry(e, r), Refs(e))
<1> DEFINE N == Len(e.cmds)
           F(g, n) == IF n = 0 THEN r.x ELSE EM!AnswerCommand(g[n - 1], e.cmds[n], e, r)
           Answers(m, g) == g = [n \in 0 .. m |-> F(g, n)]
           answered == CHOOSE g : Answers(N, g)
           R(n) == {e.cmds[j].ref : j \in 1 .. n}
           S == {m \in Nat : \E g : Answers(m, g)}
           T == {n \in 0 .. N : Says(r.x, answered[n], R(n))}
<1>0. N \in Nat /\ DOMAIN e.cmds = 1 .. N
  BY SeqDomain DEF IsEntry
<1> HIDE DEF N
<1>1. 0 \in S
  <2>1. Answers(0, [n \in 0 .. 0 |-> r.x])
    OBVIOUS
  <2> QED
    BY <2>1
<1>2. ASSUME NEW m \in Nat, m \in S
      PROVE  m + 1 \in S
  <2>1. PICK g : Answers(m, g)
    BY <1>2
  <2> DEFINE h == [n \in 0 .. m + 1 |-> IF n <= m THEN g[n] ELSE F(g, n)]
  <2>2. ASSUME NEW n \in 0 .. m + 1
        PROVE  h[n] = F(h, n)
    <3>1. n # 0 => n - 1 \in 0 .. m /\ h[n - 1] = g[n - 1]
      OBVIOUS
    <3>2. F(h, n) = F(g, n)
      <4> HIDE DEF h
      <4> QED
        BY <3>1
    <3>3. n <= m => g[n] = F(g, n)
      <4> HIDE DEF F
      <4> QED
        BY <2>1
    <3> QED
      BY <3>2, <3>3
  <2>3. Answers(m + 1, h)
    BY <2>2
  <2> HIDE DEF h, Answers
  <2> QED
    BY <2>3
<1>3. \E g : Answers(N, g)
  <2>1. 0 .. N \subseteq S
    <3> HIDE DEF S
    <3> QED
      BY <1>0, <1>1, <1>2, InductionUpTo DEF S
  <2> QED
    BY <1>0, <2>1
<1>4. Answers(N, answered)
  BY <1>3
<1>5. \A n \in 0 .. N : answered[n] = F(answered, n)
  <2> HIDE DEF F
  <2> QED
    BY <1>4
<1>6. EM!AnswerEntry(e, r) = answered[N]
  BY DEF EM!AnswerEntry, answered, N
<1> HIDE DEF answered
<1>7. 0 \in T
  <2>1. answered[0] = r.x /\ R(0) = {}
    BY <1>0, <1>5
  <2> QED
    BY <1>0, <2>1 DEF Says
<1>8. ASSUME NEW n \in 0 .. N - 1, n \in T
      PROVE  n + 1 \in T
  <2> DEFINE c == e.cmds[n + 1]
  <2>1. n + 1 \in 0 .. N /\ n + 1 \in DOMAIN e.cmds /\ (n + 1) - 1 = n /\ n + 1 # 0
    BY <1>0
  <2>2. answered[n + 1] = EM!AnswerCommand(answered[n], c, e, r)
    BY <1>5, <2>1
  <2>3. R(n + 1) = R(n) \cup {c.ref}
    BY <1>0
  <2>4. c.ref \notin R(n)
    <3>1. ASSUME NEW j \in 1 .. n, e.cmds[j].ref = c.ref
          PROVE  FALSE
      <4>1. j \in DOMAIN e.cmds /\ j # n + 1
        BY <1>0
      <4> QED
        BY <2>1, <3>1, <4>1 DEF IsEntry
    <3> QED
      BY <3>1
  <2>5. c.ref \in Refs(e)
    BY <2>1 DEF Refs
  <2> HIDE DEF c, R
  <2>6. Says(r.x, answered[n], R(n))
    BY <1>8
  <2>7. c.ref \notin Answered(answered[n]) /\ Saying(answered[n])
    BY <2>4, <2>5, <2>6 DEF Says
  <2>8. Says(answered[n], EM!AnswerCommand(answered[n], c, e, r), {c.ref})
    BY <2>7, CommandAnswered
  <2>9. Says(r.x, answered[n + 1], R(n + 1))
    BY <2>2, <2>3, <2>6, <2>8 DEF Says
  <2> QED
    BY <2>1, <2>9
<1>9. 0 .. N \subseteq T
  <2>1. T \in SUBSET Nat
    OBVIOUS
  <2> HIDE DEF T
  <2> QED
    BY <1>0, <1>7, <1>8, <2>1, InductionUpTo
<1>10. R(N) = Refs(e)
  BY <1>0 DEF Refs
<1> HIDE DEF R
<1>11. Says(r.x, answered[N], R(N))
  BY <1>0, <1>9
<1> QED
  BY <1>6, <1>10, <1>11

\* Saving the settings of an entry, or creating its mailbox, answers nothing.
LEMMA EntryStored ==
  ASSUME NEW x, IsMail(x), NEW e, NEW phone
  PROVE  LET r == EM!ValidateAndStoreSettings(x, e, phone)
         IN  IsMail(r.x) /\ r.x.mem = x.mem /\ r.x.said = x.said
<1> DEFINE r == EM!ValidateAndStoreSettings(x, e, phone)
           Fine(y) == IsMail(y) /\ y.mem = x.mem /\ y.said = x.said
<1>1. ASSUME NEW k
      PROVE  Fine(EM!SaveSettings(x, e, k).x)
  <2> DEFINE acc == [x.db.acc EXCEPT ![k] = e.work]
             d == [x.db EXCEPT !.acc = acc]
             y == [x EXCEPT !.db = d]
  <2>1. DOMAIN acc = DOMAIN x.db.acc
    OBVIOUS
  <2>2. DOMAIN d = DOMAIN x.db /\ d.acc = acc /\ d.default = x.db.default
    BY DEF IsMail, MailDb
  <2>3. [x EXCEPT !.db.acc[k] = e.work] = y
    OBVIOUS
  <2> HIDE DEF acc, d
  <2>4. MailDb(d)
    BY <2>1, <2>2 DEF IsMail, MailDb
  <2>5. Fine(y)
    BY <2>4, MailStored
  <2> HIDE DEF y
  <2>6. Fine(x)
    OBVIOUS
  <2> HIDE DEF Fine
  <2>7. EM!SaveSettings(x, e, k).x \in {x, [x EXCEPT !.db.acc[k] = e.work]}
    BY DEF EM!SaveSettings
  <2> QED
    BY <2>3, <2>5, <2>6, <2>7
<1>2. ASSUME EM!FreeId(x) # {}
      PROVE  Fine(EM!CreateAccount(x, e, <<e.work.type, EM!Min(EM!FreeId(x))>>).x)
  <2> DEFINE k == <<e.work.type, EM!Min(EM!FreeId(x))>>
             d == EM!Created(EM!With(x.db.acc, k, e.work), k, x.db.default)
             y == [x EXCEPT !.db = d]
  <2>1. EM!FreeId(x) \in SUBSET Nat
    BY MailIdsAssumption DEF EM!FreeId
  <2>2. \E n \in EM!FreeId(x) : \A i \in EM!FreeId(x) : n <= i
    BY <1>2, <2>1, LeastNumber
  <2>3. EM!Min(EM!FreeId(x)) \in EM!FreeId(x)
    BY <2>2 DEF EM!Min
  <2>4. k[2] \in Nat
    BY <2>1, <2>3
  <2> HIDE DEF k
  <2>5. EM!CreateAccount(x, e, k).x = y
    BY DEF EM!CreateAccount
  <2>6. MailDb(d)
    BY <2>4, MailboxCreated DEF IsMail
  <2> HIDE DEF d
  <2>7. Fine(y)
    BY <2>6, MailStored
  <2> HIDE DEF y, Fine
  <2>8. Fine(EM!CreateAccount(x, e, k).x)
    BY <2>5, <2>7
  <2> QED
    BY <2>8 DEF k
<1>3. Fine(x)
  OBVIOUS
<1> HIDE DEF Fine
<1>4. Fine(r.x)
  <2>1. \A ok, luid : [ok |-> ok, luid |-> luid, x |-> x].x = x
    OBVIOUS
  <2>2. \/ \E ok, luid : r = [ok |-> ok, luid |-> luid, x |-> x]
        \/ \E k : r = EM!SaveSettings(x, e, k)
        \/ /\ EM!FreeId(x) # {}
           /\ r = EM!CreateAccount(x, e, <<e.work.type, EM!Min(EM!FreeId(x))>>)
    BY Zenon DEF EM!ValidateAndStoreSettings
  <2> HIDE DEF r
  <2> QED
    BY <1>1, <1>2, <1>3, <2>1, <2>2
<1> QED
  BY <1>4 DEF Fine
LEMMA EntryCompleted ==
  ASSUME NEW x, Saying(x), NEW e, IsEntry(e), Refs(e) \cap Answered(x) = {}, NEW phone
  PROVE  Says(x, EM!CompleteEntry(x, e, phone), Refs(e))
<1> DEFINE f == EM!Check(e)
           r == EM!ValidateAndStoreSettings(x, f, phone)
<1>1. IsEntry(f) /\ Refs(f) = Refs(e)
  BY AllChecked, SameEntry
<1> HIDE DEF f
<1>2. IsMail(r.x) /\ r.x.mem = x.mem /\ r.x.said = x.said
  BY EntryStored DEF Saying
<1> HIDE DEF r
<1>3. Answered(r.x) = Answered(x) /\ Again(r.x) = Again(x)
  BY <1>2 DEF Answered, Again
<1>4. Says(r.x, EM!AnswerEntry(f, r), Refs(f))
  BY <1>1, <1>2, <1>3, EntryAnswered DEF Saying
<1>5. Says(x, EM!AnswerEntry(f, r), Refs(e))
  BY <1>1, <1>2, <1>3, <1>4 DEF Says
<1> QED
  BY <1>5 DEF EM!CompleteEntry, EM!CompleteChecked, r, f

\* Every command that waits is answered, once, and none waits any longer.
LEMMA AllCompleted ==
  ASSUME NEW x, IsMail(x), x.said = << >>, NEW phone
  PROVE  LET y == EM!CompleteOutstandingCmds(x, phone)
         IN  IsMail(y) /\ Waits(y) = {} /\ Answered(y) = Waits(x) /\ Again(y) = {}
<1> DEFINE b == x.mem.buffer
           N == Len(b)
           F(g, n) == IF n = 0 THEN x ELSE EM!CompleteEntry(g[n - 1], b[n], phone)
           Completes(m, g) == g = [n \in 0 .. m |-> F(g, n)]
           completed == CHOOSE g : Completes(N, g)
           R(n) == UNION {Refs(b[i]) : i \in 1 .. n}
           S == {m \in Nat : \E g : Completes(m, g)}
           T == {n \in 0 .. N : Says(x, completed[n], R(n))}
<1>0. N \in Nat /\ DOMAIN b = 1 .. N /\ IsBuffer(b)
  BY SeqDomain DEF IsMail, MailMem, IsBuffer
<1>00. EM!CompleteOutstandingCmds(x, phone) = [completed[N] EXCEPT !.mem.buffer = << >>]
  BY DEF EM!CompleteOutstandingCmds
<1> HIDE DEF N
<1>1. 0 \in S
  <2>1. Completes(0, [n \in 0 .. 0 |-> x])
    OBVIOUS
  <2> QED
    BY <2>1
<1>2. ASSUME NEW m \in Nat, m \in S
      PROVE  m + 1 \in S
  <2>1. PICK g : Completes(m, g)
    BY <1>2
  <2> DEFINE h == [n \in 0 .. m + 1 |-> IF n <= m THEN g[n] ELSE F(g, n)]
  <2>2. ASSUME NEW n \in 0 .. m + 1
        PROVE  h[n] = F(h, n)
    <3>1. n # 0 => n - 1 \in 0 .. m /\ h[n - 1] = g[n - 1]
      OBVIOUS
    <3>2. F(h, n) = F(g, n)
      <4> HIDE DEF h
      <4> QED
        BY <3>1
    <3>3. n <= m => g[n] = F(g, n)
      <4> HIDE DEF F
      <4> QED
        BY <2>1
    <3> QED
      BY <3>2, <3>3
  <2>3. Completes(m + 1, h)
    BY <2>2
  <2> HIDE DEF h, Completes
  <2> QED
    BY <2>3
<1>3. \E g : Completes(N, g)
  <2>1. 0 .. N \subseteq S
    <3> HIDE DEF S
    <3> QED
      BY <1>0, <1>1, <1>2, InductionUpTo DEF S
  <2> QED
    BY <1>0, <2>1
<1>4. Completes(N, completed)
  BY <1>3
<1>5. \A n \in 0 .. N : completed[n] = F(completed, n)
  <2> HIDE DEF F
  <2> QED
    BY <1>4
<1> HIDE DEF completed
<1>6. Saying(x) /\ Answered(x) = {}
  <2>1. << >> \in Seq({}) /\ DOMAIN << >> = {}
    OBVIOUS
  <2> QED
    BY <2>1 DEF Saying, Answered, Again, IsSeq
<1>7. 0 \in T
  <2>1. completed[0] = x /\ R(0) = {}
    BY <1>0, <1>5
  <2> QED
    BY <1>0, <1>6, <2>1 DEF Says
<1>8. ASSUME NEW n \in 0 .. N - 1, n \in T
      PROVE  n + 1 \in T
  <2> DEFINE e == b[n + 1]
  <2>1. n + 1 \in 0 .. N /\ n + 1 \in DOMAIN b /\ (n + 1) - 1 = n /\ n + 1 # 0
    BY <1>0
  <2>2. completed[n + 1] = EM!CompleteEntry(completed[n], e, phone)
    BY <1>5, <2>1
  <2>3. R(n + 1) = R(n) \cup Refs(e)
    <3>1. 1 .. n + 1 = (1 .. n) \cup {n + 1}
      BY <1>0
    <3> QED
      BY <3>1
  <2>4. Refs(e) \cap R(n) = {}
    <3>1. ASSUME NEW i \in 1 .. n
          PROVE  Refs(b[i]) \cap Refs(e) = {}
      <4>1. i \in DOMAIN b /\ i # n + 1
        BY <1>0
      <4> QED
        BY <1>0, <2>1, <4>1 DEF IsBuffer
    <3> QED
      BY <3>1
  <2>5. IsEntry(e)
    BY <1>0, <2>1 DEF IsBuffer
  <2> HIDE DEF e, R
  <2>6. Says(x, completed[n], R(n))
    BY <1>8
  <2>7. Refs(e) \cap Answered(completed[n]) = {} /\ Saying(completed[n])
    BY <1>6, <2>4, <2>6 DEF Says
  <2>8. Says(completed[n], EM!CompleteEntry(completed[n], e, phone), Refs(e))
    BY <2>5, <2>7, EntryCompleted
  <2>9. Says(x, completed[n + 1], R(n + 1))
    BY <2>2, <2>3, <2>6, <2>8 DEF Says
  <2> QED
    BY <2>1, <2>9
<1>9. 0 .. N \subseteq T
  <2>1. T \in SUBSET Nat
    OBVIOUS
  <2> HIDE DEF T
  <2> QED
    BY <1>0, <1>7, <1>8, <2>1, InductionUpTo
<1>10. R(N) = Waits(x)
  BY <1>0 DEF Waits, Pending
<1> HIDE DEF R
<1>11. Says(x, completed[N], R(N))
  BY <1>0, <1>9
<1> DEFINE z == completed[N]
           y == [z EXCEPT !.mem.buffer = << >>]
<1>12. IsMail(z) /\ Answered(z) = Waits(x) /\ Again(z) = {}
  BY <1>6, <1>10, <1>11 DEF Says, Saying
<1> HIDE DEF z
<1>13. IsBuffer(<< >>) /\ Pending(<< >>) = {} /\ AddsOrWrites(<< >>)
  BY NothingBuffered
<1>14. IsMail(y) /\ y.mem.buffer = << >> /\ y.said = z.said
  BY <1>12, <1>13, MailBuffered
<1> HIDE DEF y
<1>15. Waits(y) = {} /\ Answered(y) = Waits(x) /\ Again(y) = {}
  <2>1. Answered(y) = Answered(z) /\ Again(y) = Again(z)
    BY <1>14 DEF Answered, Again
  <2>2. Waits(y) = {}
    BY <1>13, <1>14 DEF Waits
  <2> QED
    BY <1>12, <2>1, <2>2
<1> QED
  BY <1>00, <1>14, <1>15 DEF y, z

-----------------------------------------------------------------------------
(* The e-mail adapter with the engine. *)

MailInv ==
  /\ adapter = "EM"
  /\ MailMem(mem) /\ MailDb(db)
  /\ open = Pending(mem.buffer) /\ wrong = {}

LEMMA MailX ==
  ASSUME MailInv
  PROVE  /\ IsMail(EM!X) /\ EM!X.said = << >> /\ Waits(EM!X) = open
         /\ \A r \in open : r.op \in {"node", "leaf"}
<1>1. EM!X = [mem |-> mem, db |-> db, map |-> map, said |-> << >>]
  BY DEF EM!X
<1> DEFINE x == EM!X
<1>2. x.mem = mem /\ x.db = db /\ x.said = << >> /\ IsState(x)
  BY <1>1 DEF IsState
<1> HIDE DEF x
<1>3. IsMail(x) /\ Waits(x) = open
  BY <1>2 DEF MailInv, IsMail, Waits
<1>4. \A r \in Pending(mem.buffer) : r.op \in {"node", "leaf"}
  BY DEF MailInv, MailMem, AddsOrWrites
<1> QED
  BY <1>2, <1>3, <1>4 DEF x, MailInv

LEMMA MailServes ==
  ASSUME MailInv, UNCHANGED adapter, NEW ref, ref \notin open, NEW y,
         MailDone(EM!X, y, ref), EM!Serve({ref}, y)
  PROVE  MailInv'
<1>1. Called({ref}, y)
  BY DEF EM!Serve, Called, Answered, Again
<1>2. IsMail(y)
  BY DEF MailDone
<1>3. CASE Waits(y) = open /\ Replied(y, ref)
  <2>1. mem' = y.mem /\ db' = y.db /\ open' = open /\ wrong' = wrong
    BY <1>1, <1>3, CalledFor
  <2> QED
    BY <1>2, <1>3, <2>1 DEF MailInv, IsMail, Waits
<1>4. CASE Waits(y) = open \cup {ref} /\ y.said = << >>
  <2>1. mem' = y.mem /\ db' = y.db /\ open' = open \cup {ref} /\ wrong' = wrong
    BY <1>1, <1>4, CalledSilently
  <2> QED
    BY <1>2, <1>4, <2>1 DEF MailInv, IsMail, Waits
<1> QED
  BY <1>3, <1>4, MailX DEF MailDone

LEMMA MailInitial ==
  ASSUME adapter = "EM", EM!Init
  PROVE  MailInv
<1>1. /\ mem = [buffer |-> << >>] /\ open = {} /\ wrong = {}
      /\ db = [acc |-> << >>, default |-> EM!NoKey, last |-> 0]
  BY DEF EM!Init, EM!DmInit, EM!NewMem
<1>2. << >> \in Seq({}) /\ DOMAIN << >> = {}
  OBVIOUS
<1>3. IsBuffer(<< >>) /\ Pending(<< >>) = {} /\ AddsOrWrites(<< >>)
  BY NothingBuffered
<1>4. MailDb(db)
  BY <1>1, <1>2 DEF MailDb
<1> QED
  BY <1>1, <1>3, <1>4 DEF MailInv, MailMem

LEMMA MailStep ==
  ASSUME MailInv, UNCHANGED adapter, EM!Next
  PROVE  MailInv'
<1>1. IsMail(EM!X) /\ EM!X.said = << >> /\ Waits(EM!X) = open
  BY MailX
<1>2. EM!Now \notin open /\ \A names : EM!DeleteRef(names) \notin open
  <2>1. EM!Now.op = "now" /\ \A names : EM!DeleteRef(names).op = "delete"
    BY DEF EM!Now, EM!DeleteRef
  <2> QED
    BY <2>1, MailX
<1>3. ASSUME NEW y, MailDone(EM!X, y, EM!Now), EM!Serve({EM!Now}, y)
      PROVE  MailInv'
  BY <1>2, <1>3, MailServes
<1>4. CASE EM!AddNode
  <2>1. PICK name \in MailNames, full \in BOOLEAN :
          /\ EM!NodeRef(name) \notin open
          /\ EM!Serve({EM!NodeRef(name)}, EM!AddNodeObject(EM!X, name, EM!NodeRef(name), full))
    BY <1>4 DEF EM!AddNode
  <2> DEFINE ref == EM!NodeRef(name)
  <2>2. ref.op = "node"
    BY DEF EM!NodeRef
  <2>3. ref \notin open /\ EM!Serve({ref}, EM!AddNodeObject(EM!X, name, ref, full))
    BY <2>1
  <2> HIDE DEF ref
  <2>4. MailDone(EM!X, EM!AddNodeObject(EM!X, name, ref, full), ref)
    BY <1>1, <2>2, <2>3, NodeAdded DEF MailAsked
  <2> QED
    BY <2>3, <2>4, MailServes
<1>5. CASE EM!UpdateLeaf
  <2>1. PICK name \in EM!AllNames, leaf \in MailLeaves : \E obj \in MailObjects[leaf] :
          LET ref == EM!LeafRef(name, leaf, obj.text)
          IN  /\ \A r \in open : r.op = "leaf" => <<r.name, r.leaf>> # <<name, leaf>>
              /\ EM!Serve({ref}, EM!UpdateLeafObject(EM!X, name, leaf, obj, ref))
    BY <1>5 DEF EM!UpdateLeaf
  <2>2. PICK obj \in MailObjects[leaf] :
          LET ref == EM!LeafRef(name, leaf, obj.text)
          IN  /\ \A r \in open : r.op = "leaf" => <<r.name, r.leaf>> # <<name, leaf>>
              /\ EM!Serve({ref}, EM!UpdateLeafObject(EM!X, name, leaf, obj, ref))
    BY <2>1
  <2> DEFINE ref == EM!LeafRef(name, leaf, obj.text)
  <2>3. ref.op = "leaf" /\ ref.name = name /\ ref.leaf = leaf
    BY DEF EM!LeafRef
  <2>4. /\ \A r \in open : r.op = "leaf" => <<r.name, r.leaf>> # <<name, leaf>>
        /\ EM!Serve({ref}, EM!UpdateLeafObject(EM!X, name, leaf, obj, ref))
    BY <2>2
  <2> HIDE DEF ref
  <2>5. ref \notin open
    BY <2>3, <2>4
  <2>6. MailDone(EM!X, EM!UpdateLeafObject(EM!X, name, leaf, obj, ref), ref)
    BY <1>1, <2>3, <2>5, LeafUpdated DEF MailAsked
  <2> QED
    BY <2>4, <2>5, <2>6, MailServes
<1>6. CASE EM!Delete
  <2>1. \A status : MailDone(EM!X, EM!SetStatus(EM!X, EM!Now, status), EM!Now)
    BY <1>1, MailStatus
  <2>2. ASSUME NEW name, NEW ref, ref = EM!DeleteRef({name}),
               EM!Serve({ref}, EM!DeleteNode(EM!X, name, ref))
        PROVE  MailInv'
    BY <1>1, <1>2, <2>2, NodeDeleted, MailServes
  <2>3. \/ \E name, ref : ref = EM!DeleteRef({name}) /\ EM!Serve({ref}, EM!DeleteNode(EM!X, name, ref))
        \/ EM!Serve({EM!Now}, EM!SetStatus(EM!X, EM!Now, "EError"))
    BY <1>6, Zenon DEF EM!Delete, EM!DeleteLeaf
  <2> QED
    BY <1>3, <2>1, <2>2, <2>3
<1>7. CASE EM!Fetch \/ EM!FetchPredefined \/ EM!List \/ EM!Other
  <2>1. \A status : MailDone(EM!X, EM!SetStatus(EM!X, EM!Now, status), EM!Now)
    BY <1>1, MailStatus
  <2>2. \A name, leaf : MailDone(EM!X, EM!FetchLeafObject(EM!X, name, leaf, EM!Now), EM!Now)
    BY <1>1, LeafFetched
  <2>3. MailDone(EM!X, EM!ListAccounts(EM!X, EM!Now), EM!Now)
    BY <1>1, AccountsListed
  <2>4. \/ \E status : EM!Serve({EM!Now}, EM!SetStatus(EM!X, EM!Now, status))
        \/ \E name, leaf : EM!Serve({EM!Now}, EM!FetchLeafObject(EM!X, name, leaf, EM!Now))
        \/ EM!Serve({EM!Now}, EM!ListAccounts(EM!X, EM!Now))
    BY <1>7, Zenon DEF EM!Fetch, EM!FetchPredefined, EM!List, EM!Other, EM!FetchLeafObjectSize,
         EM!ListAccount, EM!ExecuteCommand
  <2> QED
    BY <1>3, <2>1, <2>2, <2>3, <2>4
<1>8. CASE EM!Complete
  <2>1. PICK phone \in BOOLEAN : EM!Serve({}, EM!CompleteOutstandingCmds(EM!X, phone))
    BY <1>8 DEF EM!Complete
  <2> DEFINE y == EM!CompleteOutstandingCmds(EM!X, phone)
  <2>2. IsMail(y) /\ Waits(y) = {} /\ Answered(y) = open /\ Again(y) = {}
    BY <1>1, AllCompleted
  <2>3. Called({}, y)
    BY <2>1 DEF EM!Serve, Called, Answered, Again
  <2> HIDE DEF y
  <2>4. mem' = y.mem /\ db' = y.db /\ open' = {} /\ wrong' = wrong
    BY <2>2, <2>3 DEF Called
  <2> QED
    BY <2>2, <2>4 DEF MailInv, IsMail, Waits
<1>9. CASE EM!EndSession
  <2> DEFINE y == IF EM!Panics(EM!X) THEN EM!X ELSE EM!CompleteOutstandingCmds(EM!X, TRUE)
  <2>1. mem' = [buffer |-> << >>] /\ db' = y.db /\ open' = {} /\ wrong' = wrong
    BY <1>9 DEF EM!EndSession, EM!EndWith, EM!NewMem
  <2>2. MailDb(y.db)
    BY <1>1, AllCompleted DEF IsMail
  <2> HIDE DEF y
  <2>4. IsBuffer(<< >>) /\ Pending(<< >>) = {} /\ AddsOrWrites(<< >>)
    BY NothingBuffered
  <2> QED
    BY <2>1, <2>2, <2>4 DEF MailInv, MailMem
<1>10. CASE EM!UserDeletes
  <2> DEFINE acc(k) == EM!Without(db.acc, {k})
  <2>1. PICK k \in DOMAIN db.acc :
          /\ \E default \in (IF acc(k) = << >> THEN {EM!NoKey}
                             ELSE IF db.default = k THEN DOMAIN acc(k) ELSE {db.default}) :
                db' = [db EXCEPT !.acc = acc(k), !.default = default]
          /\ UNCHANGED <<mem, open, wrong>>
    BY <1>10 DEF EM!UserDeletes, EM!Elsewhere
  <2>2. PICK default \in (IF acc(k) = << >> THEN {EM!NoKey}
                          ELSE IF db.default = k THEN DOMAIN acc(k) ELSE {db.default}) :
          db' = [db EXCEPT !.acc = acc(k), !.default = default]
    BY <2>1
  <2>3. DOMAIN acc(k) = DOMAIN db.acc \ {k}
    BY DEF EM!Without
  <2> HIDE DEF acc
  <2>4. MailDb(db)
    BY DEF MailInv
  <2>5. DOMAIN db' = DOMAIN db /\ db'.acc = acc(k) /\ db'.default = default
    BY <2>2, <2>4 DEF MailDb
  <2>6. ASSUME DOMAIN acc(k) # {}
        PROVE  default \in DOMAIN acc(k)
    <3>1. DOMAIN << >> = {} 
      OBVIOUS
    <3>2. acc(k) # << >>
      BY <2>6, <3>1
    <3> QED
      BY <2>2, <2>3, <2>4, <3>2 DEF MailDb
  <2>7. MailDb(db')
    BY <2>3, <2>4, <2>5, <2>6 DEF MailDb
  <2> QED
    BY <2>1, <2>7 DEF MailInv
<1> QED
  BY <1>4, <1>5, <1>6, <1>7, <1>8, <1>9, <1>10 DEF EM!Next

-----------------------------------------------------------------------------
(* Destinations: what is stored meanwhile leaves the commands that wait alone. *)

BmMem(m) == "buffer" \in DOMAIN m /\ IsBuffer(m.buffer) /\ BM!Now \notin Pending(m.buffer)
IsBm(x) == IsState(x) /\ BmMem(x.mem)
BmWaits(x) == Pending(x.mem.buffer)

\* The commands of the buffer c are those of b.
SameBuffer(b, c) ==
  /\ IsSeq(c) /\ DOMAIN c = DOMAIN b /\ Len(c) = Len(b)
  /\ \A i \in DOMAIN c : SameCmds(b[i], c[i])

\* In y the same commands wait as in x, and the same are answered.
Keeps(x, y) == IsBm(y) /\ y.said = x.said /\ SameBuffer(x.mem.buffer, y.mem.buffer)

LEMMA BufferKept ==
  ASSUME NEW b, IsBuffer(b), NEW c, SameBuffer(b, c)
  PROVE  IsBuffer(c) /\ Pending(c) = Pending(b)
<1>1. \A i \in DOMAIN b : IsEntry(c[i]) /\ Refs(c[i]) = Refs(b[i])
  BY SameEntry DEF SameBuffer, IsBuffer
<1> QED
  BY <1>1 DEF SameBuffer, IsBuffer, Pending

LEMMA SameBufferReflexive ==
  ASSUME NEW b, IsBuffer(b)
  PROVE  SameBuffer(b, b)
BY SameCmdsReflexive DEF SameBuffer, IsBuffer

LEMMA KeepsReflexive ==
  ASSUME NEW x, IsBm(x)
  PROVE  Keeps(x, x)
BY SameBufferReflexive DEF Keeps, IsBm, BmMem

LEMMA KeepsTransitive ==
  ASSUME NEW x, NEW y, NEW z, Keeps(x, y), Keeps(y, z)
  PROVE  Keeps(x, z)
<1>1. SameBuffer(x.mem.buffer, z.mem.buffer)
  BY SameCmdsTransitive DEF Keeps, SameBuffer
<1> QED
  BY <1>1 DEF Keeps

LEMMA KeptWaits ==
  ASSUME NEW x, IsBm(x), NEW y, Keeps(x, y)
  PROVE  BmWaits(y) = BmWaits(x)
BY BufferKept DEF Keeps, IsBm, BmMem, BmWaits

\* The settings and the mapping may be what they will.
LEMMA SettingsChanged ==
  ASSUME NEW x, IsBm(x), NEW d, NEW names
  PROVE  /\ Keeps(x, [x EXCEPT !.db = d]) /\ [x EXCEPT !.db = d].mem = x.mem
         /\ Keeps(x, [x EXCEPT !.map = names]) /\ [x EXCEPT !.map = names].mem = x.mem
<1>1. ASSUME NEW y, IsState(y), y.mem = x.mem, y.said = x.said
      PROVE  Keeps(x, y)
  BY <1>1, SameBufferReflexive DEF Keeps, IsBm, BmMem
<1> DEFINE y == [x EXCEPT !.db = d]
           z == [x EXCEPT !.map = names]
<1>2. /\ y = [mem |-> x.mem, db |-> d, map |-> x.map, said |-> x.said]
      /\ z = [mem |-> x.mem, db |-> x.db, map |-> names, said |-> x.said]
  BY DEF IsBm, IsState
<1>3. /\ y.mem = x.mem /\ y.said = x.said /\ IsState(y)
      /\ z.mem = x.mem /\ z.said = x.said /\ IsState(z)
  BY <1>2 DEF IsState
<1> HIDE DEF y, z
<1>4. Keeps(x, y) /\ Keeps(x, z)
  BY <1>1, <1>3
<1> QED
  BY <1>3, <1>4 DEF y, z

LEMMA BmBuffered ==
  ASSUME NEW x, IsBm(x), NEW b, IsBuffer(b), BM!Now \notin Pending(b)
  PROVE  LET y == [x EXCEPT !.mem.buffer = b]
         IN  IsBm(y) /\ y.mem.buffer = b /\ y.said = x.said /\ y.db = x.db /\ y.map = x.map
<1> DEFINE m == [x.mem EXCEPT !.buffer = b]
           y == [x EXCEPT !.mem.buffer = b]
<1>1. y = [mem |-> m, db |-> x.db, map |-> x.map, said |-> x.said]
  BY DEF IsBm, IsState
<1>2. "buffer" \in DOMAIN m /\ m.buffer = b
  BY DEF IsBm, BmMem
<1> HIDE DEF m
<1>3. y.mem = m /\ y.db = x.db /\ y.said = x.said /\ y.map = x.map /\ IsState(y)
  BY <1>1 DEF IsState
<1> HIDE DEF y
<1>4. IsBm(y) /\ y.mem.buffer = b
  BY <1>2, <1>3 DEF IsBm, BmMem
<1> QED
  BY <1>3, <1>4 DEF y

\* An entry may change, but for the commands that wait in it.
LEMMA EntryKept ==
  ASSUME NEW x, IsBm(x), NEW i, NEW f, i \in DOMAIN x.mem.buffer => SameCmds(x.mem.buffer[i], f)
  PROVE  Keeps(x, [x EXCEPT !.mem.buffer[i] = f])
<1> DEFINE b == x.mem.buffer
           c == [b EXCEPT ![i] = f]
           y == [x EXCEPT !.mem.buffer = c]
<1>1. [x EXCEPT !.mem.buffer[i] = f] = y
  OBVIOUS
<1>2. /\ IsSeq(c) /\ DOMAIN c = DOMAIN b /\ Len(c) = Len(b)
      /\ i \in DOMAIN b => c[i] = f
      /\ \A j \in DOMAIN b \ {i} : c[j] = b[j]
  BY SeqExcept DEF IsBm, BmMem, IsBuffer
<1> HIDE DEF c
<1>3. SameBuffer(b, c)
  <2>1. \A j \in DOMAIN b : SameCmds(b[j], b[j])
    BY SameCmdsReflexive DEF IsBm, BmMem, IsBuffer
  <2> QED
    BY <1>2, <2>1 DEF SameBuffer
<1>4. IsBuffer(c) /\ BM!Now \notin Pending(c)
  BY <1>3, BufferKept DEF IsBm, BmMem
<1>5. IsBm(y) /\ y.mem.buffer = c /\ y.said = x.said
  BY <1>4, BmBuffered
<1> HIDE DEF y
<1>6. Keeps(x, y)
  BY <1>3, <1>5 DEF Keeps
<1> QED
  BY <1>1, <1>6

LEMMA CommandMarked ==
  ASSUME NEW x, IsBm(x), NEW i, NEW j, NEW status, NEW executed
  PROVE  Keeps(x, BM!Mark(x, i, j, status, executed))
<1> DEFINE e == x.mem.buffer[i]
           c == [e.cmds[j] EXCEPT !.status = status, !.executed = executed]
           t == [e.cmds EXCEPT ![j] = c]
           f == [e EXCEPT !.cmds = t]
<1>1. BM!Mark(x, i, j, status, executed) = [x EXCEPT !.mem.buffer[i] = f]
  BY DEF BM!Mark
<1>2. ASSUME i \in DOMAIN x.mem.buffer
      PROVE  SameCmds(e, f)
  <2>1. IsEntry(e)
    BY <1>2 DEF IsBm, BmMem, IsBuffer
  <2> HIDE DEF e
  <2>2. "cmds" \in DOMAIN f /\ f.cmds = t
    BY <2>1 DEF IsEntry
  <2>3. j \in DOMAIN e.cmds => IsCmd(c) /\ c.ref = e.cmds[j].ref
    BY <2>1 DEF IsEntry, IsCmd
  <2> HIDE DEF c
  <2>4. /\ IsSeq(t) /\ DOMAIN t = DOMAIN e.cmds /\ Len(t) = Len(e.cmds)
        /\ j \in DOMAIN e.cmds => t[j] = c
        /\ \A k \in DOMAIN e.cmds \ {j} : t[k] = e.cmds[k]
    BY <2>1, SeqExcept DEF IsEntry
  <2> HIDE DEF t, f
  <2>5. \A k \in DOMAIN t : IsCmd(t[k]) /\ t[k].ref = e.cmds[k].ref
    BY <2>1, <2>3, <2>4 DEF IsEntry
  <2> QED
    BY <2>2, <2>4, <2>5 DEF SameCmds
<1> HIDE DEF e, f
<1>3. Keeps(x, [x EXCEPT !.mem.buffer[i] = f])
  BY <1>2, EntryKept DEF e
<1> QED
  BY <1>1, <1>3
\* A command changes the settings of the device, or nothing.
Executed(x, r) == r.x = x \/ \E d : r.x = [x EXCEPT !.db = d]

LEMMA DoneOrLeft ==
  ASSUME NEW x
  PROVE  /\ \A status, executed : Executed(x, BM!Done(x, status, executed))
         /\ \A why : Executed(x, BM!Left(x, why))
         /\ \A d, status, executed : Executed(x, BM!Done([x EXCEPT !.db = d], status, executed))
BY DEF Executed, BM!Done, BM!Left

LEMMA FieldExecuted ==
  ASSUME NEW x, NEW id, NEW cmd, NEW bad
  PROVE  Executed(x, BM!ExecuteField(x, id, cmd, bad))
<1> DEFINE d == [x.db EXCEPT ![id][cmd.leaf] = cmd.obj.text]
<1>1. [x EXCEPT !.db[id][cmd.leaf] = cmd.obj.text] = [x EXCEPT !.db = d]
  OBVIOUS
<1> HIDE DEF d
<1>2. Executed(x, BM!SetField(x, id, cmd.leaf, cmd.obj, bad))
  BY <1>1, DoneOrLeft DEF BM!SetField
<1> QED
  BY <1>2, DoneOrLeft DEF BM!ExecuteField

LEMMA LeafExecuted ==
  ASSUME NEW x, NEW id, NEW cmd
  PROVE  Executed(x, BM!ExecuteLeafCmd(x, id, cmd))
<1>1. Executed(x, BM!ExecuteNameCmd(x, id, cmd))
  <2> DEFINE d == [x.db EXCEPT ![id].name = cmd.obj.text]
  <2>1. [x EXCEPT !.db[id].name = cmd.obj.text] = [x EXCEPT !.db = d]
    OBVIOUS
  <2> HIDE DEF d
  <2> QED
    BY <2>1, DoneOrLeft DEF BM!ExecuteNameCmd
<1>2. Executed(x, BM!ExecuteIapsCmd(x, id, cmd))
  <2> DEFINE d == [x.db EXCEPT ![id].aps = cmd.obj.aps]
  <2>1. [x EXCEPT !.db[id].aps = cmd.obj.aps] = [x EXCEPT !.db = d]
    OBVIOUS
  <2> HIDE DEF d
  <2>2. Executed(x, BM!SetIaps(x, id, cmd.obj))
    BY <2>1, DoneOrLeft DEF BM!SetIaps
  <2> QED
    BY <2>2, DoneOrLeft DEF BM!ExecuteIapsCmd
<1>3. Executed(x, BM!Embed(x, id, cmd.obj))
  <2>1. ASSUME NEW other
        PROVE  Executed(x, BM!EmbedOther(x, id, other))
    <3> DEFINE d == [x.db EXCEPT ![id].embedded = other]
    <3>1. [x EXCEPT !.db[id].embedded = other] = [x EXCEPT !.db = d]
      OBVIOUS
    <3> HIDE DEF d
    <3> QED
      BY <3>1, DoneOrLeft DEF BM!EmbedOther
  <2> QED
    BY <2>1, Zenon DEF BM!Embed
<1>4. Executed(x, BM!EmbeddedOther(x, id, cmd))
  <2> DEFINE d == [x.db EXCEPT ![id].embedded = BM!NoLuid]
  <2>1. [x EXCEPT !.db[id].embedded = BM!NoLuid] = [x EXCEPT !.db = d]
    OBVIOUS
  <2> HIDE DEF d
  <2> QED
    BY <2>1, DoneOrLeft DEF BM!EmbeddedOther
<1>5. /\ Executed(x, BM!ExecuteMetadataCmd(x, id, cmd))
      /\ Executed(x, BM!ExecuteProtectionCmd(x, id, cmd))
      /\ Executed(x, BM!ExecuteHiddenCmd(x, id, cmd))
  BY FieldExecuted, Zenon
     DEF BM!ExecuteMetadataCmd, BM!ExecuteProtectionCmd, BM!ExecuteHiddenCmd
<1> QED
  BY <1>1, <1>2, <1>3, <1>4, <1>5, DoneOrLeft DEF BM!ExecuteLeafCmd

LEMMA CommandExecuted ==
  ASSUME NEW x, IsBm(x), NEW id, NEW cmd
  PROVE  Keeps(x, BM!ExecuteCmd(x, id, cmd).x)
<1>1. Executed(x, BM!ExecuteSnapCmd(x, id, cmd))
  <2> DEFINE d == BM!DeleteDestination(x.db, id)
  <2>1. [x EXCEPT !.db = BM!DeleteDestination(@, id)] = [x EXCEPT !.db = d]
    OBVIOUS
  <2> HIDE DEF d
  <2> QED
    BY <2>1, DoneOrLeft DEF BM!ExecuteSnapCmd
<1>2. Executed(x, BM!ExecuteCmd(x, id, cmd))
  BY <1>1, LeafExecuted, DoneOrLeft DEF BM!ExecuteCmd
<1>3. \A d : Keeps(x, [x EXCEPT !.db = d])
  BY SettingsChanged
<1> QED
  BY <1>2, <1>3, KeepsReflexive, Zenon DEF Executed

\* The mapping of a name, which a stored destination gets.
LEMMA NameMapped ==
  ASSUME NEW x, IsBm(x), NEW name, NEW luid
  PROVE  Keeps(x, BM!SetMapping(x, name, luid)) /\ BM!SetMapping(x, name, luid).mem = x.mem
<1> DEFINE names == BM!With(x.map, name, luid)
<1>1. BM!SetMapping(x, name, luid) = [x EXCEPT !.map = names]
  BY DEF BM!SetMapping
<1> HIDE DEF names
<1>2. Keeps(x, [x EXCEPT !.map = names]) /\ [x EXCEPT !.map = names].mem = x.mem
  BY SettingsChanged
<1> QED
  BY <1>1, <1>2

LEMMA StoredMapped ==
  ASSUME NEW x, IsBm(x), NEW e, NEW name
  PROVE  Keeps(x, BM!MapStored(x, e, name)) /\ BM!MapStored(x, e, name).mem = x.mem
BY NameMapped, KeepsReflexive DEF BM!MapStored

\* A destination is created, ...
LEMMA DestinationCreated ==
  ASSUME NEW x, IsBm(x), NEW i, NEW id, NEW at
  PROVE  Keeps(x, BM!Create(x, i, id, at))
<1> DEFINE d == BM!With(x.db, id, BM!Destination(x.mem.buffer[i].cmds[at].obj.text))
           y == [x EXCEPT !.db = d]
           f == [y.mem.buffer[i] EXCEPT !.luid = id]
<1>1. Keeps(x, y) /\ y.mem = x.mem
  BY SettingsChanged
<1>2. BM!Create(x, i, id, at) = [y EXCEPT !.mem.buffer[i] = f]
  <2> DEFINE m == [x.mem EXCEPT !.buffer[i].luid = id]
  <2>1. BM!Create(x, i, id, at) = [x EXCEPT !.db = d, !.mem = m]
    BY Zenon DEF BM!Create
  <2>2. m = [y.mem EXCEPT !.buffer[i] = f]
    BY <1>1
  <2> HIDE DEF d, m
  <2>3. [x EXCEPT !.db = d, !.mem = m] = [y EXCEPT !.mem = m]
    BY DEF IsBm, IsState
  <2> QED
    BY <2>1, <2>2, <2>3
<1> HIDE DEF y
<1>3. ASSUME i \in DOMAIN y.mem.buffer
      PROVE  SameCmds(y.mem.buffer[i], f)
  <2>1. IsEntry(y.mem.buffer[i])
    BY <1>1, <1>3 DEF Keeps, IsBm, BmMem, IsBuffer
  <2>2. "cmds" \in DOMAIN f /\ f.cmds = y.mem.buffer[i].cmds
    BY <2>1 DEF IsEntry
  <2> HIDE DEF f
  <2> QED
    BY <2>1, <2>2, OtherField
<1> HIDE DEF f
<1>4. Keeps(y, [y EXCEPT !.mem.buffer[i] = f])
  BY <1>1, <1>3, EntryKept DEF Keeps
<1> QED
  BY <1>1, <1>2, <1>4, KeepsTransitive
\* ... its commands are tried, and ...
LEMMA CommandTried ==
  ASSUME NEW x, IsBm(x), NEW i, NEW j, NEW cmd
  PROVE  Keeps(x, BM!Try(x, i, j, cmd))
<1> DEFINE r == BM!ExecuteCmd(x, x.mem.buffer[i].luid, cmd)
<1>1. Keeps(x, r.x)
  BY CommandExecuted
<1>2. BM!Try(x, i, j, cmd) = BM!MarkTried(r, i, j, BM!IsDelete(cmd))
  BY DEF BM!Try
<1> HIDE DEF r
<1>3. \A status, executed : Keeps(r.x, BM!Mark(r.x, i, j, status, executed))
  BY <1>1, CommandMarked DEF Keeps
<1>4. Keeps(r.x, BM!MarkTried(r, i, j, BM!IsDelete(cmd)))
  BY <1>3, Zenon DEF BM!MarkTried
<1> QED
  BY <1>1, <1>2, <1>4, KeepsTransitive

\* ... the first of them may stand for the creation.
LEMMA NewStored ==
  ASSUME NEW x, IsBm(x), NEW i, NEW names
  PROVE  Keeps(x, BM!StoreNew(x, i, names).x)
<1> DEFINE y == BM!Create(x, i, BM!Min(BM!FreeIds(x)), BM!Min(names))
           z == BM!Mark(y, i, 1, "EOk", TRUE)
           u == BM!Mark(z, i, BM!Min(names), "EOk", TRUE)
<1>1. Keeps(x, y)
  BY DestinationCreated
<1>2. BM!StoreNew(x, i, names).x \in {x, u}
  BY DEF BM!StoreNew, BM!Then
<1> HIDE DEF y
<1>3. Keeps(y, z)
  BY <1>1, CommandMarked DEF Keeps
<1> HIDE DEF z
<1>4. Keeps(z, u)
  BY <1>3, CommandMarked DEF Keeps
<1> HIDE DEF u
<1>5. Keeps(x, u)
  BY <1>1, <1>3, <1>4, KeepsTransitive
<1> QED
  BY <1>2, <1>5, KeepsReflexive

LEMMA SnapStored ==
  ASSUME NEW x, IsBm(x), NEW i
  PROVE  Keeps(x, BM!StoreSnap(x, i).x)
<1> DEFINE f == [x.mem.buffer[i] EXCEPT !.executed = TRUE]
           y == [x EXCEPT !.mem.buffer[i] = f]
           e == x.mem.buffer[i]
<1>1. [x EXCEPT !.mem.buffer[i].executed = TRUE] = y
  OBVIOUS
<1>2. ASSUME i \in DOMAIN x.mem.buffer
      PROVE  SameCmds(e, f)
  <2>1. IsEntry(e)
    BY <1>2 DEF IsBm, BmMem, IsBuffer
  <2> HIDE DEF e
  <2>2. "cmds" \in DOMAIN f /\ f.cmds = e.cmds
    BY <2>1 DEF IsEntry, e
  <2> HIDE DEF f
  <2> QED
    BY <2>1, <2>2, OtherField
<1> HIDE DEF f
<1>3. Keeps(x, y)
  BY <1>2, EntryKept
<1>4. BM!StoreSnap(x, i) = BM!StoreEntry(y, i, e)
  BY <1>1, Zenon DEF BM!StoreSnap
<1> HIDE DEF y
<1>5. Keeps(y, y)
  BY <1>3, KeepsReflexive DEF Keeps
<1>6. \A names : Keeps(y, BM!StoreNew(y, i, names).x)
  BY <1>3, NewStored DEF Keeps
<1>7. \A luid : BM!StoreOld(y, i, luid).x = y
  BY DEF BM!StoreOld, BM!Then
<1>8. \/ \E names : BM!StoreEntry(y, i, e) = BM!StoreNew(y, i, names)
      \/ \E luid : BM!StoreEntry(y, i, e) = BM!StoreOld(y, i, luid)
  BY Zenon DEF BM!StoreEntry
<1>9. Keeps(y, BM!StoreEntry(y, i, e).x)
  BY <1>5, <1>6, <1>7, <1>8
<1> QED
  BY <1>3, <1>4, <1>9, KeepsTransitive

LEMMA TaskDone ==
  ASSUME NEW x, IsBm(x), NEW t
  PROVE  Keeps(x, BM!Do(x, t).x)
<1>1. \A y, todo : BM!Then(y, todo).x = y
  BY DEF BM!Then
<1>2. Keeps(x, BM!StoreSnap(x, t.i).x)
  BY SnapStored
<1>3. Keeps(x, BM!Try(x, t.i, t.j, x.mem.buffer[t.i].cmds[t.j]))
  BY CommandTried
<1>4. Keeps(x, BM!MapStored(x, x.mem.buffer[t.i], t.name)) /\ Keeps(x, x)
  BY StoredMapped, KeepsReflexive
<1>5. \/ BM!Do(x, t) = BM!StoreSnap(x, t.i)
      \/ \E todo : BM!Do(x, t) = BM!Then(x, todo)
      \/ \E todo : BM!Do(x, t) = BM!Then(BM!Try(x, t.i, t.j, x.mem.buffer[t.i].cmds[t.j]), todo)
      \/ \E todo : BM!Do(x, t) = BM!Then(BM!MapStored(x, x.mem.buffer[t.i], t.name), todo)
  BY DEF BM!Do
<1> QED
  BY <1>1, <1>2, <1>3, <1>4, <1>5

\* All that storing an entry brings with it.
LEMMA AllDone ==
  ASSUME NEW x, IsBm(x), NEW todo
  PROVE  Keeps(x, BM!DoAll(x, todo))
<1> DEFINE N == BM!MaxSteps
           F(g, n) == IF n = 0 THEN BM!Then(x, todo) ELSE BM!DoNext(g[n - 1])
           Does(m, g) == g = [n \in 0 .. m |-> F(g, n)]
           done == CHOOSE g : Does(N, g)
           S == {m \in Nat : \E g : Does(m, g)}
           T == {n \in 0 .. N : Keeps(x, done[n].x)}
<1>0. N \in Nat
  BY BmOpenAssumption DEF BM!MaxSteps
<1>00. BM!DoAll(x, todo) = done[N].x
  BY DEF BM!DoAll
<1> HIDE DEF N
<1>1. 0 \in S
  <2>1. Does(0, [n \in 0 .. 0 |-> BM!Then(x, todo)])
    OBVIOUS
  <2> QED
    BY <2>1
<1>2. ASSUME NEW m \in Nat, m \in S
      PROVE  m + 1 \in S
  <2>1. PICK g : Does(m, g)
    BY <1>2
  <2> DEFINE h == [n \in 0 .. m + 1 |-> IF n <= m THEN g[n] ELSE F(g, n)]
  <2>2. ASSUME NEW n \in 0 .. m + 1
        PROVE  h[n] = F(h, n)
    <3>1. n # 0 => n - 1 \in 0 .. m /\ h[n - 1] = g[n - 1]
      OBVIOUS
    <3>2. F(h, n) = F(g, n)
      <4> HIDE DEF h
      <4> QED
        BY <3>1
    <3>3. n <= m => g[n] = F(g, n)
      <4> HIDE DEF F
      <4> QED
        BY <2>1
    <3> QED
      BY <3>2, <3>3
  <2>3. Does(m + 1, h)
    BY <2>2
  <2> HIDE DEF h, Does
  <2> QED
    BY <2>3
<1>3. \E g : Does(N, g)
  <2>1. 0 .. N \subseteq S
    <3> HIDE DEF S
    <3> QED
      BY <1>0, <1>1, <1>2, InductionUpTo DEF S
  <2> QED
    BY <1>0, <2>1
<1>4. Does(N, done)
  BY <1>3
<1>5. \A n \in 0 .. N : done[n] = F(done, n)
  <2> HIDE DEF F
  <2> QED
    BY <1>4
<1> HIDE DEF done
<1>6. 0 \in T
  <2>1. done[0].x = x
    BY <1>0, <1>5 DEF BM!Then
  <2> QED
    BY <1>0, <2>1, KeepsReflexive
<1>7. ASSUME NEW n \in 0 .. N - 1, n \in T
      PROVE  n + 1 \in T
  <2> DEFINE w == done[n]
  <2>1. n + 1 \in 0 .. N /\ (n + 1) - 1 = n /\ n + 1 # 0
    BY <1>0
  <2>2. done[n + 1] = BM!DoNext(w)
    BY <1>5, <2>1
  <2>3. Keeps(x, w.x)
    BY <1>7
  <2> HIDE DEF w
  <2>4. Keeps(w.x, w.x) /\ Keeps(w.x, BM!Do(w.x, Head(w.todo)).x)
    BY <2>3, TaskDone, KeepsReflexive DEF Keeps
  <2>5. BM!DoNext(w).x \in {w.x, BM!Do(w.x, Head(w.todo)).x}
    BY DEF BM!DoNext, BM!Then
  <2>6. Keeps(x, BM!DoNext(w).x)
    BY <2>3, <2>4, <2>5, KeepsTransitive
  <2> QED
    BY <2>1, <2>2, <2>6
<1>8. 0 .. N \subseteq T
  <2>1. T \in SUBSET Nat
    OBVIOUS
  <2> HIDE DEF T
  <2> QED
    BY <1>0, <1>6, <1>7, <2>1, InductionUpTo
<1> QED
  BY <1>0, <1>00, <1>8
-----------------------------------------------------------------------------
(* The handlers of the bearer management adapter. *)

\* A handler that answers its command, or lets it wait; one that it is given.
BmDone(x, y, ref) ==
  /\ IsBm(y)
  /\ \/ BmWaits(y) = BmWaits(x) /\ Replied(y, ref)
     \/ BmWaits(y) = BmWaits(x) \cup {ref} /\ y.said = << >>
BmQuiet(x) == IsBm(x) /\ x.said = << >>
BmAsked(x, ref) == BmQuiet(x) /\ ref \notin BmWaits(x) /\ ref # BM!Now

LEMMA BmStatus ==
  ASSUME NEW x, BmQuiet(x), NEW ref, NEW status
  PROVE  BmDone(x, BM!SetStatus(x, ref, status), ref)
<1>1. Append(x.said, [ref |-> ref, status |-> status]) = <<[ref |-> ref, status |-> status]>>
  BY DEF BmQuiet
<1> DEFINE y == BM!SetStatus(x, ref, status)
<1>2. y = [mem |-> x.mem, db |-> x.db, map |-> x.map,
           said |-> <<[ref |-> ref, status |-> status]>>]
  BY <1>1 DEF BmQuiet, IsBm, IsState, BM!SetStatus
<1>3. y.mem = x.mem /\ y.said = <<[ref |-> ref, status |-> status]>> /\ IsState(y)
  BY <1>2 DEF IsState
<1> HIDE DEF y
<1>4. Replied(y, ref)
  BY <1>3, Zenon DEF Replied
<1>5. IsBm(y) /\ BmWaits(y) = BmWaits(x)
  BY <1>3 DEF BmQuiet, IsBm, BmWaits
<1> QED
  BY <1>4, <1>5 DEF BmDone, y

\* What is stored meanwhile does not matter.
LEMMA KeptQuiet ==
  ASSUME NEW x, BmQuiet(x), NEW y, Keeps(x, y)
  PROVE  /\ BmQuiet(y) /\ BmWaits(y) = BmWaits(x)
         /\ \A ref : BmAsked(x, ref) => BmAsked(y, ref)
         /\ \A z, ref : BmDone(y, z, ref) => BmDone(x, z, ref)
<1>1. BmWaits(y) = BmWaits(x)
  BY KeptWaits DEF BmQuiet
<1>2. BmQuiet(y)
  BY DEF BmQuiet, Keeps
<1> QED
  BY <1>1, <1>2 DEF BmAsked, BmDone

LEMMA SnapFound ==
  ASSUME NEW x, IsBm(x), NEW name, BM!Buffered(x, name) # 0
  PROVE  BM!Buffered(x, name) \in DOMAIN x.mem.buffer
<1> DEFINE at == {i \in DOMAIN x.mem.buffer : x.mem.buffer[i].name = name}
<1>1. BM!Buffered(x, name) = IF at = {} THEN 0 ELSE BM!Min(at)
  BY DEF BM!Buffered
<1>2. at \in SUBSET Nat /\ at \subseteq DOMAIN x.mem.buffer
  BY SeqDomain DEF IsBm, BmMem, IsBuffer
<1> HIDE DEF at
<1>3. at # {}
  BY <1>1
<1>4. \E n \in at : \A k \in at : n <= k
  BY <1>2, <1>3, LeastNumber
<1>5. BM!Min(at) \in at
  BY <1>4 DEF BM!Min
<1> QED
  BY <1>1, <1>2, <1>3, <1>5

\* A command waits with the destination, ...
LEMMA CommandWaits ==
  ASSUME NEW x, NEW c, IsCmd(c), BmAsked(x, c.ref), NEW i \in DOMAIN x.mem.buffer
  PROVE  BmDone(x, BM!AppendTo(x, i, c), c.ref)
<1> DEFINE e == x.mem.buffer[i]
           f == EM!AddCommand(e, c)
           b == [x.mem.buffer EXCEPT ![i] = f]
           y == [x EXCEPT !.mem.buffer = b]
<1>1. BM!AppendTo(x, i, c) = y
  BY DEF BM!AppendTo, EM!AddCommand
<1>2. IsEntry(e) /\ c.ref \notin Refs(e)
  BY DEF BmAsked, BmQuiet, IsBm, BmMem, IsBuffer, BmWaits, Pending
<1>3. Grown(e, f, c.ref)
  BY <1>2, CommandAdded
<1> HIDE DEF f
<1>4. IsBuffer(b) /\ Pending(b) = BmWaits(x) \cup {c.ref}
  BY <1>3, EntryReplaced DEF BmAsked, BmQuiet, IsBm, BmMem, BmWaits
<1> HIDE DEF b
<1>5. BM!Now \notin Pending(b)
  BY <1>4 DEF BmAsked, BmQuiet, IsBm, BmMem, BmWaits
<1>6. IsBm(y) /\ y.mem.buffer = b /\ y.said = x.said
  BY <1>4, <1>5, BmBuffered DEF BmAsked, BmQuiet
<1> HIDE DEF y
<1>7. BmDone(x, y, c.ref)
  BY <1>4, <1>6 DEF BmDone, BmWaits, BmAsked, BmQuiet
<1> QED
  BY <1>1, <1>7

\* ... or is the first that does, ...
LEMMA EntryStarted ==
  ASSUME NEW x, NEW c, IsCmd(c), BmAsked(x, c.ref), NEW name, NEW luid
  PROVE  BmDone(x, [x EXCEPT !.mem.buffer = Append(@, BM!Settings(name, luid, <<c>>))], c.ref)
<1> DEFINE e == BM!Settings(name, luid, <<c>>)
           b == Append(x.mem.buffer, e)
           y == [x EXCEPT !.mem.buffer = b]
<1>1. IsEntry(e) /\ Refs(e) = {c.ref}
  <2>1. "cmds" \in DOMAIN e /\ e.cmds = <<c>>
    BY DEF BM!Settings
  <2>2. <<c>> \in Seq({c}) /\ DOMAIN <<c>> = {1} /\ <<c>>[1] = c
    OBVIOUS
  <2> HIDE DEF e
  <2>3. IsSeq(e.cmds)
    BY <2>1, <2>2, Zenon DEF IsSeq
  <2>4. DOMAIN e.cmds = {1} /\ e.cmds[1] = c
    BY <2>1, <2>2
  <2> QED
    BY <2>1, <2>3, <2>4 DEF IsEntry, Refs
<1> HIDE DEF e
<1>2. IsBuffer(b) /\ Pending(b) = BmWaits(x) \cup {c.ref}
  BY <1>1, EntryAppended DEF BmAsked, BmQuiet, IsBm, BmMem, BmWaits
<1> HIDE DEF b
<1>3. BM!Now \notin Pending(b)
  BY <1>2 DEF BmAsked, BmQuiet, IsBm, BmMem, BmWaits
<1>4. IsBm(y) /\ y.mem.buffer = b /\ y.said = x.said
  BY <1>2, <1>3, BmBuffered DEF BmAsked, BmQuiet
<1> HIDE DEF y
<1>5. BmDone(x, y, c.ref)
  BY <1>2, <1>4 DEF BmDone, BmWaits, BmAsked, BmQuiet
<1> QED
  BY <1>5 DEF y, b, e

\* ... or is executed at once.
LEMMA CommandAtOnce ==
  ASSUME NEW x, BmQuiet(x), NEW id, NEW c
  PROVE  BmDone(x, BM!ExecuteNow(x, id, c), c.ref)
<1> DEFINE y == BM!DoAll(x, BM!Before(x, id, c))
           r == BM!ExecuteCmd(y, id, c)
<1>1. Keeps(x, y)
  BY AllDone DEF BmQuiet
<1>2. BM!ExecuteNow(x, id, c) \in {BM!SetStatus(x, c.ref, "EError"),
                                   BM!SetStatus(r.x, c.ref, r.status)}
  BY DEF BM!ExecuteNow
<1> HIDE DEF y
<1>3. Keeps(x, r.x)
  BY <1>1, CommandExecuted, KeepsTransitive, SMTT(30) DEF Keeps
<1> HIDE DEF r
<1>4. BmDone(r.x, BM!SetStatus(r.x, c.ref, r.status), c.ref)
  BY <1>3, KeptQuiet, BmStatus
<1>5. BmDone(x, BM!SetStatus(r.x, c.ref, r.status), c.ref)
  BY <1>3, <1>4, KeptQuiet
<1>6. BmDone(x, BM!SetStatus(x, c.ref, "EError"), c.ref)
  BY BmStatus
<1> QED
  BY <1>2, <1>5, <1>6

LEMMA WaitsOrExecuted ==
  ASSUME NEW x, NEW c, IsCmd(c), BmAsked(x, c.ref), NEW name
  PROVE  BmDone(x, BM!WaitOrExecute(x, name, c), c.ref)
<1>1. BmQuiet(x) /\ IsBm(x)
  BY DEF BmAsked, BmQuiet
<1> QED
  BY <1>1, SnapFound, CommandWaits, CommandAtOnce DEF BM!WaitOrExecute

LEMMA BmCommand ==
  ASSUME NEW leaf, NEW ref, NEW type, NEW obj
  PROVE  LET c == BM!Command(leaf, ref, type, obj) IN IsCmd(c) /\ c.ref = ref
BY DEF BM!Command, IsCmd

LEMMA SnapsMapped ==
  ASSUME NEW x, BmQuiet(x), NEW name
  PROVE  Keeps(x, BM!MapPredefinedSnaps(x, name))
BY NameMapped, KeepsReflexive DEF BM!MapPredefinedSnaps, BmQuiet

LEMMA BmLeafUpdated ==
  ASSUME NEW x, NEW ref, BmAsked(x, ref), NEW name, NEW leaf, NEW obj
  PROVE  BmDone(x, BM!UpdateLeafObject(x, name, leaf, obj, ref), ref)
<1> DEFINE y == BM!MapPredefinedSnaps(x, name)
           c == BM!Command(leaf, ref, "Add", obj)
<1>1. BmQuiet(x) /\ Keeps(x, y)
  BY SnapsMapped DEF BmAsked
<1>2. IsCmd(c) /\ c.ref = ref
  BY BmCommand
<1>3. BM!UpdateLeafObject(x, name, leaf, obj, ref) = BM!Update(y, name, leaf, obj, c)
  BY DEF BM!UpdateLeafObject
<1> HIDE DEF y, c
<1>4. BmAsked(y, c.ref) /\ BmQuiet(y)
  BY <1>1, <1>2, KeptQuiet
<1>5. BmDone(y, BM!WaitOrExecute(y, name, c), ref)
  BY <1>2, <1>4, WaitsOrExecuted
<1>6. ASSUME NEW id
      PROVE  BmDone(y, BM!StartWaiting(y, name, id, c), ref)
  BY <1>2, <1>4, EntryStarted, BmStatus DEF BM!StartWaiting
<1>7. BmDone(y, BM!Update(y, name, leaf, obj, c), ref)
  BY <1>5, <1>6, Zenon DEF BM!Update
<1> QED
  BY <1>1, <1>3, <1>7, KeptQuiet

\* The commands on a destination that has to exist.
LEMMA OnKnownDone ==
  ASSUME NEW x, NEW ref, BmAsked(x, ref), NEW name, NEW leaf, NEW type, NEW obj
  PROVE  LET y == BM!MapPredefinedSnaps(x, name)
             c == BM!Command(leaf, ref, type, obj)
         IN  /\ BmDone(x, BM!OnKnown(y, name, c), ref)
             /\ BmDone(x, BM!WaitOrExecute(y, name, c), ref)
             /\ \A status : BmDone(x, BM!SetStatus(y, ref, status), ref)
<1> DEFINE y == BM!MapPredefinedSnaps(x, name)
           c == BM!Command(leaf, ref, type, obj)
<1>1. BmQuiet(x) /\ Keeps(x, y)
  BY SnapsMapped DEF BmAsked
<1>2. IsCmd(c) /\ c.ref = ref
  BY BmCommand
<1> HIDE DEF y, c
<1>3. BmAsked(y, c.ref) /\ BmQuiet(y)
  BY <1>1, <1>2, KeptQuiet
<1>4. BmDone(y, BM!WaitOrExecute(y, name, c), ref)
  BY <1>2, <1>3, WaitsOrExecuted
<1>5. \A status : BmDone(y, BM!SetStatus(y, ref, status), ref)
  BY <1>3, BmStatus
<1>6. BmDone(y, BM!OnKnown(y, name, c), ref)
  BY <1>2, <1>4, <1>5 DEF BM!OnKnown
<1>7. \A z : BmDone(y, z, ref) => BmDone(x, z, ref)
  BY <1>1, KeptQuiet
<1> QED
  BY <1>4, <1>5, <1>6, <1>7 DEF y, c

LEMMA BmObjectDeleted ==
  ASSUME NEW x, NEW ref, BmAsked(x, ref), NEW name, NEW leaf
  PROVE  BmDone(x, BM!DeleteObject(x, name, leaf, ref), ref)
BY OnKnownDone DEF BM!DeleteObject

LEMMA BmLeafFetched ==
  ASSUME NEW x, NEW ref, BmAsked(x, ref), NEW name, NEW leaf
  PROVE  BmDone(x, BM!FetchLeafObject(x, name, leaf, ref), ref)
BY OnKnownDone DEF BM!FetchLeafObject

LEMMA SnapListed ==
  ASSUME NEW x, NEW ref, BmAsked(x, ref), NEW name
  PROVE  BmDone(x, BM!ListSnap(x, name, ref), ref)
BY OnKnownDone DEF BM!ListSnap

LEMMA SnapsListed ==
  ASSUME NEW x, BmQuiet(x), NEW ref
  PROVE  BmDone(x, BM!ListSnaps(x, ref), ref)
<1>1. ASSUME NEW names
      PROVE  BmDone(x, BM!SetStatus([x EXCEPT !.map = names], ref, "EOk"), ref)
  <2> DEFINE y == [x EXCEPT !.map = names]
  <2>1. Keeps(x, y)
    BY SettingsChanged DEF BmQuiet
  <2> HIDE DEF y
  <2>2. BmDone(x, BM!SetStatus(y, ref, "EOk"), ref)
    BY <2>1, KeptQuiet, BmStatus
  <2> QED
    BY <2>2 DEF y
<1> QED
  BY <1>1, Zenon DEF BM!ListSnaps

LEMMA BmNodeAdded ==
  ASSUME NEW x, NEW ref, BmAsked(x, ref), NEW name
  PROVE  BmDone(x, BM!AddNodeObject(x, name, ref), ref)
<1> DEFINE c == BM!Command(BM!Node, ref, "Add", BM!NoObject)
<1>1. IsCmd(c) /\ c.ref = ref
  BY BmCommand
<1>2. BmDone(x, BM!SetStatus(x, ref, "EAlreadyExists"), ref)
  BY BmStatus DEF BmAsked
<1> HIDE DEF c
<1>3. BmDone(x, [x EXCEPT !.mem.buffer = Append(@, BM!Settings(name, BM!Unset, <<c>>))], ref)
  BY <1>1, EntryStarted
<1> QED
  BY <1>2, <1>3 DEF BM!AddNodeObject, c
-----------------------------------------------------------------------------
(* CompleteOutstandingCmdsL of the bearer management adapter. *)

\* y comes from x by answers to the commands R, each of them once.
BmSaying(x) == IsBm(x) /\ IsSeq(x.said) /\ Again(x) = {}
BmSays(x, y, R) == BmSaying(y) /\ y.mem = x.mem /\ Answered(y) = Answered(x) \cup R

LEMMA CmdAnswered ==
  ASSUME NEW x, BmSaying(x), NEW c, c.ref \notin Answered(x)
  PROVE  BmSays(x, BM!AnswerCmd(x, c), {c.ref})
<1>1. ASSUME NEW status
      PROVE  BmSays(x, BM!SetStatus(x, c.ref, status), {c.ref})
  <2> DEFINE t == Append(x.said, [ref |-> c.ref, status |-> status])
             y == BM!SetStatus(x, c.ref, status)
  <2>1. y = [mem |-> x.mem, db |-> x.db, map |-> x.map, said |-> t]
    <3>1. y = [x EXCEPT !.said = t]
      BY DEF BM!SetStatus
    <3> HIDE DEF t, y
    <3> QED
      BY <3>1 DEF BmSaying, IsBm, IsState
  <2>2. y.mem = x.mem /\ y.said = t /\ IsState(y)
    BY <2>1 DEF IsState
  <2> HIDE DEF y
  <2>3. IsSeq(y.said) /\ Again(y) = {} /\ Answered(y) = Answered(x) \cup {c.ref}
    BY <2>2, OneMoreAnswer, ZenonT(60) DEF BmSaying
  <2>4. IsBm(y)
    BY <2>2 DEF BmSaying, IsBm
  <2> QED
    BY <2>2, <2>3, <2>4 DEF BmSays, BmSaying, y
<1> QED
  BY <1>1, Zenon DEF BM!AnswerCmd

\* The first entry leaves the buffer.
LEMMA FirstRemoved ==
  ASSUME NEW b, IsBuffer(b), Len(b) # 0
  PROVE  /\ 1 \in DOMAIN b /\ IsEntry(b[1]) /\ Refs(b[1]) \subseteq Pending(b)
         /\ IsBuffer(Tail(b)) /\ Len(Tail(b)) = Len(b) - 1
         /\ Pending(Tail(b)) = Pending(b) \ Refs(b[1])
<1> DEFINE c == Tail(b)
<1>0. PICK S : b \in Seq(S)
  BY DEF IsBuffer, IsSeq
<1>1. Len(b) \in Nat /\ DOMAIN b = 1 .. Len(b)
  BY <1>0
<1>2. b # << >>
  BY <1>0
<1>3. c \in Seq(S) /\ Len(c) = Len(b) - 1
  BY <1>0, <1>2
<1>4. \A i \in 1 .. Len(b) - 1 : c[i] = b[i + 1]
  BY <1>0, <1>2
<1>5. DOMAIN c = 1 .. Len(b) - 1
  BY <1>3
<1>6. IsSeq(c)
  BY <1>3 DEF IsSeq
<1> HIDE DEF c
<1>7. 1 \in DOMAIN b /\ \A i \in DOMAIN c : i + 1 \in DOMAIN b /\ i + 1 # 1
  BY <1>1, <1>5
<1>8. \A i \in DOMAIN c : IsEntry(c[i]) /\ Refs(c[i]) \cap Refs(b[1]) = {}
  BY <1>4, <1>5, <1>7 DEF IsBuffer
<1>9. \A i, k \in DOMAIN c : i # k => Refs(c[i]) \cap Refs(c[k]) = {}
  <2>1. \A i, k \in DOMAIN c : i # k => i + 1 # k + 1
    BY <1>5
  <2> QED
    BY <1>4, <1>5, <1>7, <2>1 DEF IsBuffer
<1>10. Pending(b) = Pending(c) \cup Refs(b[1])
  <2>1. \A j \in DOMAIN b : j = 1 \/ \E i \in DOMAIN c : j = i + 1
    <3>1. \A j \in DOMAIN b : j # 1 => j - 1 \in DOMAIN c /\ j = (j - 1) + 1
      BY <1>1, <1>5
    <3> QED
      BY <3>1
  <2>2. ASSUME NEW r \in Pending(b)
        PROVE  r \in Pending(c) \cup Refs(b[1])
    <3>1. PICK j \in DOMAIN b : r \in Refs(b[j])
      BY <2>2 DEF Pending
    <3>2. CASE j # 1
      <4>1. PICK i \in DOMAIN c : j = i + 1
        BY <2>1, <3>2
      <4> QED
        BY <1>4, <1>5, <3>1, <4>1 DEF Pending
    <3> QED
      BY <3>1, <3>2
  <2>3. Pending(c) \cup Refs(b[1]) \subseteq Pending(b)
    BY <1>4, <1>5, <1>7 DEF Pending
  <2> QED
    BY <2>2, <2>3
<1>11. Pending(c) \cap Refs(b[1]) = {}
  BY <1>8 DEF Pending
<1>12. IsBuffer(c)
  BY <1>6, <1>8, <1>9 DEF IsBuffer
<1> QED
  BY <1>3, <1>7, <1>10, <1>11, <1>12 DEF IsBuffer, c

\* The answers to the commands of the first entry.
LEMMA SettingsAnswered ==
  ASSUME NEW x, BmSaying(x), NEW e, IsEntry(e), Refs(e) \cap Answered(x) = {},
         Len(x.mem.buffer) # 0
  PROVE  LET y == BM!AnswerSettings(x, e)
         IN  /\ BmSaying(y) /\ Answered(y) = Answered(x) \cup Refs(e)
             /\ y.mem.buffer = Tail(x.mem.buffer)
<1> DEFINE N == Len(e.cmds)
           start == IF BM!IsNew(e.cmds[1]) THEN BM!MapStored(x, e, e.name) ELSE x
           F(g, n) == IF n = 0 THEN start ELSE BM!AnswerCmd(g[n - 1], e.cmds[n])
           Answers(m, g) == g = [n \in 0 .. m |-> F(g, n)]
           answered == CHOOSE g : Answers(N, g)
           R(n) == {e.cmds[j].ref : j \in 1 .. n}
           S == {m \in Nat : \E g : Answers(m, g)}
           T == {n \in 0 .. N : BmSays(x, answered[n], R(n))}
           y == BM!AnswerSettings(x, e)
<1>0. N \in Nat /\ DOMAIN e.cmds = 1 .. N
  BY SeqDomain DEF IsEntry
<1>00. y = [answered[N] EXCEPT !.mem.buffer = Tail(@)]
  BY DEF BM!AnswerSettings
<1>000. BmSays(x, start, {})
  <2>1. Keeps(x, BM!MapStored(x, e, e.name)) /\ BM!MapStored(x, e, e.name).mem = x.mem
    BY StoredMapped DEF BmSaying
  <2>2. IsBm(start) /\ start.mem = x.mem /\ start.said = x.said
    BY <2>1 DEF Keeps, BmSaying
  <2> HIDE DEF start
  <2> QED
    BY <2>2 DEF BmSays, BmSaying, Answered, Again
<1> HIDE DEF N, y, start
<1>1. 0 \in S
  <2>1. Answers(0, [n \in 0 .. 0 |-> start])
    OBVIOUS
  <2> QED
    BY <2>1
<1>2. ASSUME NEW m \in Nat, m \in S
      PROVE  m + 1 \in S
  <2>1. PICK g : Answers(m, g)
    BY <1>2
  <2> DEFINE h == [n \in 0 .. m + 1 |-> IF n <= m THEN g[n] ELSE F(g, n)]
  <2>2. ASSUME NEW n \in 0 .. m + 1
        PROVE  h[n] = F(h, n)
    <3>1. n # 0 => n - 1 \in 0 .. m /\ h[n - 1] = g[n - 1]
      OBVIOUS
    <3>2. F(h, n) = F(g, n)
      <4> HIDE DEF h
      <4> QED
        BY <3>1
    <3>3. n <= m => g[n] = F(g, n)
      <4> HIDE DEF F
      <4> QED
        BY <2>1
    <3> QED
      BY <3>2, <3>3
  <2>3. Answers(m + 1, h)
    BY <2>2
  <2> HIDE DEF h, Answers
  <2> QED
    BY <2>3
<1>3. \E g : Answers(N, g)
  <2>1. 0 .. N \subseteq S
    <3> HIDE DEF S
    <3> QED
      BY <1>0, <1>1, <1>2, InductionUpTo DEF S
  <2> QED
    BY <1>0, <2>1, SMTT(30)
<1>4. Answers(N, answered)
  BY <1>3
<1>5. \A n \in 0 .. N : answered[n] = F(answered, n)
  <2> HIDE DEF F
  <2> QED
    BY <1>4
<1> HIDE DEF answered
<1>7. 0 \in T
  <2>1. answered[0] = start /\ R(0) = {}
    BY <1>0, <1>5
  <2> QED
    BY <1>0, <1>000, <2>1 DEF BmSays
<1>8. ASSUME NEW n \in 0 .. N - 1, n \in T
      PROVE  n + 1 \in T
  <2> DEFINE c == e.cmds[n + 1]
  <2>1. n + 1 \in 0 .. N /\ n + 1 \in DOMAIN e.cmds /\ (n + 1) - 1 = n /\ n + 1 # 0
    BY <1>0
  <2>2. answered[n + 1] = BM!AnswerCmd(answered[n], c)
    BY <1>5, <2>1
  <2>3. R(n + 1) = R(n) \cup {c.ref}
    <3>1. 1 .. n + 1 = (1 .. n) \cup {n + 1}
      BY <1>0
    <3> QED
      BY <3>1
  <2>4. c.ref \notin R(n)
    <3>1. ASSUME NEW j \in 1 .. n, e.cmds[j].ref = c.ref
          PROVE  FALSE
      <4>1. j \in DOMAIN e.cmds /\ j # n + 1
        BY <1>0
      <4> QED
        BY <2>1, <3>1, <4>1 DEF IsEntry
    <3> QED
      BY <3>1
  <2>5. c.ref \in Refs(e)
    BY <2>1 DEF Refs
  <2> HIDE DEF c, R
  <2>6. BmSays(x, answered[n], R(n))
    BY <1>8
  <2>7. c.ref \notin Answered(answered[n]) /\ BmSaying(answered[n])
    BY <2>4, <2>5, <2>6 DEF BmSays
  <2>8. BmSays(answered[n], BM!AnswerCmd(answered[n], c), {c.ref})
    BY <2>7, CmdAnswered
  <2>9. BmSays(x, answered[n + 1], R(n + 1))
    BY <2>2, <2>3, <2>6, <2>8 DEF BmSays
  <2> QED
    BY <2>1, <2>9
<1>9. 0 .. N \subseteq T
  <2>1. T \in SUBSET Nat
    OBVIOUS
  <2> HIDE DEF T
  <2> QED
    BY <1>0, <1>7, <1>8, <2>1, InductionUpTo
<1>10. R(N) = Refs(e)
  BY <1>0 DEF Refs
<1> HIDE DEF R
<1> DEFINE z == answered[N]
           b == Tail(x.mem.buffer)
<1>11. BmSays(x, z, Refs(e))
  BY <1>0, <1>9, <1>10
<1>12. y = [z EXCEPT !.mem.buffer = Tail(z.mem.buffer)]
  BY <1>00
<1> HIDE DEF z
<1>13. y = [z EXCEPT !.mem.buffer = b]
  BY <1>11, <1>12 DEF BmSays
<1>14. IsBuffer(b) /\ BM!Now \notin Pending(b)
  BY FirstRemoved DEF BmSaying, IsBm, BmMem
<1> HIDE DEF b
<1>15. IsBm(y) /\ y.mem.buffer = b /\ y.said = z.said
  BY <1>11, <1>13, <1>14, BmBuffered DEF BmSays, BmSaying
<1>16. Answered(y) = Answered(z) /\ Again(y) = Again(z)
  BY <1>15 DEF Answered, Again
<1>17. BmSaying(y) /\ Answered(y) = Answered(x) \cup Refs(e)
  BY <1>11, <1>15, <1>16 DEF BmSays, BmSaying
<1> QED
  BY <1>15, <1>17 DEF y, b

\* The first entry is stored, if it was not, and answered.
LEMMA FirstCompleted ==
  ASSUME NEW x, BmSaying(x), Len(x.mem.buffer) # 0, BmWaits(x) \cap Answered(x) = {}
  PROVE  LET y == BM!CompleteSettings(x)
         IN  /\ BmSaying(y) /\ Len(y.mem.buffer) = Len(x.mem.buffer) - 1
             /\ Answered(y) \cup BmWaits(y) = Answered(x) \cup BmWaits(x)
             /\ BmWaits(y) \cap Answered(y) = {}
<1> DEFINE z == IF x.mem.buffer[1].executed THEN x ELSE BM!DoAll(x, <<BM!ToStore(1)>>)
           b == z.mem.buffer
           y == BM!AnswerSettings(z, b[1])
<1>1. Keeps(x, z)
  BY AllDone, KeepsReflexive DEF BmSaying
<1>2. BM!CompleteSettings(x) = y
  BY DEF BM!CompleteSettings, BM!AnswerFirst
<1> HIDE DEF z
<1>3. BmWaits(z) = BmWaits(x) /\ Len(b) = Len(x.mem.buffer)
  BY <1>1, KeptWaits DEF BmSaying, Keeps, SameBuffer
<1>4. BmSaying(z) /\ Answered(z) = Answered(x)
  BY <1>1 DEF Keeps, BmSaying, Answered, Again
<1>5. /\ IsEntry(b[1]) /\ Refs(b[1]) \subseteq Pending(b)
      /\ IsBuffer(Tail(b)) /\ Len(Tail(b)) = Len(b) - 1
      /\ Pending(Tail(b)) = Pending(b) \ Refs(b[1])
  BY <1>3, <1>4, FirstRemoved DEF BmSaying, IsBm, BmMem
<1>6. Pending(b) = BmWaits(x)
  BY <1>3 DEF BmWaits
<1>7. Refs(b[1]) \cap Answered(z) = {} /\ Len(z.mem.buffer) # 0
  BY <1>3, <1>4, <1>5, <1>6
<1>8. /\ BmSaying(y) /\ Answered(y) = Answered(z) \cup Refs(b[1])
      /\ y.mem.buffer = Tail(b)
  BY <1>4, <1>5, <1>7, SettingsAnswered
<1> HIDE DEF y, b
<1>9. BmWaits(y) = BmWaits(x) \ Refs(b[1])
  BY <1>5, <1>6, <1>8 DEF BmWaits
<1>10. /\ Answered(y) \cup BmWaits(y) = Answered(x) \cup BmWaits(x)
       /\ BmWaits(y) \cap Answered(y) = {}
  BY <1>4, <1>5, <1>6, <1>8, <1>9
<1> QED
  BY <1>2, <1>3, <1>5, <1>8, <1>10

\* Every command that waits is answered, once, and none waits any longer.
LEMMA BmCompleted ==
  ASSUME NEW x, BmQuiet(x)
  PROVE  LET y == BM!CompleteOutstandingCmds(x)
         IN  IsBm(y) /\ BmWaits(y) = {} /\ Answered(y) = BmWaits(x) /\ Again(y) = {}
<1> DEFINE N == Len(x.mem.buffer)
           F(g, n) == IF n = 0 THEN x ELSE BM!CompleteSettings(g[n - 1])
           Completes(m, g) == g = [n \in 0 .. m |-> F(g, n)]
           completed == CHOOSE g : Completes(N, g)
           Part(y, n) == /\ BmSaying(y) /\ Len(y.mem.buffer) = N - n
                         /\ Answered(y) \cup BmWaits(y) = BmWaits(x)
                         /\ BmWaits(y) \cap Answered(y) = {}
           S == {m \in Nat : \E g : Completes(m, g)}
           T == {n \in 0 .. N : Part(completed[n], n)}
<1>0. N \in Nat
  BY SeqDomain DEF BmQuiet, IsBm, BmMem, IsBuffer
<1>00. BM!CompleteOutstandingCmds(x) = completed[N]
  BY DEF BM!CompleteOutstandingCmds
<1>000. Part(x, 0)
  <2>1. << >> \in Seq({}) /\ DOMAIN << >> = {}
    OBVIOUS
  <2>2. IsSeq(x.said) /\ Again(x) = {} /\ Answered(x) = {}
    BY <2>1 DEF BmQuiet, Answered, Again, IsSeq
  <2>3. Len(x.mem.buffer) = N - 0
    BY <1>0
  <2> QED
    BY <2>2, <2>3 DEF BmQuiet, BmSaying
<1> HIDE DEF N
<1>1. 0 \in S
  <2>1. Completes(0, [n \in 0 .. 0 |-> x])
    OBVIOUS
  <2> QED
    BY <2>1
<1>2. ASSUME NEW m \in Nat, m \in S
      PROVE  m + 1 \in S
  <2>1. PICK g : Completes(m, g)
    BY <1>2
  <2> DEFINE h == [n \in 0 .. m + 1 |-> IF n <= m THEN g[n] ELSE F(g, n)]
  <2>2. ASSUME NEW n \in 0 .. m + 1
        PROVE  h[n] = F(h, n)
    <3>1. n # 0 => n - 1 \in 0 .. m /\ h[n - 1] = g[n - 1]
      OBVIOUS
    <3>2. F(h, n) = F(g, n)
      <4> HIDE DEF h
      <4> QED
        BY <3>1
    <3>3. n <= m => g[n] = F(g, n)
      <4> HIDE DEF F
      <4> QED
        BY <2>1
    <3> QED
      BY <3>2, <3>3
  <2>3. Completes(m + 1, h)
    BY <2>2
  <2> HIDE DEF h, Completes
  <2> QED
    BY <2>3
<1>3. \E g : Completes(N, g)
  <2>1. 0 .. N \subseteq S
    <3> HIDE DEF S
    <3> QED
      BY <1>0, <1>1, <1>2, InductionUpTo DEF S
  <2> QED
    BY <1>0, <2>1, SMTT(30)
<1>4. Completes(N, completed)
  BY <1>3
<1>5. \A n \in 0 .. N : completed[n] = F(completed, n)
  <2> HIDE DEF F
  <2> QED
    BY <1>4
<1> HIDE DEF completed, Part
<1>6. 0 \in T
  <2>1. completed[0] = x
    BY <1>0, <1>5
  <2> QED
    BY <1>0, <1>000, <2>1
<1>7. ASSUME NEW n \in 0 .. N - 1, n \in T
      PROVE  n + 1 \in T
  <2> DEFINE w == completed[n]
             y == BM!CompleteSettings(w)
  <2>1. n + 1 \in 0 .. N /\ (n + 1) - 1 = n /\ n + 1 # 0 /\ N - n # 0
        /\ N - (n + 1) = (N - n) - 1
    BY <1>0
  <2>2. completed[n + 1] = y
    BY <1>5, <2>1
  <2>3. Part(w, n)
    BY <1>7
  <2> HIDE DEF w
  <2>4. /\ BmSaying(y) /\ Len(y.mem.buffer) = Len(w.mem.buffer) - 1
        /\ Answered(y) \cup BmWaits(y) = Answered(w) \cup BmWaits(w)
        /\ BmWaits(y) \cap Answered(y) = {}
    BY <2>1, <2>3, FirstCompleted DEF Part
  <2> HIDE DEF y
  <2>5. Part(y, n + 1)
    BY <2>1, <2>3, <2>4 DEF Part
  <2> QED
    BY <2>1, <2>2, <2>5
<1>8. 0 .. N \subseteq T
  <2>1. T \in SUBSET Nat
    OBVIOUS
  <2> HIDE DEF T
  <2> QED
    BY <1>0, <1>6, <1>7, <2>1, InductionUpTo
<1> DEFINE y == completed[N]
<1>9. Part(y, N) /\ N - N = 0
  BY <1>0, <1>8
<1> HIDE DEF y
<1>10. DOMAIN y.mem.buffer = {}
  <2>1. Len(y.mem.buffer) = 0 /\ IsSeq(y.mem.buffer)
    BY <1>9 DEF Part, BmSaying, IsBm, BmMem, IsBuffer
  <2> QED
    BY <2>1, SeqDomain
<1>11. BmWaits(y) = {}
  BY <1>10 DEF BmWaits, Pending
<1>12. IsBm(y) /\ Answered(y) = BmWaits(x) /\ Again(y) = {}
  BY <1>9, <1>11 DEF Part, BmSaying
<1> QED
  BY <1>00, <1>11, <1>12 DEF y
-----------------------------------------------------------------------------
(* The bearer management adapter with the engine. *)

BmInv ==
  /\ adapter = "BM"
  /\ BmMem(mem)
  /\ open = Pending(mem.buffer) /\ wrong = {}

LEMMA BmX ==
  ASSUME BmInv
  PROVE  BmQuiet(BM!X) /\ BmWaits(BM!X) = open /\ BM!Now \notin open
<1> DEFINE x == BM!X
<1>1. x = [mem |-> mem, db |-> db, map |-> map, said |-> << >>]
  BY DEF BM!X
<1>2. x.mem = mem /\ x.said = << >> /\ IsState(x)
  BY <1>1 DEF IsState
<1> HIDE DEF x
<1>3. BmQuiet(x) /\ BmWaits(x) = open /\ BM!Now \notin open
  BY <1>2 DEF BmInv, BmQuiet, IsBm, BmMem, BmWaits
<1> QED
  BY <1>3 DEF x

LEMMA BmServes ==
  ASSUME BmInv, UNCHANGED adapter, NEW ref, ref \notin open, NEW y,
         BmDone(BM!X, y, ref), BM!Serve({ref}, y)
  PROVE  BmInv'
<1>1. Called({ref}, y)
  BY DEF BM!Serve, Called, Answered, Again
<1>2. IsBm(y)
  BY DEF BmDone
<1>3. CASE BmWaits(y) = open /\ Replied(y, ref)
  <2>1. mem' = y.mem /\ open' = open /\ wrong' = wrong
    BY <1>1, <1>3, CalledFor
  <2> QED
    BY <1>2, <1>3, <2>1 DEF BmInv, IsBm, BmWaits
<1>4. CASE BmWaits(y) = open \cup {ref} /\ y.said = << >>
  <2>1. mem' = y.mem /\ open' = open \cup {ref} /\ wrong' = wrong
    BY <1>1, <1>4, CalledSilently
  <2> QED
    BY <1>2, <1>4, <2>1 DEF BmInv, IsBm, BmWaits
<1> QED
  BY <1>3, <1>4, BmX DEF BmDone

LEMMA NothingWaits == BmMem(BM!NewMem) /\ Pending(BM!NewMem.buffer) = {}
<1>1. << >> \in Seq({}) /\ DOMAIN << >> = {}
  OBVIOUS
<1>2. IsBuffer(<< >>) /\ Pending(<< >>) = {}
  BY <1>1 DEF IsBuffer, Pending, IsSeq
<1> QED
  BY <1>2 DEF BM!NewMem, BmMem

LEMMA BmInitial ==
  ASSUME adapter = "BM", BM!Init
  PROVE  BmInv
<1>1. mem = BM!NewMem /\ open = {} /\ wrong = {}
  BY DEF BM!Init, BM!DmInit
<1> QED
  BY <1>1, NothingWaits DEF BmInv

LEMMA BmStep ==
  ASSUME BmInv, UNCHANGED adapter, BM!Next
  PROVE  BmInv'
<1>1. BmQuiet(BM!X) /\ BmWaits(BM!X) = open /\ BM!Now \notin open
  BY BmX
<1>2. \A ref : ref.op # "now" /\ ref \notin open => BmAsked(BM!X, ref)
  <2>1. BM!Now.op = "now"
    BY DEF BM!Now
  <2> QED
    BY <1>1, <2>1 DEF BmAsked
<1>3. /\ \A name : BM!NodeRef(name).op # "now"
      /\ \A name, leaf, text : BM!LeafRef(name, leaf, text).op # "now"
      /\ \A names : BM!DeleteRef(names).op # "now"
      /\ \A name, leaf : BM!UnsetRef(name, leaf).op # "now" /\ BM!GetRef(name, leaf).op # "now"
  BY DEF BM!NodeRef, BM!LeafRef, BM!DeleteRef, BM!UnsetRef, BM!GetRef
<1>4. CASE BM!AddNode
  <2>1. PICK name \in BmNames : /\ BM!NodeRef(name) \notin open
                                /\ BM!Serve({BM!NodeRef(name)},
                                            BM!AddNodeObject(BM!X, name, BM!NodeRef(name)))
    BY <1>4 DEF BM!AddNode, BM!Free
  <2> QED
    BY <1>2, <1>3, <2>1, BmNodeAdded, BmServes
<1>5. CASE BM!UpdateLeaf
  <2>1. PICK name \in BmNames, leaf \in BmLeaves : \E obj \in BmObjects[leaf] :
          LET ref == BM!LeafRef(name, leaf, obj.text)
          IN  ref \notin open /\ BM!Serve({ref}, BM!UpdateLeafObject(BM!X, name, leaf, obj, ref))
    BY <1>5 DEF BM!UpdateLeaf, BM!Free
  <2>2. PICK obj \in BmObjects[leaf] :
          LET ref == BM!LeafRef(name, leaf, obj.text)
          IN  ref \notin open /\ BM!Serve({ref}, BM!UpdateLeafObject(BM!X, name, leaf, obj, ref))
    BY <2>1
  <2> QED
    BY <1>2, <1>3, <2>2, BmLeafUpdated, BmServes
<1>6. CASE BM!Delete
  <2>1. PICK name \in BmNames, leaf \in {BM!Node, "EmbeddedSNAP", "Name"} :
          LET ref == IF leaf = BM!Node THEN BM!DeleteRef({name}) ELSE BM!UnsetRef(name, leaf)
          IN  ref \notin open /\ BM!Serve({ref}, BM!DeleteObject(BM!X, name, leaf, ref))
    BY <1>6 DEF BM!Delete
  <2> DEFINE ref == IF leaf = BM!Node THEN BM!DeleteRef({name}) ELSE BM!UnsetRef(name, leaf)
  <2>2. ref.op # "now" /\ ref \notin open
        /\ BM!Serve({ref}, BM!DeleteObject(BM!X, name, leaf, ref))
    BY <1>3, <2>1
  <2> HIDE DEF ref
  <2> QED
    BY <1>2, <2>2, BmObjectDeleted, BmServes
<1>7. CASE BM!Fetch
  <2>1. PICK name \in BmNames, leaf \in BmLeaves :
          LET ref == BM!GetRef(name, leaf)
          IN  ref \notin open /\ BM!Serve({ref}, BM!FetchLeafObject(BM!X, name, leaf, ref))
    BY <1>7 DEF BM!Fetch, BM!Free, BM!FetchLeafObjectSize
  <2> QED
    BY <1>2, <1>3, <2>1, BmLeafFetched, BmServes
<1>8. CASE BM!List
  <2>1. CASE BM!Serve({BM!Now}, BM!ListSnaps(BM!X, BM!Now))
    BY <1>1, <2>1, SnapsListed, BmServes
  <2>2. ASSUME NEW name \in BmNames, BM!GetRef(name, BM!Node) \notin open,
               BM!Serve({BM!GetRef(name, BM!Node)}, BM!ListSnap(BM!X, name, BM!GetRef(name, BM!Node)))
        PROVE  BmInv'
    BY <1>2, <1>3, <2>2, SnapListed, BmServes
  <2> QED
    BY <1>8, <2>1, <2>2 DEF BM!List, BM!Free
<1>9. CASE BM!Execute
  <2>1. BM!Serve({BM!Now}, BM!SetStatus(BM!X, BM!Now, "EError"))
    BY <1>9 DEF BM!Execute, BM!ExecuteCommand
  <2> QED
    BY <1>1, <2>1, BmStatus, BmServes
<1>10. CASE BM!Complete
  <2> DEFINE y == BM!CompleteOutstandingCmds(BM!X)
  <2>1. IsBm(y) /\ BmWaits(y) = {} /\ Answered(y) = open /\ Again(y) = {}
    BY <1>1, BmCompleted
  <2>2. Called({}, y)
    BY <1>10 DEF BM!Complete, BM!Serve, Called, Answered, Again
  <2> HIDE DEF y
  <2>3. mem' = y.mem /\ open' = {} /\ wrong' = wrong
    BY <2>1, <2>2 DEF Called
  <2> QED
    BY <2>1, <2>3 DEF BmInv, IsBm, BmWaits
<1>11. CASE BM!EndSession
  <2>1. mem' = BM!NewMem /\ open' = {} /\ wrong' = wrong
    BY <1>11 DEF BM!EndSession, BM!EndWith
  <2> QED
    BY <2>1, NothingWaits DEF BmInv
<1>12. CASE BM!UserDeletes
  <2>1. mem' = mem /\ open' = open /\ wrong' = wrong
    BY <1>12 DEF BM!UserDeletes, BM!Elsewhere
  <2> QED
    BY <2>1 DEF BmInv
<1> QED
  BY <1>4, <1>5, <1>6, <1>7, <1>8, <1>9, <1>10, <1>11, <1>12 DEF BM!Next
-----------------------------------------------------------------------------
(* The adapters of services together. *)

ServicesInv == MailInv \/ MmsInv \/ BmInv

LEMMA ServicesInitial ==
  ASSUME ServicesInit
  PROVE  ServicesInv
BY MailInitial, MmsInitial, BmInitial DEF ServicesInit, ServicesInv

LEMMA ServicesStep ==
  ASSUME ServicesInv, [ServicesNext]_runVars
  PROVE  ServicesInv' /\ (adapter = "MM" => SameLocks(db, db'))
<1>1. CASE UNCHANGED runVars
  BY <1>1, SameLocksReflexive
     DEF ServicesInv, MailInv, MmsInv, BmInv, HeldIn, runVars, dmVars
<1>2. CASE ServicesNext /\ MmsInv
  BY <1>2, MmsStep DEF ServicesInv, ServicesNext, MmsInv
<1>3. CASE ServicesNext /\ MailInv
  BY <1>3, MailStep DEF ServicesInv, ServicesNext, MailInv
<1>4. CASE ServicesNext /\ BmInv
  BY <1>4, BmStep DEF ServicesInv, ServicesNext, BmInv
<1> QED
  BY <1>1, <1>2, <1>3, <1>4 DEF ServicesInv

LEMMA ServicesInvariant == ServicesSpec => []ServicesInv
BY ServicesInitial, ServicesStep, PTL DEF ServicesSpec

\* An access point that is protected is protected after every command, and one that
\* is not stays open (UpdateMMSAddrL lifts the protection to write and puts it back).
THEOREM StaysProtectedAlways == ServicesSpec => StaysProtected
<1>1. ServicesInv /\ [ServicesNext]_runVars
      => [adapter = "MM" => \A p \in DOMAIN db.wap : db'.wap[p].locked = db.wap[p].locked]_runVars
  BY ServicesStep DEF SameLocks
<1> QED
  BY <1>1, ServicesInvariant, PTL DEF ServicesSpec, StaysProtected

\* There is a default mailbox as long as there is any, whoever deletes the default
\* (DeleteObjectL, ValidateAndStoreSettingsL).
THEOREM DefaultExistsAlways == ServicesSpec => []DefaultExists
<1>1. ServicesInv => DefaultExists
  BY DEF ServicesInv, MailInv, MmsInv, BmInv, MailDb, DefaultExists
<1> QED
  BY <1>1, ServicesInvariant, PTL DEF ServicesSpec

\* No command to mailboxes, multimedia messages or destinations is answered twice or
\* without being asked, and those that are not answered yet are just those that the
\* adapter holds on to.
THEOREM ServicesAnswerOnce == ServicesSpec => [](AnsweredOnce /\ NothingLost)
<1>1. MailInv => open = EM!Held
  BY DEF MailInv, EM!Held, Pending, Refs
<1>2. MmsInv => open = MM!Held
  BY DEF MmsInv, MM!Held, HeldIn
<1>3. BmInv => open = BM!Held
  BY DEF BmInv, BM!Held, Pending, Refs
<1>4. ServicesInv => NothingLost
  BY <1>1, <1>2, <1>3 DEF ServicesInv, MailInv, MmsInv, BmInv, NothingLost
<1>5. ServicesInv => AnsweredOnce
  BY DEF ServicesInv, MailInv, MmsInv, BmInv, AnsweredOnce
<1> QED
  BY <1>4, <1>5, ServicesInvariant, PTL

-----------------------------------------------------------------------------
(* Firmware updates: the inductive invariant, of a state that a handler gets or leaves. *)

Rows == [uri : {"", "Exec"}, server : Servers \cup {NoServer},
         correlator : Servers \cup {NoServer}, result : {NullResult, "final"}]
Engines == [state : {"EIdle", "EDownload", "EDownloadAndUpdate", "EStartingUpdate", "EDone"},
            result : {NoResult, Success}]
Tables == UNION {[S -> Rows] : S \in SUBSET Nat}
Mems == [server : Servers \cup {NoServer},
         alerts : SUBSET [id : Nat, correlator : Servers \cup {NoServer}]]
Dbs == [obj : Tables, last : Nat, engine : [1 .. MaxId -> Engines]]

IsFota(x) ==
  x \in [mem : Mems, db : Dbs, map : [DOMAIN x.map -> Nat], said : {x.said}]

\* A name has a row, which no other name has, and which the table gave.
Mapped(x) ==
  /\ \A id \in DOMAIN x.db.obj : id <= x.db.last
  /\ \A name \in DOMAIN x.map : Exists(x, x.map[name])
  /\ \A name, other \in DOMAIN x.map : x.map[name] = x.map[other] => name = other

\* A row has the correlator of the server it has.
Correlated(x) ==
  /\ \A id \in DOMAIN x.db.obj :
       x.db.obj[id].server # NoServer => x.db.obj[id].correlator = x.db.obj[id].server
  /\ \A a \in x.mem.alerts : x.mem.server # NoServer /\ a.correlator = x.mem.server

Good(x) == IsFota(x) /\ Mapped(x) /\ Correlated(x)
FotaInv == Good(X) /\ open = {} /\ wrong = {}

USE NoSuchServer, PredefinedIsSeq, MaxIdIsNat

-----------------------------------------------------------------------------
(* Answers. *)

\* An answer changes what was said only.
LEMMA StatusSet ==
  ASSUME NEW x, IsFota(x), x.said = << >>, NEW ref, NEW status
  PROVE  SetStatus(x, ref, status)
         = [mem |-> x.mem, db |-> x.db, map |-> x.map,
            said |-> <<[ref |-> ref, status |-> status]>>]
<1>1. Append(x.said, [ref |-> ref, status |-> status]) = <<[ref |-> ref, status |-> status]>>
  OBVIOUS
<1> QED
  BY <1>1 DEF SetStatus, IsFota

\* A command that is answered at once, and is no deletion, keeps what its handler
\* keeps.
LEMMA AnsweredStep ==
  ASSUME FotaInv, NEW x, Good(x), x.said = << >>, NEW ref, NEW status,
         ref.op # "delete" \/ status # "EOk", Serve({ref}, SetStatus(x, ref, status))
  PROVE  FotaInv'
<1> DEFINE y == SetStatus(x, ref, status)
<1>1. y = [mem |-> x.mem, db |-> x.db, map |-> x.map, said |-> <<[ref |-> ref, status |-> status]>>]
  BY StatusSet DEF Good
<1> HIDE DEF y
<1>2. /\ mem' = y.mem /\ db' = y.db /\ map' = Without(y.map, {})
      /\ open' = open \ {ref} /\ wrong' = wrong
  BY <1>1, ServedOnce DEF y
<1>3. Without(x.map, {}) = x.map
  BY DEF Without, Good, IsFota
<1>4. mem' = x.mem /\ db' = x.db /\ map' = x.map /\ open' = {} /\ wrong' = {}
  BY <1>1, <1>2, <1>3 DEF FotaInv
<1>5. X' = [mem |-> x.mem, db |-> x.db, map |-> x.map, said |-> << >>]
  BY <1>4 DEF X
<1>6. Good(X')
  BY <1>5 DEF Good, IsFota, Mapped, Correlated, Exists
<1> QED
  BY <1>4, <1>6 DEF FotaInv

-----------------------------------------------------------------------------
(* Predefined objects. *)

\* A new object takes the next identifier, which no name has.
LEMMA ObjectAdded ==
  ASSUME NEW x, Good(x), NEW name
  PROVE  LET y == SetMapping(AddFwObject(x), name, x.db.last + 1)
         IN  Good(y) /\ y.mem = x.mem /\ y.said = x.said
<1> DEFINE id == x.db.last + 1
           d == [obj |-> With(x.db.obj, id, Row), last |-> id, engine |-> x.db.engine]
           y == [mem |-> x.mem, db |-> d, map |-> With(x.map, name, id), said |-> x.said]
<1>1. SetMapping(AddFwObject(x), name, id) = y
  <2>1. AddFwObject(x) = [mem |-> x.mem, db |-> d, map |-> x.map, said |-> x.said]
    BY DEF AddFwObject, Good, IsFota
  <2> HIDE DEF d
  <2> QED
    BY <2>1 DEF SetMapping
<1>2. Row \in Rows
  BY DEF Row, Rows, NullResult, NoServer
<1>3. d.obj \in Tables /\ d \in Dbs
  <2>1. PICK S \in SUBSET Nat : x.db.obj \in [S -> Rows]
    BY DEF Good, IsFota, Dbs, Tables
  <2>2. d.obj \in [S \cup {id} -> Rows] /\ S \cup {id} \in SUBSET Nat
    BY <1>2, <2>1 DEF With, Good, IsFota, Dbs
  <2> QED
    BY <2>2 DEF Tables, Good, IsFota, Dbs
<1>4. IsFota(y)
  BY <1>3 DEF IsFota, Good, With, Dbs
<1>5. Mapped(y)
  <2>1. \A i \in DOMAIN y.db.obj : i <= y.db.last
    <3>1. DOMAIN x.db.obj \subseteq Nat /\ x.db.last \in Nat
      BY DEF Good, IsFota, Dbs, Tables
    <3>2. DOMAIN y.db.obj = DOMAIN x.db.obj \cup {id} /\ y.db.last = id
      BY DEF With
    <3>3. \A i \in DOMAIN x.db.obj : i <= x.db.last
      BY DEF Good, Mapped
    <3> HIDE DEF y
    <3> QED
      BY <3>1, <3>2, <3>3
  <2>2. \A n \in DOMAIN y.map : Exists(y, y.map[n])
    BY DEF Mapped, Good, IsFota, Exists, With, Dbs
  <2>3. \A n \in DOMAIN x.map : x.map[n] # id
    BY DEF Mapped, Good, IsFota, Exists, Dbs
  <2>4. \A n, other \in DOMAIN y.map : y.map[n] = y.map[other] => n = other
    BY <2>3 DEF Mapped, Good, IsFota, With
  <2> QED
    BY <2>1, <2>2, <2>4 DEF Mapped
<1>6. Correlated(y)
  BY DEF Correlated, Good, IsFota, With, Dbs, Row
<1> QED
  BY <1>1, <1>4, <1>5, <1>6 DEF Good

\* There is a first predefined object that has its name, or none has.
LEMMA MissingCounts ==
  ASSUME NEW x
  PROVE  Missing(x) \in 0 .. Len(Predefined)
<1> DEFINE N == Len(Predefined)
           S == {n \in 0 .. N : n = N \/ Predefined[n + 1] \in DOMAIN x.map}
<1>1. N \in Nat /\ N \in S /\ S \in SUBSET Nat
  OBVIOUS
<1>2. PICK n \in S : \A k \in S : n <= k
  BY <1>1, LeastNumber
<1>3. ASSUME NEW i \in 1 .. n
      PROVE  Predefined[i] \notin DOMAIN x.map
  <2>1. n \in Nat /\ i - 1 < n /\ i - 1 \in Nat
    BY <1>1
  <2>3. i - 1 \notin S
    <3> HIDE DEF S
    <3> QED
      BY <1>2, <2>1
  <2>2. i - 1 \in 0 .. N /\ (i - 1) + 1 = i
    BY <1>1, <1>2
  <2> QED
    BY <2>3, <2>2
<1>4. \E m \in 0 .. N : /\ \A i \in 1 .. m : Predefined[i] \notin DOMAIN x.map
                        /\ m = N \/ Predefined[m + 1] \in DOMAIN x.map
  BY <1>2, <1>3
<1> QED
  BY <1>4 DEF Missing

\* The predefined objects are added one after the other: the recursion is defined,
\* and every step of it keeps the invariant.
LEMMA PredefinedAdded ==
  ASSUME NEW x, Good(x), NEW full
  PROVE  LET y == CheckAndAddPredefinedNode(x, full)
         IN  Good(y) /\ y.mem = x.mem /\ y.said = x.said
<1> DEFINE N == Len(Predefined)
           F(g, n) == CASE n = 0 -> x
                        [] n > 0 /\ Predefined[n] \in full -> g[n - 1]
                        [] OTHER -> AddPredefined(g[n - 1], Predefined[n])
           Adds(m, g) == g = [n \in 0 .. m |-> F(g, n)]
           added == CHOOSE g : Adds(N, g)
           S == {m \in Nat : \E g : Adds(m, g)}
           T == {n \in 0 .. N : Good(added[n]) /\ added[n].mem = x.mem /\ added[n].said = x.said}
<1>0. N \in Nat
  OBVIOUS
<1>1. 0 \in S
  <2>1. Adds(0, [n \in 0 .. 0 |-> x])
    OBVIOUS
  <2> QED
    BY <2>1
<1>2. ASSUME NEW m \in Nat, m \in S
      PROVE  m + 1 \in S
  <2>1. PICK g : Adds(m, g)
    BY <1>2
  <2> DEFINE h == [n \in 0 .. m + 1 |-> IF n <= m THEN g[n] ELSE F(g, n)]
  <2>2. ASSUME NEW n \in 0 .. m + 1
        PROVE  h[n] = F(h, n)
    <3>1. n > 0 => n - 1 \in 0 .. m /\ h[n - 1] = g[n - 1]
      OBVIOUS
    <3>2. F(h, n) = F(g, n)
      BY <3>1
    <3>3. n <= m => g[n] = F(g, n)
      BY <2>1
    <3> QED
      BY <3>2, <3>3
  <2>3. Adds(m + 1, h)
    BY <2>2
  <2> HIDE DEF h, Adds
  <2> QED
    BY <2>3
<1>3. \E g : Adds(N, g)
  <2>1. 0 .. N \subseteq S
    <3> HIDE DEF S
    <3> QED
      BY <1>0, <1>1, <1>2, InductionUpTo DEF S
  <2> QED
    BY <1>0, <2>1
<1>4. Adds(N, added)
  BY <1>3
<1>5. \A n \in 0 .. N : added[n] = F(added, n)
  BY <1>4
<1> HIDE DEF added
<1>6. 0 \in T
  BY <1>0, <1>5
<1>7. ASSUME NEW n \in 0 .. N - 1, n \in T
      PROVE  n + 1 \in T
  <2>1. added[n + 1] = IF Predefined[n + 1] \in full THEN added[n]
                       ELSE AddPredefined(added[n], Predefined[n + 1])
    BY <1>0, <1>5, SMTT(30)
  <2>2. LET y == AddPredefined(added[n], Predefined[n + 1])
        IN  Good(y) /\ y.mem = x.mem /\ y.said = x.said
    BY <1>7, ObjectAdded DEF AddPredefined
  <2> QED
    BY <1>0, <1>7, <2>1, <2>2
<1>8. 0 .. N \subseteq T
  <2>1. T \in SUBSET Nat
    OBVIOUS
  <2> HIDE DEF T
  <2> QED
    BY <1>0, <1>6, <1>7, <2>1, InductionUpTo
<1>9. CheckAndAddPredefinedNode(x, full) = added[Missing(x)]
  BY DEF CheckAndAddPredefinedNode, added
<1> QED
  BY <1>8, <1>9, MissingCounts

-----------------------------------------------------------------------------
(* Rows. *)

\* A state with other rows for the same identifiers, that have the correlators of
\* their servers, and another engine.
LEMMA RowsChanged ==
  ASSUME NEW x, Good(x), NEW o \in [DOMAIN x.db.obj -> Rows],
         \A id \in DOMAIN o : o[id].server # NoServer => o[id].correlator = o[id].server,
         NEW e \in [1 .. MaxId -> Engines], NEW y,
         y = [mem |-> x.mem, db |-> [obj |-> o, last |-> x.db.last, engine |-> e],
              map |-> x.map, said |-> x.said]
  PROVE  Good(y)
<1>1. DOMAIN x.db.obj \in SUBSET Nat
  BY DEF Good, IsFota, Dbs, Tables
<1>2. y.db \in Dbs
  BY <1>1 DEF Good, IsFota, Dbs, Tables
<1>3. IsFota(y)
  BY <1>2 DEF Good, IsFota
<1>4. Mapped(y)
  BY DEF Good, Mapped, Exists
<1>5. Correlated(y)
  BY DEF Good, Correlated
<1> QED
  BY <1>3, <1>4, <1>5 DEF Good

\* A row that is written.
LEMMA RowWritten ==
  ASSUME NEW x, Good(x), NEW id, NEW row,
         Exists(x, id) => row \in Rows /\ (row.server # NoServer => row.correlator = row.server)
  PROVE  LET y == Written(x, id, row)
         IN  Good(y) /\ y.mem = x.mem /\ y.said = x.said /\ DOMAIN y.db.obj = DOMAIN x.db.obj
<1>1. CASE ~Exists(x, id)
  BY <1>1 DEF Written
<1>2. CASE Exists(x, id)
  <2> DEFINE o == [x.db.obj EXCEPT ![id] = row]
             y == [mem |-> x.mem, db |-> [obj |-> o, last |-> x.db.last, engine |-> x.db.engine],
                   map |-> x.map, said |-> x.said]
  <2>1. Written(x, id, row) = y
    BY <1>2 DEF Written, Good, IsFota, Dbs
  <2>2. x.db.obj \in [DOMAIN x.db.obj -> Rows] /\ x.db.engine \in [1 .. MaxId -> Engines]
    BY DEF Good, IsFota, Dbs, Tables
  <2>3. o \in [DOMAIN x.db.obj -> Rows]
    BY <1>2, <2>2
  <2>4. \A i \in DOMAIN o : o[i].server # NoServer => o[i].correlator = o[i].server
    BY <1>2, <2>2 DEF Good, Correlated
  <2>5. Good(y)
    <3> HIDE DEF o
    <3> QED
      BY <2>2, <2>3, <2>4, RowsChanged
  <2> QED
    BY <2>1, <2>3, <2>5
<1> QED
  BY <1>1, <1>2

\* The row of an object.
LEMMA RowOf ==
  ASSUME NEW x, Good(x), NEW id, Exists(x, id)
  PROVE  /\ x.db.obj[id] \in Rows
         /\ x.db.obj[id].server # NoServer => x.db.obj[id].correlator = x.db.obj[id].server
         /\ x.mem.server \in Servers \cup {NoServer}
<1>1. x.db.obj \in [DOMAIN x.db.obj -> Rows]
  BY DEF Good, IsFota, Dbs, Tables
<1>2. x.mem.server \in Servers \cup {NoServer}
  <2>1. x.mem \in Mems
    BY DEF Good, IsFota
  <2> QED
    BY <2>1 DEF Mems
<1> QED
  BY <1>1, <1>2 DEF Exists, Good, Correlated

\* The result is a column of its own.
LEMMA ResultSet ==
  ASSUME NEW x, Good(x), NEW id, NEW result \in {"waiting", "final"}
  PROVE  LET y == SetFinalResult(x, id, result)
         IN  Good(y) /\ y.mem = x.mem /\ y.said = x.said /\ DOMAIN y.db.obj = DOMAIN x.db.obj
<1> DEFINE row == [x.db.obj[id] EXCEPT !.result = result]
<1>1. Exists(x, id) => row \in Rows /\ (row.server # NoServer => row.correlator = row.server)
  BY RowOf, ZenonT(60) DEF Rows, NullResult
<1> HIDE DEF row
<1> QED
  BY <1>1, RowWritten DEF SetFinalResult, row

\* SaveExecInfoL leaves in a row the correlator and the server of the session, or
\* those it had.
LEMMA InfoSaved ==
  ASSUME NEW x, Good(x), NEW id, NEW long \in BOOLEAN
  PROVE  LET y == SaveExecInfo(x, id, long)
         IN  Good(y) /\ y.mem = x.mem /\ y.said = x.said /\ DOMAIN y.db.obj = DOMAIN x.db.obj
<1> DEFINE Fine(r) == r \in Rows /\ (r.server # NoServer => r.correlator = r.server)
           row == IF long THEN Asked(x, id)
                  ELSE SetServerInfo(SetCorrelator(Asked(x, id), x.mem.server), x.mem.server)
<1>1. ASSUME Exists(x, id)
      PROVE  Fine(row)
  <2>1. /\ x.db.obj[id] \in Rows /\ x.mem.server \in Servers \cup {NoServer}
        /\ x.db.obj[id].server # NoServer => x.db.obj[id].correlator = x.db.obj[id].server
    BY <1>1, RowOf
  <2> DEFINE r == [x.db.obj[id] EXCEPT !.result = NullResult]
  <2>2. Fine(r)
    BY <2>1 DEF Rows, NullResult
  <2> HIDE DEF r
  <2>3. Fine(SetMgmtUri(r))
    BY <2>2 DEF Rows, SetMgmtUri
  <2>4. PICK a \in Rows : a = Asked(x, id) /\ Fine(a)
    BY <2>3 DEF Asked, r
  <2>5. PICK c \in Rows : c = SetCorrelator(a, x.mem.server) /\ c.correlator = x.mem.server
    <3>1. [a EXCEPT !.correlator = x.mem.server] \in Rows
      BY <2>1 DEF Rows
    <3>2. [a EXCEPT !.correlator = x.mem.server].correlator = x.mem.server
      BY DEF Rows
    <3> QED
      BY <3>1, <3>2 DEF SetCorrelator
  <2>6. Fine(SetServerInfo(c, x.mem.server))
    BY <2>1, <2>5 DEF Rows, SetServerInfo
  <2> QED
    BY <2>4, <2>5, <2>6
<1> HIDE DEF row
<1> QED
  BY <1>1, RowWritten DEF SaveExecInfo, row

-----------------------------------------------------------------------------
(* The steps. *)

\* A call that is about no command.
LEMMA SilentStep ==
  ASSUME FotaInv, NEW x, Good(x), x.said = << >>, Serve({}, x)
  PROVE  FotaInv'
<1>1. mem' = x.mem /\ db' = x.db /\ map' = x.map /\ open' = {} /\ wrong' = {}
  BY ServedSilently DEF Without, Good, IsFota, FotaInv
<1>2. X' = [mem |-> x.mem, db |-> x.db, map |-> x.map, said |-> << >>]
  BY <1>1 DEF X
<1>3. Good(X')
  BY <1>2 DEF Good, IsFota, Mapped, Correlated, Exists
<1> QED
  BY <1>1, <1>3 DEF FotaInv

\* The state a call begins with.
LEMMA Begins ==
  ASSUME FotaInv
  PROVE  Good(X) /\ X.said = << >> /\ X.mem = mem /\ X.db = db /\ X.map = map
BY DEF FotaInv, X

LEMMA StartSessionStep ==
  ASSUME FotaInv, NEW server \in Servers, StartSession(server)
  PROVE  FotaInv'
<1>1. PICK full : ~Running /\ Serve({}, DDFStructure(X, server, full))
  BY DEF StartSession
<1> DEFINE x == [X EXCEPT !.mem.server = server]
           y == CheckAndAddPredefinedNode(x, full)
           z == MakeGenericAlerts(y)
<1>2. x = [mem |-> [server |-> server, alerts |-> {}], db |-> db, map |-> map, said |-> << >>]
  <2>1. mem.alerts = {} /\ X \in [mem : [server : {mem.server}, alerts : {{}}],
                                  db : {db}, map : {map}, said : {<< >>}]
    BY <1>1, Begins DEF Good, IsFota, Mems, Correlated, Running, X
  <2>2. ASSUME NEW s \in [mem : [server : {mem.server}, alerts : {{}}], db : {db}, map : {map}, said : {<< >>}]
        PROVE  [s EXCEPT !.mem.server = server]
               = [mem |-> [server |-> server, alerts |-> s.mem.alerts], db |-> s.db, map |-> s.map,
                  said |-> s.said]
    OBVIOUS
  <2>3. x = [mem |-> [server |-> server, alerts |-> X.mem.alerts], db |-> X.db, map |-> X.map,
             said |-> X.said]
    BY <2>1, <2>2
  <2> QED
    BY <2>1, <2>3, Begins
<1>3. Good(x) /\ x.mem.server = server /\ x.said = << >>
  <2>1. [server |-> server, alerts |-> {}] \in Mems
    BY DEF Mems
  <2> HIDE DEF x
  <2> QED
    BY <1>2, <2>1, Begins DEF Good, IsFota, Mapped, Correlated, Exists
<1> HIDE DEF x
<1>4. Good(y) /\ y.mem = x.mem /\ y.said = << >>
  BY <1>3, PredefinedAdded
<1> HIDE DEF y
<1>5. PICK ids \in SUBSET DOMAIN y.db.obj :
         /\ \A id \in ids : y.db.obj[id].server = server
         /\ z = [mem |-> [server |-> server,
                         alerts |-> {[id |-> id, correlator |-> y.db.obj[id].correlator] : id \in ids}],
                 db |-> y.db, map |-> y.map, said |-> << >>]
  <2> DEFINE ids == {id \in GetEmptyFinalResults(y) :
                        /\ y.db.obj[id].server = y.mem.server
                        /\ y.db.obj[id].uri # ""
                        /\ y.db.engine[id].result # NoResult
                        /\ y.db.engine[id].state # "EStartingUpdate"}
             alerts == {[id |-> id, correlator |-> y.db.obj[id].correlator] : id \in ids}
  <2>1. ids \in SUBSET DOMAIN y.db.obj /\ \A id \in ids : y.db.obj[id].server = server
    BY <1>3, <1>4 DEF GetEmptyFinalResults
  <2>2. z = [y EXCEPT !.mem.alerts = alerts]
    BY DEF MakeGenericAlerts
  <2>3. y.mem = [server |-> server, alerts |-> {}]
    BY <1>2, <1>4
  <2> HIDE DEF ids
  <2>5. y \in [mem : [server : {server}, alerts : {{}}], db : {y.db}, map : {y.map}, said : {<< >>}]
    BY <1>4, <2>3 DEF Good, IsFota
  <2> HIDE DEF alerts
  <2>4. [y EXCEPT !.mem.alerts = alerts]
        = [mem |-> [server |-> server, alerts |-> alerts], db |-> y.db, map |-> y.map, said |-> << >>]
    BY <2>5
  <2> QED
    BY <2>1, <2>2, <2>4 DEF alerts
<1>6. Good(z)
  <2>1. \A id \in ids : id \in Nat /\ y.db.obj[id].correlator = server
    <3>1. DOMAIN y.db.obj \in SUBSET Nat
      BY <1>4 DEF Good, IsFota, Dbs, Tables
    <3> QED
      BY <1>4, <1>5, <3>1 DEF Good, Correlated, NoServer
  <2>2. z.mem \in Mems
    BY <1>5, <2>1 DEF Mems
  <2> HIDE DEF z
  <2>3. IsFota(z)
    BY <1>4, <1>5, <2>2 DEF Good, IsFota
  <2>4. Mapped(z)
    BY <1>4, <1>5 DEF Good, Mapped, Exists
  <2>5. Correlated(z)
    <3>1. z.mem.server = server /\ server # NoServer
          /\ z.mem.alerts = {[id |-> id, correlator |-> y.db.obj[id].correlator] : id \in ids}
          /\ z.db = y.db
      BY <1>5 DEF NoServer
    <3>2. \A a \in z.mem.alerts : a.correlator = server
      BY <2>1, <3>1
    <3> QED
      BY <1>4, <3>1, <3>2 DEF Good, Correlated
  <2> QED
    BY <2>3, <2>4, <2>5 DEF Good
<1>7. DDFStructure(X, server, full) = z
  BY DEF DDFStructure, x, y
<1> HIDE DEF z
<1> QED
  BY <1>1, <1>5, <1>6, <1>7, SilentStep

LEMMA AddStep ==
  ASSUME FotaInv, AddNode \/ AddChild
  PROVE  FotaInv'
<1>1. PICK name, parent, rep, full : Serve({Now}, AddNodeObject(X, name, parent, Now, rep, full))
  BY DEF AddNode, AddChild
<1>2. PICK y, status : /\ AddNodeObject(X, name, parent, Now, rep, full) = SetStatus(y, Now, status)
                       /\ Good(y) /\ y.said = << >>
  BY Begins, ObjectAdded DEF AddNodeObject
<1> QED
  BY <1>1, <1>2, AnsweredStep DEF Now

LEMMA AnswerStep ==
  ASSUME FotaInv, UpdateLeaf \/ Fetch \/ Other
  PROVE  FotaInv'
<1>1. \E status : Serve({Now}, SetStatus(X, Now, status))
  BY DEF UpdateLeaf, Fetch, Other, UpdateLeafObject, FetchLeafObject, FetchLeafObjectSize,
         ChildURIList, Refuse, UpdateStream
<1> QED
  BY <1>1, Begins, AnsweredStep DEF Now

LEMMA EngineIsIdle ==
  ASSUME NEW m, NEW o, NEW l, NEW e, NEW p, NEW q, NEW id
  PROVE  [[mem |-> m, db |-> [obj |-> o, last |-> l, engine |-> e], map |-> p, said |-> q]
          EXCEPT !.db.engine[id] = Idle]
         = [mem |-> m, db |-> [obj |-> o, last |-> l, engine |-> [e EXCEPT ![id] = Idle]],
            map |-> p, said |-> q]
BY SMTT(30)

\* The row and the name of a deleted object go together, and no other name had the
\* row.
LEMMA DeleteStep ==
  ASSUME FotaInv, Delete
  PROVE  FotaInv'
<1> DEFINE ref(name) == DeleteRef({name})
<1>1. PICK name : Serve({ref(name)}, DeleteObject(X, name, Luid(map, name), ref(name)))
  BY DEF Delete
<1> DEFINE id == Luid(map, name)
<1>2. ref(name).op = "delete" /\ ref(name).names = {name}
  BY DEF DeleteRef
<1>3. CASE \E status \in {"ENotFound", "ENotAllowed"} :
              DeleteObject(X, name, id, ref(name)) = SetStatus(X, ref(name), status)
  <2> HIDE DEF ref
  <2> QED
    BY <1>1, <1>2, <1>3, Begins, AnsweredStep
<1>4. CASE /\ id # NoLuid /\ Exists(X, id)
           /\ DeleteObject(X, name, id, ref(name))
              = SetStatus([DeleteFwObject(X, id) EXCEPT !.db.engine[id] = Idle], ref(name), "EOk")
  <2> DEFINE o == Without(db.obj, {id})
             e == [db.engine EXCEPT ![id] = Idle]
             d == [obj |-> o, last |-> db.last, engine |-> e]
             y == [mem |-> mem, db |-> d, map |-> map, said |-> << >>]
  <2>1. [DeleteFwObject(X, id) EXCEPT !.db.engine[id] = Idle] = y
    <3>1. PICK s : s = X /\ Good(s)
      BY Begins
    <3> DEFINE z == [mem |-> s.mem, db |-> [obj |-> Without(s.db.obj, {id}), last |-> s.db.last,
                                            engine |-> s.db.engine], map |-> s.map, said |-> s.said]
    <3>2. DeleteFwObject(s, id) = z
      BY <3>1 DEF DeleteFwObject, Good, IsFota, Dbs
    <3>3. [z EXCEPT !.db.engine[id] = Idle]
          = [mem |-> s.mem, db |-> [obj |-> Without(s.db.obj, {id}), last |-> s.db.last,
                                    engine |-> [s.db.engine EXCEPT ![id] = Idle]],
             map |-> s.map, said |-> s.said]
      BY EngineIsIdle, SMTT(60)
    <3> QED
      BY <3>1, <3>2, <3>3, Begins
  <2>2. Serve({ref(name)}, SetStatus(y, ref(name), "EOk"))
    BY <1>1, <1>4, <2>1
  <2>3. db.obj \in [DOMAIN db.obj -> Rows] /\ DOMAIN db.obj \in SUBSET Nat
        /\ db.last \in Nat /\ db.engine \in [1 .. MaxId -> Engines]
    BY Begins DEF Good, IsFota, Dbs, Tables
  <2>4. /\ o \in [DOMAIN db.obj \ {id} -> Rows]
        /\ \A i \in DOMAIN o : o[i] = db.obj[i]
    BY <2>3 DEF Without
  <2>5. d \in Dbs
    <3>1. Idle \in Engines
      BY DEF Idle, Engines, NoResult
    <3>2. e \in [1 .. MaxId -> Engines]
      BY <2>3, <3>1
    <3>3. o \in Tables
      BY <2>3, <2>4 DEF Tables
    <3> HIDE DEF e, o
    <3> QED
      BY <2>3, <3>2, <3>3 DEF Dbs
  <2> HIDE DEF o, e, d, ref
  <2>6. IsFota(y) /\ y.said = << >>
    BY <2>5, Begins DEF Good, IsFota
  <2>7. SetStatus(y, ref(name), "EOk")
        = [mem |-> mem, db |-> d, map |-> map, said |-> <<[ref |-> ref(name), status |-> "EOk"]>>]
    BY <2>6, StatusSet
  <2>8. mem' = mem /\ db' = d /\ map' = Without(map, {name}) /\ open' = {} /\ wrong' = {}
    <3> DEFINE q == SetStatus(y, ref(name), "EOk")
    <3>1. q.said = <<[ref |-> ref(name), status |-> "EOk"]>> /\ q.mem = mem /\ q.db = d /\ q.map = map
      BY <2>7
    <3>2. Serve({ref(name)}, q)
      BY <2>2
    <3> HIDE DEF q
    <3> QED
      BY <1>2, <3>1, <3>2, ServedOnce DEF FotaInv
  <2>9. X' = [mem |-> mem, db |-> d, map |-> Without(map, {name}), said |-> << >>]
    BY <2>8 DEF X
  <2>10. name \in DOMAIN map /\ id = map[name]
    BY <1>4 DEF Luid
  <2>11. \A n \in DOMAIN map \ {name} : map[n] # id
    BY <2>10, Begins DEF Good, Mapped
  <2>12. d.obj = o /\ d.last = db.last
    BY DEF d
  <2>13. map \in [DOMAIN map -> Nat]
    BY Begins DEF Good, IsFota
  <2> HIDE DEF id
  <2>14. IsFota(X')
    <3>1. Without(map, {name}) \in [DOMAIN map \ {name} -> Nat]
      BY <2>13 DEF Without
    <3>2. mem \in Mems
      BY Begins DEF Good, IsFota
    <3> QED
      BY <2>5, <2>9, <3>1, <3>2 DEF IsFota
  <2>15. Mapped(X')
    <3>1. DOMAIN Without(map, {name}) = DOMAIN map \ {name}
          /\ \A n \in DOMAIN map \ {name} : Without(map, {name})[n] = map[n]
      BY DEF Without
    <3>2. \A n \in DOMAIN map : map[n] \in DOMAIN db.obj
      BY Begins DEF Good, Mapped, Exists
    <3>3. \A i \in DOMAIN db.obj : i <= db.last
      BY Begins DEF Good, Mapped
    <3>4. \A n, other \in DOMAIN map : map[n] = map[other] => n = other
      BY Begins DEF Good, Mapped
    <3>5. \A n \in DOMAIN map \ {name} : map[n] \in DOMAIN d.obj
      BY <2>4, <2>11, <2>12, <3>2
    <3>6. \A i \in DOMAIN d.obj : i <= d.last
      BY <2>4, <2>12, <3>3
    <3>7. X'.map = Without(map, {name}) /\ X'.db = d
      BY <2>9
    <3>8. \A n \in DOMAIN X'.map : n \in DOMAIN map \ {name} /\ X'.map[n] = map[n]
      BY <3>1, <3>7
    <3>9. \A n \in DOMAIN X'.map : X'.map[n] \in DOMAIN X'.db.obj
      BY <3>5, <3>7, <3>8
    <3>10. \A n, other \in DOMAIN X'.map : X'.map[n] = X'.map[other] => n = other
      BY <3>4, <3>8
    <3> QED
      BY <3>6, <3>7, <3>9, <3>10 DEF Mapped, Exists
  <2>16. Correlated(X')
    BY <2>4, <2>9, <2>12, Begins DEF Good, Correlated
  <2> QED
    BY <2>8, <2>14, <2>15, <2>16 DEF FotaInv, Good
<1> QED
  BY <1>3, <1>4 DEF DeleteObject

LEMMA ExecuteStep ==
  ASSUME FotaInv, Execute
  PROVE  FotaInv'
<1>1. PICK name \in Names \cup ToSet(Predefined), target \in May("Exec"), long, rep \in BOOLEAN,
           err \in {"KErrNone", "KErrArgument", "KErrGeneral"} :
         Serve({Now}, ExecuteCommand(X, Luid(map, name), target, long, Now, rep, err))
  BY DEF Execute
<1> DEFINE id == Luid(map, name)
           s == SaveExecInfo(X, id, long)
<1>2. Good(s) /\ s.mem = mem /\ s.said = << >> /\ DOMAIN s.db.obj = DOMAIN db.obj
  BY Begins, InfoSaved
<1> HIDE DEF s
<1>3. PICK y, status : /\ ExecuteCommand(X, id, target, long, Now, rep, err) = SetStatus(y, Now, status)
                       /\ Good(y) /\ y.said = << >>
  <2>1. CASE ExecuteCommand(X, id, target, long, Now, rep, err) \in
                {SetStatus(X, Now, "EError"), SetStatus(X, Now, "ENotFound"),
                 SetStatus(s, Now, MapErrorToStatus("KErrOverflow"))}
    BY <1>2, <2>1, Begins
  <2>2. CASE ExecuteCommand(X, id, target, long, Now, rep, err) = DoExecDownload(s, id, target, Now, err)
    <3>1. CASE err # "KErrNone"
      BY <1>2, <2>2, <3>1, ResultSet DEF DoExecDownload, BadUrl, UndefinedError
    <3>2. CASE err = "KErrNone"
      <4> DEFINE v == [state |-> IF target = "Download" THEN "EDownload" ELSE "EDownloadAndUpdate",
                       result |-> NoResult]
                 e == [s.db.engine EXCEPT ![id] = v]
                 y == [mem |-> s.mem, db |-> [obj |-> s.db.obj, last |-> s.db.last, engine |-> e],
                       map |-> s.map, said |-> s.said]
      <4>1. [s EXCEPT !.db.engine[id] = v] = y
        <5>1. ASSUME NEW z, Good(z), NEW i, NEW w
              PROVE  [z EXCEPT !.db.engine[i] = w]
                     = [mem |-> z.mem, db |-> [obj |-> z.db.obj, last |-> z.db.last,
                                               engine |-> [z.db.engine EXCEPT ![i] = w]],
                        map |-> z.map, said |-> z.said]
          <6>1. PICK E : z \in [mem : Mems, db : [obj : Tables, last : Nat, engine : E],
                                map : [DOMAIN z.map -> Nat], said : {z.said}]
            BY <5>1 DEF Good, IsFota, Dbs
          <6> QED
            BY <6>1, SMTT(30)
        <5> QED
          BY <1>2, <5>1
      <4>2. s.db.obj \in [DOMAIN s.db.obj -> Rows] /\ s.db.engine \in [1 .. MaxId -> Engines]
        BY <1>2 DEF Good, IsFota, Dbs, Tables
      <4>3. v \in Engines
        BY DEF Engines, NoResult
      <4>4. e \in [1 .. MaxId -> Engines]
        BY <4>2, <4>3
      <4>5. Good(y) /\ y.said = << >>
        <5>1. \A i \in DOMAIN s.db.obj :
                 s.db.obj[i].server # NoServer => s.db.obj[i].correlator = s.db.obj[i].server
          BY <1>2 DEF Good, Correlated
        <5> HIDE DEF e
        <5> QED
          BY <1>2, <4>2, <4>4, <5>1, RowsChanged
      <4>6. DoExecDownload(s, id, target, Now, err) = SetStatus(y, Now, "EOk")
        BY <3>2, <4>1 DEF DoExecDownload
      <4> QED
        BY <2>2, <4>5, <4>6
    <3> QED
      BY <3>1, <3>2
  <2> QED
    BY <2>1, <2>2 DEF ExecuteCommand, s
<1> QED
  BY <1>1, <1>3, AnsweredStep DEF Now

\* A result that is marked keeps its row's server and correlator.
LEMMA AlertsSentStep ==
  ASSUME FotaInv, NEW server, AlertsSent(server)
  PROVE  FotaInv'
<1>1. PICK cleaned : Serve({}, MarkGenericAlertsSent(X, cleaned))
  BY DEF AlertsSent
<1>2. PICK ids : MarkGenericAlertsSent(X, cleaned) = Marked(X, ids, cleaned)
  BY DEF MarkGenericAlertsSent
<1> DEFINE o == [id \in DOMAIN db.obj |->
                    IF id \in ids THEN [db.obj[id] EXCEPT !.result = "final"] ELSE db.obj[id]]
           e == [id \in DOMAIN db.engine |-> IF id \in ids /\ cleaned THEN Idle ELSE db.engine[id]]
           y == [mem |-> mem, db |-> [obj |-> o, last |-> db.last, engine |-> e], map |-> map,
                 said |-> << >>]
<1>3. Marked(X, ids, cleaned) = y
  BY SMTT(30) DEF Marked, X
<1>4. db.obj \in [DOMAIN db.obj -> Rows] /\ db.engine \in [1 .. MaxId -> Engines]
  BY Begins DEF Good, IsFota, Dbs, Tables
<1>5. o \in [DOMAIN db.obj -> Rows]
      /\ \A id \in DOMAIN o : o[id].server # NoServer => o[id].correlator = o[id].server
  <2>1. ASSUME NEW id \in DOMAIN db.obj
        PROVE  LET r == [db.obj[id] EXCEPT !.result = "final"]
               IN  r \in Rows /\ (r.server # NoServer => r.correlator = r.server)
    BY <1>4, Begins DEF Good, Correlated, Rows, NullResult
  <2>2. \A id \in DOMAIN db.obj :
           db.obj[id].server # NoServer => db.obj[id].correlator = db.obj[id].server
    BY Begins DEF Good, Correlated
  <2> QED
    BY <1>4, <2>1, <2>2
<1>6. e \in [1 .. MaxId -> Engines]
  BY <1>4 DEF Idle, Engines, NoResult
<1>7. Good(y) /\ y.said = << >>
  <2>1. X = [mem |-> mem, db |-> db, map |-> map, said |-> << >>]
    BY DEF X
  <2> HIDE DEF o, e
  <2> QED
    BY <1>5, <1>6, <2>1, Begins, RowsChanged
<1> HIDE DEF y
<1> QED
  BY <1>1, <1>2, <1>3, <1>7, SilentStep

LEMMA EndSessionStep ==
  ASSUME FotaInv, EndSession
  PROVE  FotaInv'
<1>1. X' = [mem |-> [server |-> NoServer, alerts |-> {}], db |-> db, map |-> map, said |-> << >>]
      /\ open' = {} /\ wrong' = {}
  BY DEF EndSession, EndWith, NewMem, X, FotaInv
<1>2. [server |-> NoServer, alerts |-> {}] \in Mems
  BY DEF Mems
<1>3. Good(X')
  BY <1>1, <1>2, Begins DEF Good, IsFota, Mapped, Correlated, Exists
<1> QED
  BY <1>1, <1>3 DEF FotaInv

LEMMA EngineSteps ==
  ASSUME FotaInv, NEW id \in 1 .. MaxId, EngineStep(id) \/ EngineUpdates(id)
  PROVE  FotaInv'
<1>1. PICK v \in Engines : /\ db' = [db EXCEPT !.engine = [@ EXCEPT ![id] = v]]
                          /\ UNCHANGED <<mem, map, open, wrong>>
  BY DEF EngineStep, EngineUpdates, Engines, Success, NoResult
<1> DEFINE e == [db.engine EXCEPT ![id] = v]
           d == [obj |-> db.obj, last |-> db.last, engine |-> e]
<1>2. db' = d
  BY <1>1, Begins DEF Good, IsFota, Dbs
<1>3. db.obj \in [DOMAIN db.obj -> Rows] /\ db.engine \in [1 .. MaxId -> Engines]
  BY Begins DEF Good, IsFota, Dbs, Tables
<1>4. e \in [1 .. MaxId -> Engines]
  BY <1>3
<1> HIDE DEF e
<1>5. X' = [mem |-> mem, db |-> d, map |-> map, said |-> << >>]
  BY <1>1, <1>2 DEF X
<1>6. Good(X')
  <2>1. X = [mem |-> mem, db |-> db, map |-> map, said |-> << >>]
    BY DEF X
  <2>2. \A i \in DOMAIN db.obj : db.obj[i].server # NoServer => db.obj[i].correlator = db.obj[i].server
    BY Begins DEF Good, Correlated
  <2> QED
    BY <1>3, <1>4, <1>5, <2>1, <2>2, Begins, RowsChanged
<1> QED
  BY <1>1, <1>6 DEF FotaInv

-----------------------------------------------------------------------------
(* The theorems. *)

LEMMA InitInv ==
  ASSUME Init
  PROVE  FotaInv
<1>1. /\ mem = [server |-> NoServer, alerts |-> {}] /\ map = << >> /\ open = {} /\ wrong = {}
      /\ db = [obj |-> << >>, last |-> 0, engine |-> [id \in 1 .. MaxId |-> Idle]]
  BY DEF Init, DmInit, NewMem
<1>2. db \in Dbs
  <2>1. << >> \in Tables
    <3>1. << >> \in [{} -> Rows]
      OBVIOUS
    <3> QED
      BY <3>1 DEF Tables
  <2>2. [id \in 1 .. MaxId |-> Idle] \in [1 .. MaxId -> Engines]
    BY DEF Idle, Engines, NoResult
  <2> QED
    BY <1>1, <2>1, <2>2 DEF Dbs
<1>3. mem \in Mems
  BY <1>1 DEF Mems
<1>4. X = [mem |-> mem, db |-> db, map |-> map, said |-> << >>] /\ DOMAIN map = {} /\ DOMAIN db.obj = {}
  BY <1>1 DEF X
<1>5. IsFota(X)
  BY <1>1, <1>2, <1>3, <1>4 DEF IsFota
<1>6. Mapped(X) /\ Correlated(X)
  BY <1>1, <1>4 DEF Mapped, Correlated
<1> QED
  BY <1>1, <1>5, <1>6 DEF FotaInv, Good

LEMMA NextInv ==
  ASSUME FotaInv, [Next]_dmVars
  PROVE  FotaInv'
<1>1. CASE UNCHANGED dmVars
  BY <1>1 DEF dmVars, FotaInv, Good, IsFota, Mapped, Correlated, Exists, X
<1>2. CASE \E server \in Servers : StartSession(server) \/ AlertsSent(server)
  BY <1>2, StartSessionStep, AlertsSentStep
<1>3. CASE AddNode \/ AddChild
  BY <1>3, AddStep
<1>4. CASE UpdateLeaf \/ Fetch \/ Other
  BY <1>4, AnswerStep
<1>5. CASE Delete
  BY <1>5, DeleteStep
<1>6. CASE Execute
  BY <1>6, ExecuteStep
<1>7. CASE EndSession
  BY <1>7, EndSessionStep
<1>8. CASE \E id \in 1 .. MaxId : EngineStep(id) \/ EngineUpdates(id)
  BY <1>8, EngineSteps
<1> QED
  BY <1>1, <1>2, <1>3, <1>4, <1>5, <1>6, <1>7, <1>8 DEF Next

\* The inductive invariant.
THEOREM FotaInvariant == Spec => []FotaInv
<1>1. Init => FotaInv
  BY InitInv
<1>2. FotaInv /\ [Next]_dmVars => FotaInv'
  BY NextInv
<1> QED
  BY <1>1, <1>2, PTL DEF Spec

\* Every name the engine knows stands for a row of the table, whatever was added,
\* refused and deleted, by servers or as predefined objects.
THEOREM MappedExistsHolds == Spec => []MappedExists
<1>1. FotaInv => MappedExists
  BY Begins DEF MappedExists, Good, Mapped, Exists, FotaInv
<1> QED
  BY <1>1, FotaInvariant, PTL

\* An alert goes to the server whose Exec it answers, also when another server's
\* Exec on the same object failed between its writes.
THEOREM AlertOfOwnExecHolds == Spec => []AlertOfOwnExec
<1>1. FotaInv => AlertOfOwnExec
  BY Begins DEF AlertOfOwnExec, Good, Correlated, FotaInv
<1> QED
  BY <1>1, FotaInvariant, PTL

\* The adapter answers every command it is given once, and only those.
THEOREM FotaAnswersOnce == Spec => []AnsweredOnce
<1>1. FotaInv => AnsweredOnce
  BY DEF AnsweredOnce, FotaInv
<1> QED
  BY <1>1, FotaInvariant, PTL
=============================================================================
