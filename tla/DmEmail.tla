------------------------------- MODULE DmEmail -------------------------------
(***************************************************************************)
(* The e-mail adapter (CNSmlDmEmailAdapter): Email/x is a POP3 or IMAP4    *)
(* mailbox with its SMTP service, in the message store (external).         *)
(* Commands are collected per mailbox, and applied at once to a copy of    *)
(* its settings; CompleteOutstandingCmdsL saves the copies and answers.    *)
(*                                                                         *)
(* A mailbox is identified by its type and its id.  An object is a record  *)
(* as in DmAcc11; that of an access point has the id in num.               *)
(***************************************************************************)
EXTENDS DmAdapter, TLC

CONSTANTS
    Names,      \* names a server gives to mailboxes
    Ids,        \* bound: ids the message store gives, each once
    Leaves,     \* leaves the server uses
    Objects,    \* leaf -> the objects it is sent
    MaxOpen     \* bound: commands that are unanswered at a time

\* DDFStructureL: everything but secrets can be read and written.
Access ==
    [leaf \in {"Name", "UID", "UAddr", "UName", "Mrcv", "Msnd", "Mpro", "UseSecCon",
               "UseAPOP", "UseSauth", "SauthUID", "PtxtSAuth", "ToNapID", "SToNapID",
               "SUseSecCon", "UseStartTLS", "SUseStartTLS", "MrcvPort", "MsndPort",
               "FolderPath"} |-> {"Get", "Add", "Replace"}] @@
    [leaf \in {"PW", "SauthPW"} |-> {"Add", "Replace"}]

\* GetIdByLuid, SetLuidById: a LUID tells the type of its mailbox.
ImapLuidLow == 50000
ImapLuidHigh == 100000
PopLuidHigh == 150000
NoKey == <<"None", 0>>
GetIdByLuid(luid) ==
    IF luid > ImapLuidLow /\ luid < ImapLuidHigh THEN <<"IMAP", luid - ImapLuidLow>>
    ELSE IF luid > ImapLuidHigh /\ luid < PopLuidHigh THEN <<"POP", luid - ImapLuidHigh>>
    ELSE NoKey
SetLuidById(k) == k[2] + (IF k[1] = "IMAP" THEN ImapLuidLow ELSE ImapLuidHigh)

\* AccountExistsL.
AccountExists(d, k) == k \in DOMAIN d.acc

OfType(d, type) == {k \in DOMAIN d.acc : k[1] = type}
First(K) == CHOOSE k \in K : \A l \in K : k[2] <= l[2]

------------------------------------------------------------------------------
(* The settings of a mailbox. *)

NormalPort(type) == IF type = "IMAP" THEN 143 ELSE 110
WrappedPort(type) == IF type = "IMAP" THEN 993 ELSE 995

\* SetDefaultSettingsL.
SetDefaultSettings(type) ==
    [type |-> type, name |-> "", login |-> "", password |-> "", addr |-> "", alias |-> "",
     inServer |-> "", outServer |-> "", smtpAuth |-> "False", smtpLogin |-> "",
     smtpPassword |-> "", inboxLogin |-> "False", apop |-> "False", folder |-> "",
     inPort |-> NormalPort(type), outPort |-> 25, ssl |-> "False", tls |-> "False",
     outSsl |-> "False", outTls |-> "False", iap |-> "ask", smtpIap |-> "ask"]

\* The leaves that are stored as they are.
Plain ==
    "UAddr" :> "addr" @@ "UName" :> "alias" @@ "Mrcv" :> "inServer" @@ "Msnd" :> "outServer" @@
    "UseSauth" :> "smtpAuth" @@ "SauthUID" :> "smtpLogin" @@ "SauthPW" :> "smtpPassword" @@
    "PtxtSAuth" :> "inboxLogin"

\* SetDefaultSecurityL: a kind of security brings its port, and excludes the other.
SetDefaultSecurity(w, leaf, on) ==
    CASE leaf = "UseSecCon" /\ on ->
            [w EXCEPT !.tls = "False", !.ssl = "True", !.inPort = WrappedPort(w.type)]
      [] leaf = "UseSecCon" -> [w EXCEPT !.ssl = "False", !.inPort = NormalPort(w.type)]
      [] leaf = "UseStartTLS" /\ on ->
            [w EXCEPT !.tls = "True", !.ssl = "False", !.inPort = NormalPort(w.type)]
      [] leaf = "UseStartTLS" -> [w EXCEPT !.tls = "False"]
      [] leaf = "SUseSecCon" /\ on ->
            [w EXCEPT !.outTls = "False", !.outSsl = "True", !.outPort = 465]
      [] leaf = "SUseSecCon" -> [w EXCEPT !.outSsl = "False", !.outPort = 25]
      [] leaf = "SUseStartTLS" /\ on ->
            [w EXCEPT !.outTls = "True", !.outSsl = "False", !.outPort = 25]
      [] leaf = "SUseStartTLS" -> [w EXCEPT !.outTls = "False"]

\* DoAddLeafObjectL: what a leaf does to the copy, and the status it will get.  A
\* login of the mailbox is that of SMTP too if that has none.
DoAddLeafObject(w, leaf, obj) ==
    CASE leaf = "Name" -> IF obj.long THEN w ELSE [w EXCEPT !.name = obj.text]
      [] leaf = "UID" ->
            [w EXCEPT !.login = obj.text, !.smtpLogin = IF @ = "" THEN obj.text ELSE @]
      [] leaf = "PW" ->
            [w EXCEPT !.password = obj.text, !.smtpPassword = IF @ = "" THEN obj.text ELSE @]
      [] leaf \in DOMAIN Plain -> [w EXCEPT ![Plain[leaf]] = obj.text]
      [] leaf = "UseAPOP" -> IF w.type = "POP" THEN [w EXCEPT !.apop = obj.text] ELSE w
      [] leaf = "FolderPath" -> IF w.type = "IMAP" THEN [w EXCEPT !.folder = obj.text] ELSE w
      [] leaf = "ToNapID" ->
            IF obj.num = -1 THEN w ELSE [w EXCEPT !.iap = obj.text, !.smtpIap = obj.text]
      [] leaf = "SToNapID" -> IF obj.num = -1 THEN w ELSE [w EXCEPT !.smtpIap = obj.text]
      [] leaf \in {"Mpro", "MrcvPort", "MsndPort"} -> w
      [] OTHER -> SetDefaultSecurity(w, leaf, obj.text = "True")
LeafStatus(leaf, obj) ==
    CASE leaf = "Name" /\ obj.long -> "ETooLargeObject"
      [] leaf \in {"ToNapID", "SToNapID"} /\ obj.num = -1 -> "ENotFound"
      [] OTHER -> "EOk"

\* FetchSecurityValueL.
FetchSecurityValue(w, leaf) ==
    CASE leaf = "UseStartTLS" -> w.tls [] leaf = "UseSecCon" -> w.ssl
      [] leaf = "SUseStartTLS" -> w.outTls [] leaf = "SUseSecCon" -> w.outSsl

\* FetchLeafObjectL, FetchObjectL: the value of a leaf, if the mailbox has one; first
\* those of how it is reached.
Found(t) == [err |-> "EOk", text |-> t]
FoundIf(has, t) == IF has THEN Found(t) ELSE [err |-> "ENotFound", text |-> ""]
ConnectionValue(w, leaf) ==
    CASE leaf = "MrcvPort" -> Found(ToString(w.inPort))
      [] leaf = "MsndPort" -> Found(ToString(w.outPort))
      [] leaf = "UseAPOP" -> FoundIf(w.type = "POP", w.apop)
      [] leaf = "FolderPath" -> FoundIf(w.type = "IMAP", w.folder)
      [] leaf = "ToNapID" -> Found(w.iap)
      [] leaf = "SToNapID" -> Found(w.smtpIap)
      [] leaf \in {"UseStartTLS", "UseSecCon", "SUseStartTLS", "SUseSecCon"} ->
            Found(FetchSecurityValue(w, leaf))
      [] OTHER -> FoundIf(FALSE, "")
Value(w, leaf) ==
    CASE leaf = "Name" -> Found(w.name)
      [] leaf = "UID" -> Found(w.login)
      [] leaf = "PW" -> Found(w.password)
      [] leaf \in DOMAIN Plain /\ (leaf = "Mrcv" => w.type # "None") -> Found(w[Plain[leaf]])
      [] leaf = "Mpro" -> Found(IF w.type = "None" THEN "" ELSE w.type)
      [] OTHER -> ConnectionValue(w, leaf)

------------------------------------------------------------------------------
(* The buffer: one entry for each mailbox that was added, written or read. *)

NoName == ""

\* An entry: the name of the node if it is new, the LUID if it is not, the copy of
\* the settings (of type None as long as the mailbox has none) and the commands.
Entry(name, luid, work, fetch) ==
    [name |-> name, luid |-> luid, work |-> work, fetch |-> fetch, cmds |-> << >>]
None == SetDefaultSettings("None")
Executed(e) == e.luid # 0 \/ e.work.type # "None"

FirstOf(at) == IF at = {} THEN 0 ELSE Min(at)
BufferOf(x, name) ==
    FirstOf({i \in DOMAIN x.mem.buffer : x.mem.buffer[i].luid = 0 /\ x.mem.buffer[i].name = name})
BufferOfLuid(x, luid) == FirstOf({i \in DOMAIN x.mem.buffer : x.mem.buffer[i].luid = luid})

\* A command on the mailbox itself has no leaf.
Node == ""
Command(leaf, obj, ref) == [leaf |-> leaf, obj |-> obj, ref |-> ref, status |-> "EOk"]
NoObject == [text |-> "", long |-> FALSE, num |-> 0]

\* A command on a mailbox whose type is known is applied to the copy.
Apply(e, i) ==
    [e EXCEPT !.work = DoAddLeafObject(@, e.cmds[i].leaf, e.cmds[i].obj),
              !.cmds[i].status = IF e.cmds[i].leaf = "Mpro" THEN "EOk"
                                 ELSE IF LeafStatus(e.cmds[i].leaf, e.cmds[i].obj) = "EOk" THEN @
                                 ELSE LeafStatus(e.cmds[i].leaf, e.cmds[i].obj)]
AddCommand(e, c) == [e EXCEPT !.cmds = Append(@, c)]

\* FirstAddLeafL: the protocol of a new mailbox brings the defaults, over which
\* everything that came before is applied.
ApplyAll(e) ==
    LET applied[n \in 0 .. Len(e.cmds)] ==
            IF n = 0 THEN e
            ELSE IF e.cmds[n].leaf = Node THEN applied[n - 1]
            ELSE Apply(applied[n - 1], n)
    IN  applied[Len(e.cmds)]
ApplyFirst(e, known, leaf, obj) ==
    IF known THEN Apply(e, Len(e.cmds))
    ELSE IF leaf = "Mpro" /\ obj.text \in {"POP", "IMAP"}
        THEN ApplyAll([e EXCEPT !.work = SetDefaultSettings(obj.text)])
    ELSE e
FirstAddLeaf(e, leaf, obj, ref) ==
    ApplyFirst(AddCommand(e, Command(leaf, obj, ref)), Executed(e), leaf, obj)

------------------------------------------------------------------------------
(* Names. *)

\* ChildURIListL: the type and a checksum of the account, taken to be
\* different for different accounts.
ListName(k) == k[1] \o "-" \o ToString(k[2])

\* ConstructTreeL: the type and the position in the list of accounts.
TreeName(d, k) == k[1] \o "00" \o ToString(Cardinality({l \in OfType(d, k[1]) : l[2] < k[2]}))
ConstructTree(x) ==
    LET K == {k \in DOMAIN x.db.acc : TreeName(x.db, k) \notin DOMAIN x.map}
    IN  [x EXCEPT !.map =
            [n \in {TreeName(x.db, k) : k \in K} |->
                SetLuidById(CHOOSE k \in K : TreeName(x.db, k) = n)] @@ @]

\* GetDynamicEmailNodeUri.
GetDynamicEmailNodeUri(name) == name

\* The LUID a handler uses, and what looking for it did.
Sought(x, name) == [luid |-> Luid(x.map, name), x |-> x]
Seek(x, name) == Sought(IF name \in DOMAIN x.map THEN x ELSE ConstructTree(x), name)

------------------------------------------------------------------------------
(* Handlers. *)

\* DoRestoreSettingsL.
DoRestoreSettings(x, luid) ==
    LET k == GetIdByLuid(luid)
    IN  IF AccountExists(x.db, k) THEN x.db.acc[k] ELSE None

\* UpdateLeafObjectL.
UpdateBuffered(x, i, leaf, obj, ref) ==
    LET added == AddCommand(x.mem.buffer[i], Command(leaf, obj, ref))
    IN  [x EXCEPT !.mem.buffer[i] = [Apply(added, Len(@.cmds) + 1) EXCEPT !.fetch = FALSE]]
UpdateStored(x, luid, i, w, leaf, obj, ref) ==
    IF leaf = "Mpro" THEN SetStatus(x, ref, "EError")
    ELSE IF i > 0 THEN UpdateBuffered(x, i, leaf, obj, ref)
    ELSE IF w.type = "None" THEN SetStatus(x, ref, "ENotFound")
    ELSE UpdateBuffered([x EXCEPT !.mem.buffer = Append(@, Entry(NoName, luid, w, FALSE))],
                        Len(x.mem.buffer) + 1, leaf, obj, ref)
UpdateSought(s, leaf, obj, ref) ==
    IF s.luid = NoLuid THEN SetStatus(s.x, ref, "ENotFound")
    ELSE UpdateStored(s.x, s.luid, BufferOfLuid(s.x, s.luid), DoRestoreSettings(s.x, s.luid),
                      leaf, obj, ref)
UpdateNamed(x, i, name, leaf, obj, ref) ==
    IF i > 0 THEN [x EXCEPT !.mem.buffer[i] = FirstAddLeaf(@, leaf, obj, ref)]
    ELSE UpdateSought(Seek(x, name), leaf, obj, ref)
UpdateLeafObject(x, name, leaf, obj, ref) ==
    UpdateNamed(x, BufferOf(x, name), name, leaf, obj, ref)

\* AddNodeObjectL.
AddNodeObject(x, name, ref, full) ==
    LET y == RemoveMapping(x, GetDynamicEmailNodeUri(name))
    IN  IF AccountExists(x.db, GetIdByLuid(Luid(x.map, name)))
            THEN SetStatus(x, ref, "EAlreadyExists")
        ELSE IF full THEN SetStatus(y, ref, "EDiskFull")
        ELSE [y EXCEPT !.mem.buffer =
                 Append(@, AddCommand(Entry(name, 0, None, FALSE), Command(Node, NoObject, ref)))]

\* DeleteObjectL: the SMTP service goes with the mailbox.  With the last mailbox
\* of a type the default service goes too, whichever it was.
\* Mutant of DeleteAccount: the default goes only with the last mailbox of a type.
DeleteLastAccount(d, k) ==
    LET acc == Without(d.acc, {k})
        others == {l \in DOMAIN acc : l[1] # k[1]}
    IN  [last |-> d.last, acc |-> acc,
         default |-> IF OfType(d, k[1]) # {k} THEN d.default
                     ELSE IF others # {} THEN First(others) ELSE NoKey]

DeleteAccount(d, k) ==
    LET acc == Without(d.acc, {k})
        left == [d EXCEPT !.acc = acc]
        gone == d.default = k \/ OfType(d, k[1]) = {k}
        others == {l \in DOMAIN acc : l[1] # k[1]}
    IN  [last |-> d.last, acc |-> acc,
         default |-> IF ~gone /\ d.default # NoKey THEN d.default
                     ELSE IF others # {} THEN First(others)
                     ELSE IF OfType(left, k[1]) # {} THEN First(OfType(left, k[1]))
                     ELSE NoKey]
DeleteNode(x, name, ref) ==
    LET k == GetIdByLuid(Luid(x.map, name))
    IN  IF AccountExists(x.db, k)
            THEN SetStatus([x EXCEPT !.db = DeleteAccount(@, k)], ref, "EOk")
        ELSE SetStatus(x, ref, "ENotFound")
DeleteLeaf(x, ref) == SetStatus(x, ref, "EError")

\* FetchLeafObjectL: what is read stays in the buffer, a mailbox that was not found
\* too.  (A port of such a one is read through a null pointer.)
FetchStored(x, luid, i, w, leaf, ref) ==
    IF i > 0 THEN SetStatus(x, ref, Value(x.mem.buffer[i].work, leaf).err)
    ELSE SetStatus([x EXCEPT !.mem.buffer = Append(@, Entry(NoName, luid, w, TRUE))], ref,
                   IF w.type = "None" THEN "EError" ELSE Value(w, leaf).err)
FetchSought(s, leaf, ref) ==
    IF s.luid = NoLuid THEN SetStatus(s.x, ref, "ENotFound")
    ELSE FetchStored(s.x, s.luid, BufferOfLuid(s.x, s.luid), DoRestoreSettings(s.x, s.luid), leaf, ref)
FetchLeafObject(x, name, leaf, ref) == FetchSought(Seek(x, name), leaf, ref)

\* FetchLeafObjectSizeL does not look for predefined names.
FetchLeafObjectSize(x, name, leaf, ref) ==
    IF name \notin DOMAIN x.map THEN SetStatus(x, ref, "ENotFound")
    ELSE FetchLeafObject(x, name, leaf, ref)

\* ChildURIListL of Email and of a mailbox.
ListAccounts(x, ref) ==
    LET new == {k \in DOMAIN x.db.acc : \A n \in DOMAIN x.map : x.map[n] # SetLuidById(k)}
    IN  SetStatus([x EXCEPT !.map = [n \in {ListName(k) : k \in new} |->
                      SetLuidById(CHOOSE k \in new : ListName(k) = n)] @@ @], ref, "EOk")
ListAccount(x, name, ref) ==
    LET k == GetIdByLuid(Luid(x.map, name))
    IN  SetStatus(x, ref, IF name \notin DOMAIN x.map THEN "ENotFound"
                          ELSE IF k = NoKey THEN "EError"
                          ELSE IF AccountExists(x.db, k) THEN "EOk" ELSE "ENotFound")

\* ExecuteCommandL, CopyCommandL and UpdateLeafObjectL of a stream.
ExecuteCommand(x, ref) == SetStatus(x, ref, "EError")

------------------------------------------------------------------------------
(* CompleteOutstandingCmdsL. *)

\* Ports wait until here.
ValidPort(n) == n \in 1 .. 65535
CheckPort(e, i) ==
    LET c == e.cmds[i]
        in == c.leaf = "MrcvPort"
    IN  IF c.leaf \notin {"MrcvPort", "MsndPort"} THEN e
        ELSE IF ~ValidPort(c.obj.num) THEN [e EXCEPT !.cmds[i].status = "EInvalidObject"]
        ELSE IF in THEN [e EXCEPT !.work.inPort = c.obj.num]
        ELSE [e EXCEPT !.work.outPort = c.obj.num]
\* A login without an SMTP login is an error.
CheckLogin(e, i) ==
    IF e.cmds[i].leaf = "UID" /\ e.work.smtpLogin = ""
        THEN [e EXCEPT !.cmds[i].status = "EError"] ELSE e
Check(e) ==
    LET checked[n \in 0 .. Len(e.cmds)] ==
            IF n = 0 THEN e ELSE CheckLogin(CheckPort(checked[n - 1], n), n)
    IN  checked[Len(e.cmds)]

\* ValidateAndStoreSettingsL of a mailbox that exists and of a new one, which
\* needs the phone's identity (`phone`) and an id.
SaveSettings(x, e, k) ==
    IF AccountExists(x.db, k) /\ e.work.type # "None"
    THEN [ok |-> TRUE, luid |-> e.luid, x |-> [x EXCEPT !.db.acc[k] = e.work]]
    ELSE [ok |-> FALSE, luid |-> e.luid, x |-> x]
FreeId(x) == {i \in Ids : i > x.db.last}
Created(acc, k, default) ==
    [acc |-> acc, last |-> k[2],
     default |-> IF DOMAIN acc = {k} THEN k
                 ELSE IF default # NoKey THEN default
                 ELSE First({l \in DOMAIN acc : l[1] = k[1]})]
CreateAccount(x, e, k) ==
    [ok |-> TRUE, luid |-> SetLuidById(k),
     x |-> [x EXCEPT !.db = Created(With(@.acc, k, e.work), k, @.default)]]
ValidateAndStoreSettings(x, e, phone) ==
    IF e.fetch THEN [ok |-> TRUE, luid |-> 0, x |-> x]
    ELSE IF e.luid # 0 THEN SaveSettings(x, e, GetIdByLuid(e.luid))
    ELSE IF ~phone \/ FreeId(x) = {} THEN [ok |-> FALSE, luid |-> 0, x |-> x]
    ELSE CreateAccount(x, e, <<e.work.type, Min(FreeId(x))>>)

\* The answers to the commands of an entry, given what storing it brought.
AnswerCommand(x, c, e, r) ==
    IF c.status # "EOk" THEN SetStatus(x, c.ref, c.status)
    ELSE IF ~r.ok THEN SetStatus(x, c.ref, "EError")
    ELSE IF c.leaf # Node THEN SetStatus(x, c.ref, "EOk")
    ELSE SetMapping(SetStatus(x, c.ref, "EOk"), e.name, r.luid)
AnswerEntry(e, r) ==
    LET answered[n \in 0 .. Len(e.cmds)] ==
            IF n = 0 THEN r.x ELSE AnswerCommand(answered[n - 1], e.cmds[n], e, r)
    IN  answered[Len(e.cmds)]
CompleteChecked(x, e, phone) == AnswerEntry(e, ValidateAndStoreSettings(x, e, phone))
CompleteEntry(x, e, phone) == CompleteChecked(x, Check(e), phone)

CompleteOutstandingCmds(x, phone) ==
    LET completed[n \in 0 .. Len(x.mem.buffer)] ==
            IF n = 0 THEN x ELSE CompleteEntry(completed[n - 1], x.mem.buffer[n], phone)
    IN  [completed[Len(x.mem.buffer)] EXCEPT !.mem.buffer = << >>]

\* A mailbox without a protocol has no SMTP settings; whether there is a login in
\* them is asked all the same, through a null pointer.
Panics(x) == \E i \in DOMAIN x.mem.buffer : ~Executed(x.mem.buffer[i])

------------------------------------------------------------------------------
(* The engine's calls, and what else changes mailboxes. *)

NewMem == [buffer |-> << >>]

Keys == {"POP", "IMAP"} \X Ids
\* A server knows a mailbox by the name it gave it, else by the one listed.
AllNames ==
    Names \cup {ListName(k) : k \in {l \in Keys :
                   \A n \in Names \cap DOMAIN map : map[n] # SetLuidById(l)}}
AllTreeNames == {t \o "000" : t \in {"POP", "IMAP"}}

Init == DmInit(NewMem, [acc |-> << >>, default |-> NoKey, last |-> 0], << >>)

AddNode ==
    \E name \in Names, full \in BOOLEAN :
        /\ NodeRef(name) \notin open
        /\ Cardinality(open) < MaxOpen
        /\ Serve({NodeRef(name)}, AddNodeObject(X, name, NodeRef(name), full))

UpdateLeaf ==
    \E name \in AllNames, leaf \in Leaves : \E obj \in Objects[leaf] :
        LET ref == LeafRef(name, leaf, obj.text)
        IN  /\ \A r \in open : r.op = "leaf" => <<r.name, r.leaf>> # <<name, leaf>>
            /\ Cardinality(open) < MaxOpen
            /\ Serve({ref}, UpdateLeafObject(X, name, leaf, obj, ref))

Delete ==
    \/ \E name \in AllNames :
          Serve({DeleteRef({name})}, DeleteNode(X, name, DeleteRef({name})))
    \/ Serve({Now}, DeleteLeaf(X, Now))

Fetch ==
    \E name \in AllNames, leaf \in Leaves \ {"MrcvPort"} :
        \/ Serve({Now}, FetchLeafObject(X, name, leaf, Now))
        \/ Serve({Now}, FetchLeafObjectSize(X, name, leaf, Now))
FetchPredefined ==
    \E name \in AllTreeNames : Serve({Now}, FetchLeafObject(X, name, "Name", Now))

List ==
    \/ Serve({Now}, ListAccounts(X, Now))
    \/ \E name \in AllNames : Serve({Now}, ListAccount(X, name, Now))
Other == Serve({Now}, ExecuteCommand(X, Now))

Complete == \E phone \in BOOLEAN : ~Panics(X) /\ Serve({}, CompleteOutstandingCmds(X, phone))

\* The session ends; in a panic the engine ends with it.
EndSession == EndWith(IF Panics(X) THEN X ELSE CompleteOutstandingCmds(X, TRUE), NewMem)

\* The user deletes a mailbox; the e-mail application sees to the default.
UserDeletes ==
    \E k \in DOMAIN db.acc :
        LET acc == Without(db.acc, {k})
        IN  \E default \in (IF acc = << >> THEN {NoKey}
                            ELSE IF db.default = k THEN DOMAIN acc ELSE {db.default}) :
                Elsewhere([db EXCEPT !.acc = acc, !.default = default],
                          {n \in DOMAIN map : map[n] = SetLuidById(k)})

Next == AddNode \/ UpdateLeaf \/ Delete \/ Fetch \/ FetchPredefined \/ List \/ Other
        \/ Complete \/ EndSession \/ UserDeletes

Spec == Init /\ [][Next]_dmVars

------------------------------------------------------------------------------
(* The part of the common properties that is this adapter's. *)

Held ==
    UNION {{mem.buffer[i].cmds[j].ref : j \in DOMAIN mem.buffer[i].cmds} :
              i \in DOMAIN mem.buffer}

\* Whether a Get of a leaf returns what the server was told, once it was saved.
Kept(name, leaf) ==
    LET k == GetIdByLuid(Luid(map, name))
    IN  leaf \in {"Name", "UID", "UAddr", "UName", "Mrcv", "Msnd", "ToNapID"} =>
            AccountExists(db, k) /\ Value(db.acc[k], leaf).text = told[<<name, leaf>>]
==============================================================================
