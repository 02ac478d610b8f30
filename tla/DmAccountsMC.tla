---------------------------- MODULE DmAccountsMC ----------------------------
(***************************************************************************)
(* The adapters of the accounts of servers on small instances.             *)
(***************************************************************************)
EXTENDS DmAccounts

Text(t) == [text |-> t, long |-> FALSE, num |-> 0]
Number(t, n) == [text |-> t, long |-> FALSE, num |-> n]

Objects12 ==
    (<<"", "PortNbr">> :> {Number("8080", 8080)}) @@
    (<<"", "ProfileLock">> :> {Number("1", 1), Number("0", 0)}) @@
    [leaf \in {<<"", "Addr">>, <<"", "ServerID">>, <<"AppAuthCli", "AAuthName">>, <<"", "Name">>} |->
        {Text("a")}]
Leaves12 == DOMAIN Objects12
Deleted12 == {<<"", "Addr">>}
Rank12 ==
    [leaf \in DOMAIN Objects12 |->
        CASE leaf[2] = "PortNbr" -> 1 [] leaf[2] = "ProfileLock" -> 2
          [] leaf[2] = "Addr" -> 3 [] leaf[2] = "ServerID" -> 4 [] OTHER -> 5]

Objects11 ==
    ("PortNbr" :> {Number("8080", 8080)}) @@
    ("Addr" :> {Text("a"), Number("b", 81)}) @@
    [leaf \in {"ServerId", "ClientUserName", "Name", "AuthScheme"} |-> {Text("a")}]
Leaves11 == DOMAIN Objects11
Rank11 ==
    [leaf \in DOMAIN Objects11 |->
        CASE leaf = "PortNbr" -> 1 [] leaf = "Addr" -> 2 [] leaf = "ServerId" -> 3 [] OTHER -> 4]

ObjectsDS ==
    ("PortNbr" :> {Number("8080", 8080)}) @@
    ("AddrType" :> {Number("3", 3)}) @@
    [leaf \in {"Addr", "Name", "CTType", "RDBURI", "LDBURI"} |-> {Text("a")}]
ProvidersDS == {-5}
MimeDS == -5 :> "a"
=============================================================================
