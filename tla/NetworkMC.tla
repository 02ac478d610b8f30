------------------------------ MODULE NetworkMC ------------------------------
(***************************************************************************)
(* The adapters of the access to the network on small instances, each      *)
(* alone with the engine: streaming (ST); access points (CM) and proxies   *)
(* (CP) as connectivity objects; the settings of WLAN (GW); internet       *)
(* access points: a new one (AN), the access point (AO) and the proxy (AX) *)
(* of one that is there; its settings of WLAN: WEP keys (WK), secondary    *)
(* SSIDs (WS) and EAP (WE).                                                *)
(***************************************************************************)
EXTENDS DmPlayer

Stream == [text |-> "", long |-> FALSE, num |-> -1, own |-> FALSE, sus |-> 0, max |-> 0]
Number(n) == [Stream EXCEPT !.num = n]
Band(s, m) == [Stream EXCEPT !.own = TRUE, !.sus = s, !.max = m]
ObjectsST ==
    ("Name" :> {[Stream EXCEPT !.text = "n"], [Stream EXCEPT !.long = TRUE]}) @@
    ("To-Proxy" :> {[Stream EXCEPT !.text = "p"], [Stream EXCEPT !.long = TRUE]}) @@
    ("To-NapID" :> {Number(1), Number(2)}) @@
    ("GPRS" :> {Stream, Band(0, 10000), Band(7000, 10000), Band(7000, 9000)}) @@
    ("MIN-UDP-PORT" :> {Stream, Number(1023), Number(1024), Number(1035)}) @@
    ("MAX-UDP-PORT" :> {Stream, Number(1030), Number(1040), Number(65535)})
LeavesST == DOMAIN ObjectsST
PortsST == {<<1028, 1036>>}

Plain(t) == [text |-> t, num |-> -1, to |-> ""]
ObjectsCM ==
    ("BearerType" :> {Plain("3GPPPS")}) @@ ("Addr" :> {Plain("x"), Plain("y")})
Same(n, m) == n = m
CM == INSTANCE ConnMo WITH
    Naps <- {"a", "NAPId001", "NAPId002"}, Proxies <- {"ProxyId001", "ProxyId002"}, Begins <- Same,
    IdInName <- ("NAPId001" :> 1) @@ ("NAPId002" :> 2) @@ ("ProxyId001" :> 1) @@ ("ProxyId002" :> 2),
    Ids <- {1, 2}, Used <- {"a", "NAPId002"}, Leaves <- ("NAP" :> DOMAIN ObjectsCM), Objects <- ObjectsCM,
    MaxOpen <- 3

ObjectsCP ==
    ("Addr" :> {Plain("x"), Plain("y")}) @@
    ("ConRef" :> {[Plain("NAP/NAPId001") EXCEPT !.to = "NAPId001"]}) @@
    ("PortNbr" :> {[Plain("80") EXCEPT !.num = 80], Plain("q")})
CP == INSTANCE ConnMo WITH
    Naps <- {"NAPId001"}, Proxies <- {"p", "ProxyId001"}, Begins <- Same,
    IdInName <- ("NAPId001" :> 1) @@ ("ProxyId001" :> 1),
    Ids <- {1}, Used <- {"NAPId001", "p"}, Leaves <- ("NAP" :> {}) @@ ("Proxy" :> DOMAIN ObjectsCP),
    Objects <- ObjectsCP, MaxOpen <- 3

Whole(t, n) == [text |-> t, num |-> n, long |-> FALSE]
Overlong == [text |-> "", num |-> 0, long |-> TRUE]
ObjectsGW ==
    ("InternetConnectivityTest" :> {Whole("1", 1), Whole("-7", -7)}) @@
    ("MTU" :> {Whole("1", 1), Whole("2", 2), Whole("q", -1)}) @@
    ("PowerSaving" :> {Whole("True", -1), Whole("q", -1), Overlong}) @@
    ("x" :> {Whole("1", 1)})
GW == INSTANCE GlobalWlan WITH
    Leaves <- DOMAIN ObjectsGW, Objects <- ObjectsGW, Faults <- {"CenRep", "CommsDb", "Set"}, MaxOpen <- 3

Text(t) == [text |-> t, num |-> -1, host |-> ""]
Numeral(t, n) == [Text(t) EXCEPT !.num = n]
ObjectsAP ==
    ("Name" :> {Text("a")}) @@ ("BearerL" :> {Text("GSM-GPRS"), Text("x")}) @@
    ("Direction" :> {Text("Outgoing")}) @@ ("NAPAddr" :> {Text("x")}) @@
    ("DNSAddrL" :> {[Text("8") EXCEPT !.host = "v4"]}) @@ ("GPRSPDP" :> {Text("IPv4"), Text("q")}) @@
    ("IPAddrFromServer" :> {Text("True")}) @@ ("NAPLinger" :> {Text(""), Numeral("5", 5)}) @@
    ("NwName" :> {Text("w")}) @@ ("PxAddr" :> {Text("x")}) @@ ("PxStartpg" :> {Text("s")}) @@
    ("PortNbr" :> {Numeral("80", 80), Numeral("9200", 9200)})
Nothing == [iap |-> << >>, svc |-> << >>, px |-> << >>, wap |-> << >>, nets |-> << >>, linger |-> << >>]
OneAP ==
    [iap |-> <<[name |-> "u", type |-> "OutgoingGPRS", isp |-> 1, net |-> 1, more |-> << >>]>>,
     svc |-> <<"OutgoingGPRS", 1>> :> ("Name" :> "u"),
     px |-> <<[type |-> "OutgoingGPRS", isp |-> 1, f |-> << >>]>>,
     wap |-> << "Name" :> "u" >>, nets |-> <<"n">>, linger |-> << >>]
Numbered == ("APId001" :> 1) @@ ("APId002" :> 2)
AN == INSTANCE ApAdapter WITH
    Aps <- {"a"}, Predefined <- Numbered, Leaves <- {"Name", "BearerL", "Direction", "NAPAddr", "DNSAddrL"},
    Early <- {"Name", "BearerL", "Direction", "NAPAddr"}, Used <- {"AP", "NAPDef"},
    Objects <- ObjectsAP, InitialDb <- Nothing, Ids <- {1}, MaxOpen <- 5
AO == INSTANCE ApAdapter WITH
    Aps <- {"APId001"}, Predefined <- Numbered,
    Leaves <- {"Name", "GPRSPDP", "NAPLinger", "DNSAddrL"}, Early <- {}, Used <- {"AP", "DNSAddr"},
    Objects <- ObjectsAP, InitialDb <- OneAP, Ids <- {1}, MaxOpen <- 2
AX == INSTANCE ApAdapter WITH
    Aps <- {"APId001"}, Predefined <- Numbered,
    Leaves <- {"PxAddr", "PortNbr", "PxStartpg", "NwName", "IPAddrFromServer"}, Early <- {},
    Used <- {"AP", "Px"}, Objects <- ObjectsAP, InitialDb <- OneAP, Ids <- {1}, MaxOpen <- 2

Setting(t) == [text |-> t, num |-> 0, bad |-> FALSE]
Unreadable == [Setting("") EXCEPT !.bad = TRUE]
Numbering(t, n) == [Setting(t) EXCEPT !.num = n]
ObjectsWL ==
    ("SSID" :> {Setting("a"), Unreadable}) @@ ("UsedSSID" :> {Setting("u")}) @@
    ("SecurityMode" :> {Setting("NONE"), Setting("q")}) @@
    ("Id" :> {Numbering("1", 1), Numbering("5", 5)}) @@ ("Data" :> {Setting("k"), Setting("l")}) @@
    ("Username" :> {Setting("m"), Unreadable}) @@ ("PEAPv0" :> {Setting("True")}) @@
    ("SubjectKeyId" :> {Setting("f"), Unreadable})
NumbersWL == ("x" :> 0) @@ ("SecSSID001" :> 1) @@ ("CertId001" :> 1)
WK == INSTANCE WlanAdapter WITH
    LuidOf <- ("w" :> 1), ServiceOf <- (1 :> 1), Numbers <- NumbersWL, EapTypes <- {"EAPId025"},
    EapOf <- ("CertId001" :> "EAPId025"), Used <- {<<"WEPKey", "x">>, <<"EAPs", "">>},
    Leaves <- ("WLAN" :> {"SSID", "SecurityMode"}) @@ ("WEPKey" :> {"Id", "Data"}) @@ ("EAP" :> {"Username"}),
    Objects <- ObjectsWL, Keys <- ("x" :> {1, 5}), MaxSec <- 0, MaxOpen <- 3
WS == INSTANCE WlanAdapter WITH
    LuidOf <- ("w" :> 1), ServiceOf <- (1 :> 1), Numbers <- NumbersWL, EapTypes <- {"EAPId025"},
    EapOf <- ("CertId001" :> "EAPId025"), Used <- {<<"Secs", "">>, <<"Sec", "SecSSID001">>},
    Leaves <- ("Sec" :> {"SSID", "UsedSSID"}),
    Objects <- ObjectsWL, Keys <- << >>, MaxSec <- 2, MaxOpen <- 2
WE == INSTANCE WlanAdapter WITH
    LuidOf <- ("w" :> 1), ServiceOf <- (1 :> 1), Numbers <- NumbersWL, EapTypes <- {"EAPId025"},
    EapOf <- ("CertId001" :> "EAPId025"),
    Used <- {<<"EAPs", "">>, <<"EAP", "EAPId025">>, <<"Certs", "EAPId025">>, <<"Cert", "CertId001">>},
    Leaves <- ("EAP" :> {"PEAPv0"}) @@ ("Cert" :> {"SubjectKeyId"}),
    Objects <- ObjectsWL, Keys <- << >>, MaxSec <- 0, MaxOpen <- 2

Init ==
    \/ PlayerInit
    \/ adapter = "CM" /\ CM!Init
    \/ adapter = "CP" /\ CP!Init
    \/ adapter = "GW" /\ GW!Init
    \/ adapter = "AN" /\ AN!Init
    \/ adapter = "AO" /\ AO!Init
    \/ adapter = "AX" /\ AX!Init
    \/ adapter = "WK" /\ WK!Init
    \/ adapter = "WS" /\ WS!Init
    \/ adapter = "WE" /\ WE!Init

Next ==
    \/ PlayerNext
    \/ /\ UNCHANGED adapter
       /\ \/ adapter = "CM" /\ CM!Next
          \/ adapter = "CP" /\ CP!Next
          \/ adapter = "GW" /\ GW!Next
          \/ adapter = "AN" /\ AN!Next
          \/ adapter = "AO" /\ AO!Next
          \/ adapter = "AX" /\ AX!Next
          \/ adapter = "WK" /\ WK!Next
          \/ adapter = "WS" /\ WS!Next
          \/ adapter = "WE" /\ WE!Next

Spec == Init /\ [][Next]_runVars

-----------------------------------------------------------------------------
\* No command is lost: what is unanswered is in a buffer that later calls work on.
NothingLost ==
    open = CASE adapter = "ST" -> ST!Held [] adapter = "CM" -> CM!Held [] adapter = "CP" -> CP!Held
             [] adapter = "GW" -> GW!Held [] adapter = "AN" -> AN!Held [] adapter = "AO" -> AO!Held
             [] adapter = "AX" -> AX!Held [] adapter = "WK" -> WK!Held [] adapter = "WS" -> WS!Held
             [] adapter = "WE" -> WE!Held

\* No command is answered twice or without being given, but for an address of an
\* access point that ran before its record was made: it is answered then and, with
\* another status, when it runs again, and for a leaf of a secondary SSID that is
\* there, which is answered for itself and once more for the record.
NoStrayAnswer == wrong = CASE adapter = "AN" -> AN!Twice [] adapter = "WS" -> WS!Twice [] OTHER -> {}

\* What the server was told is stored is what a Get returns, as long as nobody
\* but the server changes it.
Stored ==
    \A k \in DOMAIN told :
        CASE adapter = "ST" -> ST!Kept(k[2], told[k])
          [] adapter = "CM" -> CM!Kept(k[1], k[2], told[k])
          [] adapter = "CP" -> CP!Kept(k[1], k[2], told[k])
          [] adapter = "GW" -> GW!Kept(k[2], told[k])
          [] adapter = "AN" -> AN!Kept(k[1], k[2], told[k])
          [] adapter = "AO" -> AO!Kept(k[1], k[2], told[k])
          [] adapter = "AX" -> AX!Kept(k[1], k[2], told[k])
          [] adapter = "WK" -> WK!Kept(k[1], k[2], told[k])
          [] adapter = "WS" -> WS!Kept(k[1], k[2], told[k])
          [] adapter = "WE" -> WE!Kept(k[1], k[2], told[k])
=============================================================================
