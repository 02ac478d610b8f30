---------------------------- MODULE DmServicesMC ----------------------------
(***************************************************************************)
(* The adapters of the settings of services on small instances.            *)
(***************************************************************************)
EXTENDS DmServices

Text(t) == [text |-> t, long |-> FALSE, num |-> 0]

ObjectsEM ==
    ("Mpro" :> {Text("POP"), Text("IMAP")}) @@
    ("ToNapID" :> {[Text("u") EXCEPT !.num = -1], Text("i")})
LeavesEM == DOMAIN ObjectsEM

Setting(t) == [text |-> t, num |-> -1]
ObjectsMM ==
    ("CreMode" :> {Setting("Free"), Setting("Restricted"), Setting("x")}) @@
    ("ImgSize" :> {Setting("Large"), Setting("Small")}) @@
    ("MToNapIDL" :> {Setting("u"), [text |-> "i", num |-> 1], [text |-> "j", num |-> 2]}) @@
    ("MMSSAddr" :> {Setting("a"), Setting("b")})
LeavesMM == DOMAIN ObjectsMM

Value(t) == [text |-> t, ok |-> TRUE, valid |-> TRUE, to |-> "", aps |-> << >>]
ObjectsBM ==
    ("Name" :> {Value("x"), Value("y")}) @@
    ("Hidden" :> {Value("True"), [Value("q") EXCEPT !.valid = FALSE]}) @@
    ("EmbeddedSNAP" :> {[Value("./BM/a") EXCEPT !.to = "a"], [Value("./BM/SNAP1") EXCEPT !.to = "SNAP1"],
                        [Value("BM/a") EXCEPT !.to = "a", !.valid = FALSE]}) @@
    ("IAPPriorityList" :> {[Value("1") EXCEPT !.aps = <<1>>], [Value("u") EXCEPT !.aps = <<2>>]})
LeavesBM == DOMAIN ObjectsBM
=============================================================================
