----------------------------- MODULE AMStorageMC -----------------------------
(* AMStorage on small instances: one client name, the same name with an      *)
(* internal id the client appended itself, and the predefined name.          *)
EXTENDS AMStorage

App == [name |-> "app", tail |-> << >>]
App2 == [name |-> "app", tail |-> <<2>>]

MCUserIds == {App, App2}
MCStaticUserId == App
=============================================================================
