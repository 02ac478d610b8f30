-------------------------------- MODULE FotaMC --------------------------------
(***************************************************************************)
(* The firmware update adapter with two servers and two predefined objects.*)
(***************************************************************************)
EXTENDS Fota

TwoPredefined == <<"p1", "p2">>

\* What one server may expect; the servers are alike.
FairSpec == Spec /\ FairTo("s1")

-----------------------------------------------------------------------------
\* Every name the engine knows stands for a row of the table: a command for it
\* finds its object, also after deletions that were refused.
MappedExists == \A name \in DOMAIN map : Exists(X, map[name])

\* An alert goes to the server whose Exec it answers and carries that server's
\* correlator, whatever other servers' commands on the same object did or failed
\* to do meanwhile.
AlertOfOwnExec ==
    \A a \in mem.alerts : mem.server # NoServer /\ a.correlator = mem.server

\* A server that waits for a result that is there does not wait forever: it is
\* marked as sent, or another Exec or a deletion takes its place.
Waiting(id, server) ==
    /\ Exists(X, id)
    /\ db.obj[id].result = NullResult
    /\ db.obj[id].server = server
    /\ db.engine[id].state = "EDone"
ResultReported == \A id \in 1 .. MaxId : Waiting(id, "s1") ~> ~Waiting(id, "s1")

\* A result that is marked as sent was in an alert of this session: "Generic
\* Alert has been successfully sent reporting these final results"
\* (nsmldmfotaadapter.h:503).
MarkedWasSent ==
    [][\A server \in Servers : AlertsSent(server) =>
          \A id \in DOMAIN db.obj :
              db.obj[id].result = NullResult /\ db'.obj[id].result # NullResult =>
                  \E a \in mem.alerts : a.id = id]_dmVars
=============================================================================
