----------------------------- MODULE AMLifecycle -----------------------------
(***************************************************************************)
(* What the Application Management server promises about its own life:     *)
(* the process exits only when no client has a session and no download is  *)
(* in its store, and only a client with a session gives it work.           *)
(* AMDownloads implements this specification.                              *)
(***************************************************************************)
EXTENDS Integers

CONSTANT Clients

VARIABLES
  up,        \* the server process runs
  sessions,  \* the clients that have an open session
  busy       \* there is a download to do

lvars == <<up, sessions, busy>>

LifeInit == up = TRUE /\ sessions = {} /\ busy = FALSE

Start == /\ ~up /\ up' = TRUE
         /\ sessions' = {} /\ busy' = FALSE

Connect(k) == /\ up /\ k \notin sessions
              /\ sessions' = sessions \cup {k}
              /\ UNCHANGED <<up, busy>>

Close(k) == /\ up /\ k \in sessions
            /\ sessions' = sessions \ {k}
            /\ UNCHANGED <<up, busy>>

TakeWork(k) == /\ up /\ k \in sessions
               /\ busy' = TRUE
               /\ UNCHANGED <<up, sessions>>

FinishWork == /\ up /\ busy' = FALSE
              /\ UNCHANGED <<up, sessions>>

Exit == /\ up /\ sessions = {} /\ ~busy
        /\ up' = FALSE
        /\ UNCHANGED <<sessions, busy>>

LifeNext ==
  \/ Start \/ FinishWork \/ Exit
  \/ \E k \in Clients : Connect(k) \/ Close(k) \/ TakeWork(k)

LifeSpec == LifeInit /\ [][LifeNext]_lvars
=============================================================================
