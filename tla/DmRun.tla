-------------------------------- MODULE DmRun --------------------------------
(***************************************************************************)
(* One of the adapters of settings runs with the engine.                   *)
(***************************************************************************)
EXTENDS DmAdapter, TLC

VARIABLE
    adapter     \* the one that runs

runVars == <<dmVars, adapter>>
=============================================================================
