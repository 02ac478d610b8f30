------------------------------- MODULE DmPlayer -------------------------------
(***************************************************************************)
(* The adapter of the media player (ST) alone with the engine, and what    *)
(* the player relies on.                                                   *)
(***************************************************************************)
EXTENDS DmRun

CONSTANTS
    PlayerLeaves, PlayerObjects, PlayerPoints, PlayerPorts  \* those of Streaming

ST == INSTANCE Streaming WITH
    Leaves <- PlayerLeaves, Objects <- PlayerObjects, Points <- PlayerPoints,
    Ports <- PlayerPorts

\* The engine hands over commands on the leaves the adapter describes.
ASSUME PlayerLeavesAssumption == PlayerLeaves \subseteq DOMAIN ST!Access

PlayerInit == adapter = "ST" /\ ST!Init
PlayerNext == adapter = "ST" /\ ST!Next /\ UNCHANGED adapter

PlayerSpec == PlayerInit /\ [][PlayerNext]_runVars

-------------------------------------------------------------------------------
\* The ports that are stored leave room between them, whichever is set first, and
\* also when the user has set others while the adapter holds its copy.
PortsApart == adapter = "ST" => db.model.min + ST!KPortDiff < db.model.max
===============================================================================
