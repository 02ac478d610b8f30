---------------------------- MODULE AMInstallerMC ----------------------------
(* AMInstaller on small instances.  No symmetry: its main run checks liveness. *)
EXTENDS AMInstaller, TLC
=============================================================================
