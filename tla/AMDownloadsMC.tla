---------------------------- MODULE AMDownloadsMC ----------------------------
(* AMDownloads on small instances.  No symmetry: its main run checks liveness. *)
EXTENDS AMDownloads, TLC
=============================================================================
