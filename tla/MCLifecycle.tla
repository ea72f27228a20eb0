---------------------------- MODULE MCLifecycle ----------------------------
(***************************************************************************)
(* Lifecycle for TLC: every module, and the RAM disk alone.                *)
(***************************************************************************)
EXTENDS Lifecycle

MCRamDisk == {"ram_disk"}
=============================================================================
