---------------------------- MODULE MCRomFolder ----------------------------
(* Instances of RomFolder for TLC. *)
EXTENDS RomFolder
=============================================================================
