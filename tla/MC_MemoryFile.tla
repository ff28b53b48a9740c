--------------------------- MODULE MC_MemoryFile ---------------------------
(* Instantiates MemoryFile for TLC; every constant is given in the cfgs.  *)
EXTENDS MemoryFile
=============================================================================
