-------------------------- MODULE MC_AssetManager --------------------------
(* Model values and small definitions that instantiate AssetManager.      *)
EXTENDS AssetManager

\* Distinct lengths per root, so that reading tells the matches apart.
MCFileLen(file) ==
    CASE file[1] = "Resources"  -> 2
      [] file[1] = "Frameworks" -> 1
      [] file[1] = "Documents"  -> 2
      [] file[1] = "Inbox"      -> 0
      [] file[1] = "Library"    -> 1
      [] file[1] = "Tmp"        -> 2
=============================================================================
