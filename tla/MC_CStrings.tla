----------------------------- MODULE MC_CStrings -----------------------------
(* The buffers of init and nativeGetPackageName; and the four buffers     *)
(* sized from two string lengths with init under a short MOE_TMP_DIR.     *)
EXTENDS CStrings

InitFuncs == {"initResPath", "initResPathCopy", "initTmpDir", "nativeGetPackageName"}
OverflowFuncs == {"openAsset", "findAsset", "getResourceIdentifier", "getResourceEntryName",
                  "initTmpDir"}
=============================================================================
