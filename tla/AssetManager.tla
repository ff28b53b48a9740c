---------------------------- MODULE AssetManager ----------------------------
(***************************************************************************)
(* The native side of android.content.res.AssetManager: asset search and  *)
(* asset file I/O, src/core/jni/android_content_res_AssetManager.cpp.     *)
(*                                                                         *)
(* The process descriptor table is explicit: open(2) hands out the lowest *)
(* free descriptor, and every descriptor has one file offset that read,   *)
(* lseek and the stdio streams fdopen puts on it all move.  A file is the *)
(* pair <<root, name>>; byte i of a file is represented by its offset i.  *)
(* The managed caller (AssetInputStream, not under src/) is modelled only *)
(* as the set of handles it holds and uses.                               *)
(***************************************************************************)
EXTENDS Integers, FiniteSets, TLC

CONSTANTS
    Names,        \* asset file names the caller asks for
    Fds,          \* the descriptor numbers of the process
    StdFds,       \* descriptors open before the AssetManager is used
    FileLen(_),   \* length of the file <<root, name>>
    BufSize,      \* bytes one refill of a stdio FILE reads (st_blksize)
    MaxPos,       \* bound on the offsets a caller reads or seeks at
    MaxRead,      \* bound on the byte count of one readAsset call
    NULL,         \* the null Java reference
    NoFile,       \* a descriptor that is not open
    Std           \* a standard stream open on a descriptor

ASSUME StdFds \subseteq Fds /\ BufSize >= 1

VARIABLES
    mPaths,       \* the AssetManager.mPaths String[]: index |-> root, or NULL
    dirs,         \* the file system: root |-> names present under it
    fdtab,        \* descriptor |-> the file open on it, Std, or NoFile
    off,          \* descriptor |-> its file offset
    held,         \* the asset handles the managed caller holds
    result        \* the last value returned to the managed caller

vars == <<mPaths, dirs, fdtab, off, held, result>>

Roots == {"Resources", "Frameworks", "Documents", "Inbox", "Library", "Tmp"}
Files == Roots \X Names
Handles == Fds \ StdFds

Ret(op, val, at, path) == [op |-> op, val |-> val, at |-> at, path |-> path]

-----------------------------------------------------------------------------
(* The operating system calls the bridge makes.                           *)

\* open(path, O_RDONLY): the lowest free descriptor, now naming the file at
\* offset 0, or -1 when the file is absent or no descriptor is free.
PosixOpen(tbl, file) ==
    LET free == {d \in Fds : tbl[d] = NoFile}
        d == CHOOSE d \in free : \A e \in free : d <= e
    IN IF file[2] \in dirs[file[1]] /\ free # {}
       THEN [fd |-> d, tbl |-> [tbl EXCEPT ![d] = file]]
       ELSE [fd |-> -1, tbl |-> tbl]

\* Offsets after the opens that turned tbl into tbl2: new descriptors at 0.
OpenedAtZero(tbl, tbl2) ==
    [d \in Fds |-> IF tbl[d] = NoFile /\ tbl2[d] # NoFile THEN 0 ELSE off[d]]

\* Bytes a read of n bytes at offset at returns from a file of length len.
ReadCount(len, at, n) ==
    IF at >= len THEN 0 ELSE IF n < len - at THEN n ELSE len - at

-----------------------------------------------------------------------------
(* init(isSystem): mPaths = the resources directory, its Frameworks/      *)
(* subdirectory, and Documents/, Documents/Inbox/, Library/ and the       *)
(* directory itself of MOE_TMP_DIR with its last five characters cut.     *)
(* The slots are filled in the order 0, 1, 5, 3, 4, 2.  Nothing stops a  *)
(* second call; it builds the same array.  Every root ends in '/' (a      *)
(* directory URL, the literals, MOE_TMP_DIR), so openAsset's root + name   *)
(* and findAsset's root + "/" + name name the same file.                  *)
init ==
    /\ mPaths' = (0 :> "Resources") @@ (1 :> "Frameworks") @@ (5 :> "Tmp")
                   @@ (3 :> "Inbox") @@ (4 :> "Library") @@ (2 :> "Documents")
    /\ UNCHANGED <<dirs, fdtab, off, held, result>>

NumPaths == Cardinality(DOMAIN mPaths)

\* The search loop of openAsset and findAsset:
\*   for (i = 0; i < numPaths && f <= 0; i++) { f = open(paths[i] + name); ... }
\* findAsset also records findInd = i whenever f > 0.
RECURSIVE SearchLoop(_, _, _)
SearchLoop(name, i, st) ==
    IF i < NumPaths /\ st.f <= 0
    THEN LET o == PosixOpen(st.tbl, <<mPaths[i], name>>)
         IN SearchLoop(name, i + 1,
                       [f |-> o.fd, tbl |-> o.tbl,
                        ind |-> IF o.fd > 0 THEN i ELSE st.ind])
    ELSE st

Search(name) == SearchLoop(name, 0, [f |-> 0, tbl |-> fdtab, ind |-> 0])

\* The managed caller keeps a returned handle only when it is valid (> 0).
Keep(f) == IF f > 0 THEN held \cup {f} ELSE held

\* openAsset(fileName, accessMode): the descriptor of the first match, as is.
openAsset(name) ==
    /\ mPaths # NULL
    /\ LET s == Search(name)
       IN /\ fdtab' = s.tbl
          /\ off' = OpenedAtZero(fdtab, s.tbl)
          /\ held' = Keep(s.f)
          /\ result' = Ret("openAsset", s.f, 0, NULL)
    /\ UNCHANGED <<mPaths, dirs>>

\* openNonAssetNative(cookie, fileName, accessMode) is openAsset.
openNonAssetNative(name) == openAsset(name)

\* Mutant of findAsset: the matching descriptor is not closed.
findAssetNoClose(name) ==
    /\ mPaths # NULL
    /\ LET s == Search(name)
       IN /\ fdtab' = s.tbl
          /\ off' = OpenedAtZero(fdtab, s.tbl)
          /\ result' = Ret("findAssetPath", 0, 0, IF s.f > 0 THEN mPaths[s.ind] ELSE NULL)
    /\ UNCHANGED <<mPaths, dirs, held>>

\* findAsset(fileName): the same search; the matching descriptor is closed
\* and paths[findInd] returned, or NULL when the last open failed.
findAsset(name) ==
    /\ mPaths # NULL
    /\ LET s == Search(name)
           opened == IF s.f > 0 THEN [s.tbl EXCEPT ![s.f] = NoFile] ELSE s.tbl
       IN /\ fdtab' = opened
          /\ off' = OpenedAtZero(fdtab, opened)
          /\ result' = Ret("findAssetPath", 0, 0, IF s.f > 0 THEN mPaths[s.ind] ELSE NULL)
    /\ UNCHANGED <<mPaths, dirs, held>>

\* destroyAsset(asset): close(asset).
destroyAsset(h) ==
    /\ fdtab' = [fdtab EXCEPT ![h] = NoFile]
    /\ held' = held \ {h}
    /\ UNCHANGED <<mPaths, dirs, off, result>>

\* Mutant of getAssetLength: the offset is left at the end of the file.
getAssetLengthNoRestore(h) ==
    LET len == FileLen(fdtab[h])
    IN /\ off' = [off EXCEPT ![h] = len]
       /\ result' = Ret("getAssetLength", len, 0, NULL)
       /\ UNCHANGED <<mPaths, dirs, fdtab, held>>

\* getAssetLength(asset): pos = lseek(CUR); f = fdopen(asset);
\* fseek(f, 0, SEEK_END); len = ftell(f); lseek(asset, pos, SEEK_SET).
getAssetLength(h) ==
    LET pos == off[h]
        len == FileLen(fdtab[h])
        atEnd == [off EXCEPT ![h] = len]
    IN /\ off' = [atEnd EXCEPT ![h] = pos]
       /\ result' = Ret("getAssetLength", len, 0, NULL)
       /\ UNCHANGED <<mPaths, dirs, fdtab, held>>

\* readAssetChar(asset): pos = lseek(CUR); f = fdopen(asset);
\* fseek(f, pos, SEEK_SET); s = fgetc(f).  fgetc refills the new FILE's
\* buffer with one read(2) of BufSize bytes, which moves the descriptor's
\* offset past every byte it buffered; the FILE is never closed.
readAssetChar(h) ==
    LET pos == off[h]
        len == FileLen(fdtab[h])
        got == ReadCount(len, pos, BufSize)
    IN /\ off' = [off EXCEPT ![h] = pos + got]
       /\ result' = Ret("readAssetChar", IF got > 0 THEN pos ELSE -1, 0, NULL)
       /\ UNCHANGED <<mPaths, dirs, fdtab, held>>

\* readAsset(asset, buf, off, len): pread at offset off when off != 0,
\* otherwise read(2) from the descriptor's offset, which it advances.
readAsset(h, o, n) ==
    LET len == FileLen(fdtab[h])
    IN /\ \/ /\ o # 0
             /\ result' = Ret("readAsset", ReadCount(len, o, n), o, NULL)
             /\ UNCHANGED off
          \/ /\ o = 0
             /\ result' = Ret("readAsset", ReadCount(len, off[h], n), off[h], NULL)
             /\ off' = [off EXCEPT ![h] = @ + ReadCount(len, @, n)]
       /\ UNCHANGED <<mPaths, dirs, fdtab, held>>

\* Mutant of seekAsset: a negative target is stored as the offset.
seekAssetNoCheck(h, o, whence) ==
    LET base == CASE whence = 0 -> 0
                  [] whence = 1 -> off[h]
                  [] whence = 2 -> FileLen(fdtab[h])
    IN /\ base + o <= MaxPos
       /\ off' = [off EXCEPT ![h] = base + o]
       /\ result' = Ret("seekAsset", base + o, 0, NULL)
       /\ UNCHANGED <<mPaths, dirs, fdtab, held>>

\* seekAsset(asset, offset, whence): lseek; -1 (EINVAL) for a negative target.
seekAsset(h, o, whence) ==
    LET base == CASE whence = 0 -> 0
                  [] whence = 1 -> off[h]
                  [] whence = 2 -> FileLen(fdtab[h])
        target == base + o
    IN /\ target <= MaxPos
       /\ off' = IF target >= 0 THEN [off EXCEPT ![h] = target] ELSE off
       /\ result' = Ret("seekAsset", IF target >= 0 THEN target ELSE -1, 0, NULL)
       /\ UNCHANGED <<mPaths, dirs, fdtab, held>>

\* getAssetRemainingLength(asset): curPos = lseek(CUR);
\* len = lseek(SEEK_END) - curPos; lseek(asset, curPos, SEEK_SET).
getAssetRemainingLength(h) ==
    LET curPos == off[h]
        endPos == FileLen(fdtab[h])
        atEnd == [off EXCEPT ![h] = endPos]
    IN /\ off' = [atEnd EXCEPT ![h] = curPos]
       /\ result' = Ret("getAssetRemainingLength", endPos - curPos, 0, NULL)
       /\ UNCHANGED <<mPaths, dirs, fdtab, held>>

-----------------------------------------------------------------------------

Init ==
    /\ mPaths = NULL
    /\ dirs \in [Roots -> SUBSET Names]
    /\ fdtab = [d \in Fds |-> IF d \in StdFds THEN Std ELSE NoFile]
    /\ off = [d \in Fds |-> 0]
    /\ held = {}
    /\ result = Ret("none", 0, 0, NULL)

\* Calls on a held asset handle, without readAssetChar.
StreamCall(h) ==
    \/ destroyAsset(h)
    \/ getAssetLength(h)
    \/ getAssetRemainingLength(h)
    \/ \E o \in 0..MaxPos, n \in 1..MaxRead : readAsset(h, o, n)
    \/ \E o \in -1..1, w \in 0..2 : seekAsset(h, o, w)

NextCommon ==
    \/ init
    \/ \E n \in Names : openAsset(n) \/ openNonAssetNative(n) \/ findAsset(n)

Next == NextCommon \/ \E h \in held : StreamCall(h) \/ readAssetChar(h)

\* The bridge as used by a caller that never calls readAssetChar.
NextNoChar == NextCommon \/ \E h \in held : StreamCall(h)

Spec == Init /\ [][Next]_vars
SpecNoChar == Init /\ [][NextNoChar]_vars

-----------------------------------------------------------------------------
(* Properties.                                                            *)

TypeOK ==
    /\ mPaths \in [0..5 -> Roots] \cup {NULL}
    /\ dirs \in [Roots -> SUBSET Names]
    /\ fdtab \in [Fds -> Files \cup {Std, NoFile}]
    /\ off \in [Fds -> 0..MaxPos]
    /\ held \subseteq Handles
    /\ \A h \in held : fdtab[h] \in Files

\* No descriptor leaks: every descriptor openAsset, openNonAssetNative or
\* findAsset opened is either closed again before the call returns or
\* handed to the managed caller, who holds it until destroyAsset.
NoFdLeak == \A d \in Fds : fdtab[d] \in Files => d \in held

\* The bridge implements AssetManagerSpec: search order, first match wins,
\* and one stream position per handle that only sequential reads and seeks
\* move, by exactly what they report.
Abs == INSTANCE AssetManagerSpec
         WITH ready <- mPaths # NULL,
              ahandles <- [h \in Handles |-> IF h \in held THEN fdtab[h] ELSE NoFile],
              apos <- [h \in Handles |-> IF h \in held THEN off[h] ELSE 0],
              aresult <- result,
              Handles <- Handles

AssetManagerRefinement == Abs!Spec
=============================================================================
