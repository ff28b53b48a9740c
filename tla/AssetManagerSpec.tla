-------------------------- MODULE AssetManagerSpec --------------------------
(***************************************************************************)
(* What the native AssetManager bridge promises its managed caller:        *)
(* once initialised, openAsset and findAssetPath resolve a name against an *)
(* ordered list of six search roots, first match wins; an open asset is a  *)
(* byte stream with one position that sequential reads advance by the     *)
(* number of bytes they return, that positional reads, length queries and *)
(* remaining-length queries leave alone, and that seeks set.               *)
(*                                                                         *)
(* Handles are the descriptor numbers the caller may hold; the spec does   *)
(* not say which one it gets, only that it is not already in use. Opening *)
(* may fail although the file exists only when every handle is in use.    *)
(***************************************************************************)
EXTENDS Integers, FiniteSets

CONSTANTS
    Names,        \* asset file names
    Handles,      \* descriptor numbers a caller may be handed
    FileLen(_),   \* length of the file <<root, name>>
    MaxPos,       \* the largest stream position a caller seeks or reads at
    NULL,         \* the null Java reference
    NoFile        \* a handle that is not open

VARIABLES
    ready,        \* the search path list has been built
    dirs,         \* the file system: root |-> names present under it
    ahandles,     \* handle |-> the file it reads, or NoFile
    apos,         \* handle |-> position of its stream
    aresult       \* the last value returned to the caller

avars == <<ready, dirs, ahandles, apos, aresult>>

\* The search order of spec section 4.2.
SearchOrder == <<"Resources", "Frameworks", "Documents", "Inbox", "Library", "Tmp">>
Roots == {SearchOrder[i] : i \in 1..6}

Ret(op, val, at, path) == [op |-> op, val |-> val, at |-> at, path |-> path]

\* The first root in search order holding name, or NULL.
FirstRoot(name) ==
    LET hits == {i \in 1..6 : name \in dirs[SearchOrder[i]]}
    IN IF hits = {} THEN NULL
       ELSE SearchOrder[CHOOSE i \in hits : \A j \in hits : i <= j]

FreeHandles == {h \in Handles : ahandles[h] = NoFile}

Init ==
    /\ ready = FALSE
    /\ dirs \in [Roots -> SUBSET Names]
    /\ ahandles = [h \in Handles |-> NoFile]
    /\ apos = [h \in Handles |-> 0]
    /\ aresult = Ret("none", 0, 0, NULL)

Initialize ==
    /\ ~ready
    /\ ready' = TRUE
    /\ UNCHANGED <<dirs, ahandles, apos, aresult>>

OpenAsset(name) ==
    /\ ready
    /\ \/ /\ FirstRoot(name) # NULL
          /\ \E h \in FreeHandles :
                /\ ahandles' = [ahandles EXCEPT ![h] = <<FirstRoot(name), name>>]
                /\ apos' = [apos EXCEPT ![h] = 0]
                /\ aresult' = Ret("openAsset", h, 0, NULL)
       \/ /\ FirstRoot(name) = NULL \/ FreeHandles = {}
          /\ aresult' = Ret("openAsset", -1, 0, NULL)
          /\ UNCHANGED <<ahandles, apos>>
    /\ UNCHANGED <<ready, dirs>>

FindAssetPath(name) ==
    /\ ready
    /\ \/ aresult' = Ret("findAssetPath", 0, 0, FirstRoot(name))
       \/ /\ FreeHandles = {}
          /\ aresult' = Ret("findAssetPath", 0, 0, NULL)
    /\ UNCHANGED <<ready, dirs, ahandles, apos>>

Open(h) == ahandles[h] # NoFile
Len(h) == FileLen(ahandles[h])
Avail(h, from) == IF from < Len(h) THEN Len(h) - from ELSE 0
MinOf(a, b) == IF a < b THEN a ELSE b

Destroy(h) ==
    /\ Open(h)
    /\ ahandles' = [ahandles EXCEPT ![h] = NoFile]
    /\ apos' = [apos EXCEPT ![h] = 0]
    /\ UNCHANGED <<ready, dirs, aresult>>

Length(h) ==
    /\ Open(h)
    /\ aresult' = Ret("getAssetLength", Len(h), 0, NULL)
    /\ UNCHANGED <<ready, dirs, ahandles, apos>>

Remaining(h) ==
    /\ Open(h)
    /\ aresult' = Ret("getAssetRemainingLength", Len(h) - apos[h], 0, NULL)
    /\ UNCHANGED <<ready, dirs, ahandles, apos>>

\* One byte at the position (its offset stands for its value), or EOF.
ReadChar(h) ==
    /\ Open(h)
    /\ aresult' = Ret("readAssetChar", IF apos[h] < Len(h) THEN apos[h] ELSE -1, 0, NULL)
    /\ apos' = [apos EXCEPT ![h] = @ + MinOf(1, Avail(h, @))]
    /\ UNCHANGED <<ready, dirs, ahandles>>

\* A sequential read: k of the bytes from the position on, which it passes.
Read(h) ==
    /\ Open(h)
    /\ \E k \in 0..Avail(h, apos[h]) :
          /\ aresult' = Ret("readAsset", k, apos[h], NULL)
          /\ apos' = [apos EXCEPT ![h] = @ + k]
    /\ UNCHANGED <<ready, dirs, ahandles>>

\* A read of k of the bytes from offset o on that leaves the position alone.
ReadAt(h) ==
    /\ Open(h)
    /\ \E o \in 0..MaxPos : \E k \in 0..Avail(h, o) :
          aresult' = Ret("readAsset", k, o, NULL)
    /\ UNCHANGED <<ready, dirs, ahandles, apos>>

\* A seek sets the position, or fails with -1 and leaves it alone.
Seek(h) ==
    /\ Open(h)
    /\ \/ \E t \in 0..MaxPos :
          /\ apos' = [apos EXCEPT ![h] = t]
          /\ aresult' = Ret("seekAsset", t, 0, NULL)
       \/ /\ aresult' = Ret("seekAsset", -1, 0, NULL)
          /\ UNCHANGED apos
    /\ UNCHANGED <<ready, dirs, ahandles>>

Next ==
    \/ Initialize
    \/ \E n \in Names : OpenAsset(n) \/ FindAssetPath(n)
    \/ \E h \in Handles :
          \/ Destroy(h) \/ Length(h) \/ Remaining(h) \/ ReadChar(h)
          \/ Read(h) \/ ReadAt(h) \/ Seek(h)

Spec == Init /\ [][Next]_avars
=============================================================================
