------------------------------ MODULE CStrings ------------------------------
(***************************************************************************)
(* The C string buffers the bridges build: every new char[n] followed by  *)
(* strcpy, strcat, CFStringGetCString and '\0' stores, in                  *)
(* src/core/jni/android_content_res_AssetManager.cpp and                  *)
(* android_content_ContextImpl.cpp.                                       *)
(*                                                                         *)
(* The characters of a string are abstracted to its length: what decides  *)
(* whether a write stays inside its allocation is where it lands, and      *)
(* that depends only on lengths.  Each bridge function's use of one buffer *)
(* is a program of C library calls; a call of the function runs the       *)
(* program one library call per step and records every byte index it     *)
(* writes.  strlen(...) - 5 is size_t arithmetic, modulo 2^SizeBits.       *)
(***************************************************************************)
EXTENDS Integers, Sequences

CONSTANTS
    Funcs,        \* the bridge functions whose buffers are explored
    UrlLens,      \* CFStringGetLength of the resources directory URL
    TmpLens,      \* strlen(getenv("MOE_TMP_DIR"))
    PathLens,     \* lengths of the mPaths entries
    NameLens,     \* lengths of asset and resource names
    TypeLens,     \* lengths of resource types
    PackLens,     \* CFStringGetLength of the bundle identifier
    SizeBits,     \* width of size_t
    NULL

VARIABLES
    call,         \* the function running: [fn, prog, pc], or NULL
    buf,          \* its buffer: [alloc, len]; len = strlen of its content
    wrote         \* the byte indices written since the buffer was allocated

vars == <<call, buf, wrote>>

\* size_t subtraction.
SizeT(x) == x % (2 ^ SizeBits)

\* The library calls of a program.
New(n) == [op |-> "new", n |-> n]     \* new char[n]
Cpy(k) == [op |-> "cpy", n |-> k]     \* strcpy of a k-character string
Cat(k) == [op |-> "cat", n |-> k]     \* strcat of a k-character string
Nul(i) == [op |-> "nul", n |-> i]     \* buffer[i] = '\0'

-----------------------------------------------------------------------------
(* The programs, one per buffer.                                          *)

\* init: len = CFStringGetLength(resPathStr) + 1; resPath = new char[len];
\* CFStringGetCString(resPathStr, resPath, len, ...).
ResPathProg(u) == <<New(u + 1), Cpy(u)>>

\* init: resPathCopy = new char[len + 30]; strcpy(resPathCopy, &resPath[7]);
\* strcat(resPathCopy, "/Frameworks/").
ResPathCopyProg(u) == <<New(u + 1 + 30), Cpy(u - 7), Cat(12)>>

\* Mutant of TmpDirProg: the copy is allocated strlen(tmpdir) + 10 bytes.
TmpDirProgShort(t) ==
    LET cut == <<Cpy(t), Nul(SizeT(t - 5))>>
    IN <<New(t + 10)>> \o cut \o cut \o <<Cat(17)>> \o cut \o <<Cat(9)>>
                      \o cut \o <<Cat(11)>>

\* init: tmpdirCopy = new char[strlen(tmpdir) + 30]; then four times
\* strcpy(tmpdirCopy, tmpdir); tmpdirCopy[strlen(tmpdir) - 5] = '\0';
\* the last three followed by strcat of "/Documents/Inbox/", "/Library/"
\* and "/Documents/".
TmpDirProg(t) ==
    LET cut == <<Cpy(t), Nul(SizeT(t - 5))>>
    IN <<New(t + 30)>> \o cut \o cut \o <<Cat(17)>> \o cut \o <<Cat(9)>>
                      \o cut \o <<Cat(11)>>

\* openAsset: asset = new char[strlen(path) + strlen(nativeFileName)];
\* strcpy(asset, path); strcat(asset, nativeFileName).
OpenAssetProg(p, n) == <<New(p + n), Cpy(p), Cat(n)>>

\* findAsset: the same allocation; strcpy path, strcat "/", strcat name.
FindAssetProg(p, n) == <<New(p + n), Cpy(p), Cat(1), Cat(n)>>

\* getResourceIdentifier: resourceName = new char[strlen(name) + strlen(type)];
\* strcpy name, strcat ".", strcat type.
ResourceNameProg(n, ty) == <<New(n + ty), Cpy(n), Cat(1), Cat(ty)>>

\* getResourceEntryName on the string "<name>.<type>" that
\* getResourceIdentifier stored: name = new char[strlen(nativeNameType)];
\* strcpy; name[strrchr(name, '.') - name] = '\0'.
EntryNameProg(n, ty) == <<New(n + 1 + ty), Cpy(n + 1 + ty), Nul(n)>>

\* nativeGetPackageName: len = CFStringGetLength(packName) + 1;
\* cstrPackName = new char[len]; CFStringGetCString(packName, ..., len, ...).
PackageNameProg(l) == <<New(l + 1), Cpy(l)>>

\* Every program a call of f can run, over the input lengths.
Programs(f) ==
    CASE f = "initResPath"     -> {ResPathProg(u) : u \in UrlLens}
      [] f = "initResPathCopy" -> {ResPathCopyProg(u) : u \in UrlLens}
      [] f = "initTmpDir"      -> {TmpDirProg(t) : t \in TmpLens}
      [] f = "openAsset"       -> {OpenAssetProg(p, n) : p \in PathLens, n \in NameLens}
      [] f = "findAsset"       -> {FindAssetProg(p, n) : p \in PathLens, n \in NameLens}
      [] f = "getResourceIdentifier" ->
                                  {ResourceNameProg(n, ty) : n \in NameLens, ty \in TypeLens}
      [] f = "getResourceEntryName" ->
                                  {EntryNameProg(n, ty) : n \in NameLens, ty \in TypeLens}
      [] f = "nativeGetPackageName" -> {PackageNameProg(l) : l \in PackLens}

-----------------------------------------------------------------------------
(* One step per library call.                                             *)

Instr == call.prog[call.pc]
Running(op) == call # NULL /\ call.pc <= Len(call.prog) /\ Instr.op = op
Advance == call' = [call EXCEPT !.pc = @ + 1]

\* new char[n]: a fresh allocation of n bytes of indeterminate content.
NewChars ==
    /\ Running("new")
    /\ buf' = [alloc |-> Instr.n, len |-> 0]
    /\ wrote' = {}
    /\ Advance

\* strcpy(dst, s) (and CFStringGetCString of a string that fits): bytes
\* 0 .. strlen(s), the terminator included.
Strcpy ==
    /\ Running("cpy")
    /\ buf' = [buf EXCEPT !.len = Instr.n]
    /\ wrote' = wrote \cup (0 .. Instr.n)
    /\ Advance

\* strcat(dst, s): bytes strlen(dst) .. strlen(dst) + strlen(s).
Strcat ==
    /\ Running("cat")
    /\ buf' = [buf EXCEPT !.len = @ + Instr.n]
    /\ wrote' = wrote \cup (buf.len .. buf.len + Instr.n)
    /\ Advance

\* dst[i] = '\0': one byte; the string ends there if i is inside it.
NulAt ==
    /\ Running("nul")
    /\ buf' = [buf EXCEPT !.len = IF Instr.n < @ THEN Instr.n ELSE @]
    /\ wrote' = wrote \cup {Instr.n}
    /\ Advance

Begin(f, prog) ==
    /\ call = NULL
    /\ call' = [fn |-> f, prog |-> prog, pc |-> 1]
    /\ UNCHANGED <<buf, wrote>>

\* The function returns; its buffer is deleted.
Return ==
    /\ call # NULL /\ call.pc > Len(call.prog)
    /\ call' = NULL
    /\ UNCHANGED <<buf, wrote>>

Init ==
    /\ call = NULL
    /\ buf = [alloc |-> 0, len |-> 0]
    /\ wrote = {}

Next ==
    \/ \E f \in Funcs : \E prog \in Programs(f) : Begin(f, prog)
    \/ NewChars \/ Strcpy \/ Strcat \/ NulAt
    \/ Return

Spec == Init /\ [][Next]_vars

-----------------------------------------------------------------------------
(* Properties.                                                            *)

\* No buffer overflow: every byte the string handling of a bridge function
\* writes, terminators and '\0' stores at computed offsets included, lies
\* inside the new char[] it was written to.
InBounds == wrote \subseteq 0 .. buf.alloc - 1
=============================================================================
