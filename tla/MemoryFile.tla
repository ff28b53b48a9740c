----------------------------- MODULE MemoryFile -----------------------------
(***************************************************************************)
(* The native side of android.os.MemoryFile, src/core/jni/                *)
(* android_os_MemoryFile.cpp: one ashmem region, the descriptor that names *)
(* it, its mapping, and the pin / copy / unpin bracket of native_read and  *)
(* native_write.                                                           *)
(*                                                                         *)
(* The kernel may purge an ashmem region whose pages are unpinned: the     *)
(* content becomes zero pages, and the next pin reports ASHMEM_WAS_PURGED  *)
(* once.  Pinning is not counted: one unpin unpins whatever any caller    *)
(* pinned.  native_read and native_write run on the calling thread; each  *)
(* of their system calls is a step, so the kernel and other threads may   *)
(* act between them.  Other components of the process (asset files)       *)
(* open and close descriptors too, and open(2) reuses the lowest free one. *)
(*                                                                         *)
(* The managed MemoryFile (not under src/) is modelled by what it passes:  *)
(* native_read/native_write get unpinned = mAllowPurging, allowPurging(a)  *)
(* calls native_pin(fd, ~a), close() unmaps before native_close, and reads *)
(* and writes start only while the region is mapped.                      *)
(***************************************************************************)
EXTENDS Integers, FiniteSets

CONSTANTS
    Threads,      \* managed threads calling native_read / native_write
    Data,         \* values a write may store
    Zero,         \* the content of fresh or purged pages
    Fds,          \* descriptor numbers of the process
    PinArgs,      \* values allowPurging passes as native_pin's shouldPin
    Builds,       \* the builds explored: MOE defined (TRUE) or not (FALSE)
    NULL,         \* a null FileDescriptor reference
    NoFile, Ashmem, OtherFile  \* what a descriptor refers to

ASSUME Builds \subseteq BOOLEAN /\ PinArgs \subseteq BOOLEAN /\ Zero \notin Data

VARIABLES
    MOE,          \* the build: TRUE when MOE is defined (no ashmem); fixed
    fdtab,        \* descriptor |-> Ashmem, OtherFile or NoFile
    jfd,          \* the int inside the managed FileDescriptor, or NULL
    life,         \* the managed object: "new", "open", "deactivated", "closed"
    mapped,       \* the region (or, under MOE, anonymous memory) is mapped
    region,       \* the ashmem region: [alive, pinned, purged, content]
    allowPurging, \* MemoryFile.mAllowPurging
    rw,           \* thread |-> its native_read / native_write in progress
    written,      \* ghost: the content the last completed write stored
    reported,     \* ghost: a purge was reported since that write
    lastRead,     \* ghost: what the last read copied, and what it expected
    foreign,      \* ghost: a call reached a descriptor of another component
    stale         \* ghost: a copy used an address munmap had released

vars == <<MOE, stale, fdtab, jfd, life, mapped, region, allowPurging, rw,
          written, reported, lastRead, foreign>>

Idle == [pc |-> "idle", op |-> "none", unpinned |-> FALSE, fd |-> -1, val |-> Zero]

LowestFree == CHOOSE d \in Fds : fdtab[d] = NoFile /\ \A e \in Fds : fdtab[e] = NoFile => d <= e
HasFree == \E d \in Fds : fdtab[d] = NoFile

\* The descriptor fd is a valid one that is not the region's.
Foreign(fd) == fd >= 0 /\ fdtab[fd] = OtherFile

-----------------------------------------------------------------------------
(* ashmem ioctls on descriptor fd, whole region (offset 0, length 0).      *)

\* ashmem_pin_region: ASHMEM_WAS_PURGED (1) if the pages were purged while
\* unpinned, ASHMEM_NOT_PURGED (0) otherwise, -1 on a descriptor that is
\* not ashmem.  The purge is reported by this one pin and then forgotten.
PinResult(fd) ==
    IF fd >= 0 /\ fdtab[fd] = Ashmem
    THEN IF region.purged THEN 1 ELSE 0
    ELSE -1
PinRegion(fd) ==
    IF fd >= 0 /\ fdtab[fd] = Ashmem
    THEN [region EXCEPT !.pinned = TRUE, !.purged = FALSE]
    ELSE region

\* ashmem_unpin_region: unpins an ashmem region; -1 on any other descriptor.
UnpinRegion(fd) ==
    IF fd >= 0 /\ fdtab[fd] = Ashmem THEN [region EXCEPT !.pinned = FALSE] ELSE region

-----------------------------------------------------------------------------
(* The native methods.                                                    *)

\* Mutant of native_open: under MOE a FileDescriptor for 0 is returned
\* instead of NULL.
native_openMOEZero ==
    /\ life = "new"
    /\ \/ /\ MOE
          /\ life' = "open"
          /\ jfd' = 0
          /\ UNCHANGED <<fdtab, region>>
       \/ /\ ~MOE /\ HasFree
          /\ fdtab' = [fdtab EXCEPT ![LowestFree] = Ashmem]
          /\ jfd' = LowestFree
          /\ region' = [alive |-> TRUE, pinned |-> TRUE, purged |-> FALSE, content |-> Zero]
          /\ life' = "open"
       \/ /\ ~MOE
          /\ UNCHANGED <<fdtab, jfd, region, life>>
    /\ UNCHANGED <<MOE, stale, mapped, allowPurging, rw, written, reported, lastRead, foreign>>

\* native_open(name, length): ashmem_create_region; a negative result
\* throws IOException("ashmem_create_region failed").  A new region is
\* pinned and zero-filled.  Under MOE it returns NULL.
native_open ==
    /\ life = "new"
    /\ \/ /\ MOE
          /\ life' = "open"
          /\ UNCHANGED <<fdtab, jfd, region>>
       \/ /\ ~MOE /\ HasFree
          /\ fdtab' = [fdtab EXCEPT ![LowestFree] = Ashmem]
          /\ jfd' = LowestFree
          /\ region' = [alive |-> TRUE, pinned |-> TRUE, purged |-> FALSE, content |-> Zero]
          /\ life' = "open"
       \/ /\ ~MOE
          /\ UNCHANGED <<fdtab, jfd, region, life>>    \* ashmem_create_region < 0
    /\ UNCHANGED <<MOE, stale, mapped, allowPurging, rw, written, reported, lastRead, foreign>>

\* native_mmap(fd, length, prot): mmap(MAP_SHARED) of the descriptor, or
\* under MOE a fresh MAP_ANONYMOUS mapping; MAP_FAILED throws IOException.
native_mmap ==
    /\ life = "open" /\ ~mapped
    /\ \/ /\ MOE
          /\ mapped' = TRUE
          /\ region' = [alive |-> TRUE, pinned |-> TRUE, purged |-> FALSE, content |-> Zero]
       \/ /\ ~MOE /\ jfd \in Fds /\ fdtab[jfd] = Ashmem
          /\ mapped' = TRUE
          /\ UNCHANGED region
       \/ /\ UNCHANGED <<mapped, region>>              \* MAP_FAILED
    /\ UNCHANGED <<MOE, stale, fdtab, jfd, life, allowPurging, rw, written, reported, lastRead, foreign>>

\* native_munmap(addr, length).  The region lives while a descriptor or a
\* mapping refers to it.  The managed MemoryFile calls it from deactivate()
\* (close()) on thread t, after which it is never mapped again; nothing
\* orders it with a native_read or native_write another thread has begun.
native_munmap(t) ==
    /\ mapped /\ rw[t].pc = "idle"
    /\ mapped' = FALSE
    /\ life' = IF life = "open" THEN "deactivated" ELSE life
    /\ region' = [region EXCEPT !.alive = ~MOE /\ \E d \in Fds : fdtab[d] = Ashmem]
    /\ UNCHANGED <<MOE, stale, fdtab, jfd, allowPurging, rw, written, reported, lastRead, foreign>>

\* Mutant of native_close: the FileDescriptor keeps the closed number.
native_closeNoInvalidate ==
    /\ life # "new" /\ ~mapped
    /\ life' = "closed"
    /\ IF ~MOE /\ jfd \in Fds
       THEN /\ fdtab' = [fdtab EXCEPT ![jfd] = NoFile]
            /\ region' = IF fdtab[jfd] = Ashmem THEN [region EXCEPT !.alive = FALSE] ELSE region
            /\ foreign' = (foreign \/ Foreign(jfd))
       ELSE UNCHANGED <<fdtab, region, foreign>>
    /\ UNCHANGED <<MOE, stale, jfd, mapped, allowPurging, rw, written, reported, lastRead>>

\* native_close(fd): if (fd >= 0) { setFD(-1); close(fd); }; nothing under MOE.
native_close ==
    /\ life # "new" /\ ~mapped
    /\ life' = "closed"
    /\ IF ~MOE /\ jfd \in Fds
       THEN /\ jfd' = -1
            /\ fdtab' = [fdtab EXCEPT ![jfd] = NoFile]
            /\ region' = IF fdtab[jfd] = Ashmem THEN [region EXCEPT !.alive = FALSE] ELSE region
            /\ foreign' = (foreign \/ Foreign(jfd))
       ELSE UNCHANGED <<jfd, fdtab, region, foreign>>
    /\ UNCHANGED <<MOE, stale, mapped, allowPurging, rw, written, reported, lastRead>>

\* native_pin(fd, pin): ashmem pin or unpin; a negative result throws
\* IOException, and ASHMEM_WAS_PURGED (1) from a pin is not negative.
\* Reached through MemoryFile.allowPurging(a) with pin = ~a, on thread t,
\* only when a differs from mAllowPurging.
native_pin(t, pin) ==
    /\ life \in {"open", "deactivated"} /\ rw[t].pc = "idle"
    /\ pin = allowPurging
    /\ allowPurging' = ~pin
    /\ IF MOE THEN UNCHANGED <<region, foreign>>
       ELSE /\ region' = IF pin THEN PinRegion(jfd) ELSE UnpinRegion(jfd)
            /\ foreign' = (foreign \/ Foreign(jfd))
    /\ UNCHANGED <<MOE, stale, fdtab, jfd, life, mapped, rw, written, reported, lastRead>>

\* native_get_size(fd): ASHMEM_GET_SIZE; -1 for ENOTTY, IOException for any
\* other error; 0 under MOE.  It changes nothing but what it touches.
native_get_size ==
    /\ life # "new"
    /\ foreign' = (foreign \/ (~MOE /\ Foreign(jfd)))
    /\ UNCHANGED <<MOE, stale, fdtab, jfd, life, mapped, region, allowPurging, rw,
                   written, reported, lastRead>>

\* Mutant of RwBegin: the result of the pin is not compared with
\* ASHMEM_WAS_PURGED.
RwBeginNoPurgeCheck(t, op, v) ==
    /\ rw[t].pc = "idle" /\ mapped
    /\ LET fd == IF jfd \in Fds THEN jfd ELSE -1
       IN /\ region' = IF ~MOE /\ allowPurging THEN PinRegion(fd) ELSE region
          /\ foreign' = (foreign \/ (~MOE /\ allowPurging /\ Foreign(fd)))
          /\ rw' = [rw EXCEPT ![t] = [pc |-> "copy", op |-> op,
                      unpinned |-> ~MOE /\ allowPurging, fd |-> fd, val |-> v]]
    /\ UNCHANGED <<MOE, stale, fdtab, jfd, life, mapped, allowPurging, written, reported, lastRead>>

\* native_read / native_write, first step: fd = getFD(fileDescriptor);
\* if (unpinned && ashmem_pin_region(fd) == ASHMEM_WAS_PURGED) {
\*     ashmem_unpin_region(fd); throw IOException("ashmem region was purged"); }
\* op is "read", or "write" with the value v to store.
RwBegin(t, op, v) ==
    /\ rw[t].pc = "idle" /\ mapped
    /\ LET fd == IF jfd \in Fds THEN jfd ELSE -1
           unpinned == allowPurging
       IN IF ~MOE /\ unpinned
          THEN /\ foreign' = (foreign \/ Foreign(fd))
               /\ IF PinResult(fd) = 1
                  THEN /\ region' = [PinRegion(fd) EXCEPT !.pinned = FALSE]
                       /\ reported' = TRUE
                       /\ UNCHANGED rw
                  ELSE /\ region' = PinRegion(fd)
                       /\ rw' = [rw EXCEPT ![t] = [pc |-> "copy", op |-> op,
                                   unpinned |-> TRUE, fd |-> fd, val |-> v]]
                       /\ UNCHANGED reported
          ELSE /\ rw' = [rw EXCEPT ![t] = [pc |-> "copy", op |-> op,
                           unpinned |-> FALSE, fd |-> fd, val |-> v]]
               /\ UNCHANGED <<region, reported, foreign>>
    /\ UNCHANGED <<MOE, stale, fdtab, jfd, life, mapped, allowPurging, written, lastRead>>

\* The copy through the address the call was given: (const jbyte *)address
\* + srcOffset for a read, (jbyte *)address + destOffset for a write.  Once
\* munmap has released the mapping the address no longer names the region.
CopyData(t) ==
    IF ~mapped
    THEN /\ stale' = TRUE
         /\ UNCHANGED <<region, written, reported, lastRead>>
    ELSE /\ stale' = stale
         /\ IF rw[t].op = "read"
            THEN /\ lastRead' = [val |-> region.content, expected |-> written,
                                 reported |-> reported]
                 /\ UNCHANGED <<region, written, reported>>
            ELSE /\ region' = [region EXCEPT !.content = rw[t].val]
                 /\ written' = rw[t].val
                 /\ reported' = FALSE
                 /\ UNCHANGED lastRead

\* Second step: SetByteArrayRegion (read) or GetByteArrayRegion (write)
\* between the managed buffer and the mapping.
RwCopy(t) ==
    /\ rw[t].pc = "copy"
    /\ rw' = [rw EXCEPT ![t].pc = IF rw[t].unpinned THEN "unpin" ELSE "idle"]
    /\ CopyData(t)
    /\ UNCHANGED <<MOE, fdtab, jfd, life, mapped, allowPurging, foreign>>

\* Last step: if (unpinned) ashmem_unpin_region(fd), on the fd read at the start.
RwUnpin(t) ==
    /\ rw[t].pc = "unpin"
    /\ region' = UnpinRegion(rw[t].fd)
    /\ foreign' = (foreign \/ Foreign(rw[t].fd))
    /\ rw' = [rw EXCEPT ![t] = Idle]
    /\ UNCHANGED <<MOE, stale, fdtab, jfd, life, mapped, allowPurging, written, reported, lastRead>>

-----------------------------------------------------------------------------
(* The environment.                                                       *)

\* Memory pressure: the kernel purges an unpinned ashmem region.
Purge ==
    /\ ~MOE /\ region.alive /\ ~region.pinned /\ ~region.purged
    /\ region' = [region EXCEPT !.purged = TRUE, !.content = Zero]
    /\ UNCHANGED <<MOE, stale, fdtab, jfd, life, mapped, allowPurging, rw, written, reported,
                   lastRead, foreign>>

\* Another component of the process opens or closes a file.
OtherOpen ==
    /\ HasFree
    /\ fdtab' = [fdtab EXCEPT ![LowestFree] = OtherFile]
    /\ UNCHANGED <<MOE, stale, jfd, life, mapped, region, allowPurging, rw, written, reported,
                   lastRead, foreign>>

OtherClose(d) ==
    /\ fdtab[d] = OtherFile
    /\ fdtab' = [fdtab EXCEPT ![d] = NoFile]
    /\ UNCHANGED <<MOE, stale, jfd, life, mapped, region, allowPurging, rw, written, reported,
                   lastRead, foreign>>

-----------------------------------------------------------------------------

Init ==
    /\ MOE \in Builds
    /\ stale = FALSE
    /\ fdtab = [d \in Fds |-> NoFile]
    /\ jfd = NULL
    /\ life = "new"
    /\ mapped = FALSE
    /\ region = [alive |-> FALSE, pinned |-> TRUE, purged |-> FALSE, content |-> Zero]
    /\ allowPurging = FALSE
    /\ rw = [t \in Threads |-> Idle]
    /\ written = Zero
    /\ reported = FALSE
    /\ lastRead = [val |-> Zero, expected |-> Zero, reported |-> FALSE]
    /\ foreign = FALSE

Next ==
    \/ native_open \/ native_mmap \/ native_close
    \/ \E t \in Threads : native_munmap(t)
    \/ native_get_size
    \/ \E t \in Threads, p \in PinArgs : native_pin(t, p)
    \/ \E t \in Threads :
          \/ RwBegin(t, "read", Zero)
          \/ \E v \in Data : RwBegin(t, "write", v)
          \/ RwCopy(t) \/ RwUnpin(t)
    \/ Purge \/ OtherOpen \/ \E d \in Fds : OtherClose(d)

Spec == Init /\ [][Next]_vars

-----------------------------------------------------------------------------
(* Properties.                                                            *)

TypeOK ==
    /\ MOE \in BOOLEAN /\ stale \in BOOLEAN
    /\ fdtab \in [Fds -> {NoFile, Ashmem, OtherFile}]
    /\ jfd \in Fds \cup {-1, NULL}
    /\ life \in {"new", "open", "deactivated", "closed"}
    /\ mapped \in BOOLEAN /\ allowPurging \in BOOLEAN
    /\ region \in [alive : BOOLEAN, pinned : BOOLEAN, purged : BOOLEAN,
                   content : Data \cup {Zero}]
    /\ rw \in [Threads -> [pc : {"idle", "copy", "unpin"}, op : {"none", "read", "write"},
                           unpinned : BOOLEAN, fd : Fds \cup {-1}, val : Data \cup {Zero}]]
    /\ foreign \in BOOLEAN

\* No silent loss: a native_read that copies without throwing copies what
\* the last native_write stored, unless a purge was reported to the caller
\* (IOException "ashmem region was purged") since that write.
NoUnreportedLoss ==
    lastRead.val = lastRead.expected \/ lastRead.reported

\* The pin / copy / unpin bracket: while a native_read or native_write
\* called with unpinned copies, the region is pinned, so the kernel cannot
\* purge it under the copy.
PinnedWhileCopying ==
    \A t \in Threads : rw[t].pc = "copy" /\ rw[t].unpinned => region.pinned

\* No use after munmap: every SetByteArrayRegion / GetByteArrayRegion of a
\* native_read or native_write goes through an address that is still
\* mapped, although deactivate() (native_munmap) may run on another thread
\* after the read or write found the file active.
CopyWithinMapping == ~stale

\* native_close invalidates the FileDescriptor (setFD(-1) before close), so
\* no native call the caller makes after close() (a second native_close,
\* native_get_size) reaches the descriptor number, which open(2) may have
\* handed to another component since.  The unpin closing a read or write
\* that was in flight during close() is a two-thread case this one-thread
\* property does not reach.
OwnDescriptorOnly == ~foreign
=============================================================================
