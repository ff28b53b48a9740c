\* Two threads: one closes the file (deactivate(), native_munmap) while the other reads or writes.
CONSTANTS
    Threads = {t1, t2}
    Data = {d1}
    Zero = Zero
    Fds = {3, 4}
    PinArgs = {FALSE}
    Builds = {FALSE}
    NULL = NULL
    NoFile = NoFile
    Ashmem = Ashmem
    OtherFile = OtherFile
SPECIFICATION Spec
INVARIANT CopyWithinMapping
