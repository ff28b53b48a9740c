\* Two threads read and write at once, both with purging allowed: pins are not counted.
CONSTANTS
    Threads = {t1, t2}
    Data = {d1}
    Zero = Zero
    Fds = {3, 4}
    PinArgs = {FALSE}
    Builds = {FALSE}
    NULL = NULL
    NoFile = NoFile
    Ashmem = Ashmem
    OtherFile = OtherFile
SPECIFICATION Spec
INVARIANT PinnedWhileCopying
