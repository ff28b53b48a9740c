\* The caller also disallows purging again: native_pin(fd, true) after a purge.
CONSTANTS
    Threads = {t1}
    Data = {d1}
    Zero = Zero
    Fds = {3, 4}
    PinArgs = {FALSE, TRUE}
    Builds = {FALSE}
    NULL = NULL
    NoFile = NoFile
    Ashmem = Ashmem
    OtherFile = OtherFile
SPECIFICATION Spec
INVARIANT NoUnreportedLoss
