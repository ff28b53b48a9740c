\* One calling thread in both builds (with and without MOE); the caller only ever allows purging (native_pin(fd, false)).
CONSTANTS
    Threads = {t1}
    Data = {d1}
    Zero = Zero
    Fds = {3, 4}
    PinArgs = {FALSE}
    Builds = {FALSE, TRUE}
    NULL = NULL
    NoFile = NoFile
    Ashmem = Ashmem
    OtherFile = OtherFile
SPECIFICATION Spec
INVARIANT TypeOK
INVARIANT NoUnreportedLoss
INVARIANT OwnDescriptorOnly
