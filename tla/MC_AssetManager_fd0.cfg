\* Descriptor 0 closed at start: the search loop takes open() == 0 for a failure.
CONSTANTS
    Names = {n1}
    Fds = {0, 1, 2, 3, 4}
    StdFds = {1, 2}
    FileLen <- MCFileLen
    BufSize = 2
    MaxPos = 3
    MaxRead = 2
    NULL = NULL
    NoFile = NoFile
    Std = Std
SPECIFICATION Spec
INVARIANT NoFdLeak
