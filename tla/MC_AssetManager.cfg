\* All operations, standard descriptors 0..2 open: type and descriptor leaks.
CONSTANTS
    Names = {n1}
    Fds = {0, 1, 2, 3, 4}
    StdFds = {0, 1, 2}
    FileLen <- MCFileLen
    BufSize = 2
    MaxPos = 3
    MaxRead = 2
    NULL = NULL
    NoFile = NoFile
    Std = Std
SPECIFICATION Spec
INVARIANT TypeOK
INVARIANT NoFdLeak
