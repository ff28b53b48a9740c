\* A caller that never calls readAssetChar: the bridge refines AssetManagerSpec.
CONSTANTS
    Names = {n1}
    Fds = {0, 1, 2, 3, 4}
    StdFds = {0, 1, 2}
    FileLen <- MCFileLen
    BufSize = 2
    MaxPos = 3
    MaxRead = 2
    NULL = NULL
    NoFile = NoFile
    Std = Std
SPECIFICATION SpecNoChar
PROPERTY AssetManagerRefinement
