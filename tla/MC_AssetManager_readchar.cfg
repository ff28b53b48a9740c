\* A caller that also calls readAssetChar on its handles: the bridge is checked against AssetManagerSpec.
CONSTANTS
    Names = {n1}
    Fds = {0, 1, 2, 3, 4}
    StdFds = {0, 1, 2}
    FileLen <- MCFileLen
    BufSize = 2
    MaxPos = 3
    MaxRead = 2
    NULL = NULL
    NoFile = NoFile
    Std = Std
SPECIFICATION Spec
PROPERTY AssetManagerRefinement
