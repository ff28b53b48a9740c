\* init with a MOE_TMP_DIR of at least five characters, and the bundle identifier.
CONSTANTS
    Funcs <- InitFuncs
    UrlLens = {7, 8, 20}
    TmpLens = {5, 6, 12}
    PathLens = {1}
    NameLens = {1}
    TypeLens = {1}
    PackLens = {0, 1, 12}
    SizeBits = 16
    NULL = NULL
SPECIFICATION Spec
INVARIANT InBounds
