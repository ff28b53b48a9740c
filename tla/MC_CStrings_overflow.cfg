\* The buffers sized strlen(a) + strlen(b), and init under a MOE_TMP_DIR shorter than 5.
CONSTANTS
    Funcs <- OverflowFuncs
    UrlLens = {7}
    TmpLens = {3, 5}
    PathLens = {1, 3}
    NameLens = {1, 2}
    TypeLens = {1, 2}
    PackLens = {0}
    SizeBits = 16
    NULL = NULL
SPECIFICATION Spec
INVARIANT InBounds
