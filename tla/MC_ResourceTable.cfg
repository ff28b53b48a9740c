\* Serialized callers, two threads, up to four ids.
CONSTANTS
    Threads = {t1, t2}
    ResNames <- MCResNames
    ResTypes <- MCResTypes
    MaxIds = 4
    Serialized = TRUE
    NULL = NULL
SPECIFICATION Spec
INVARIANT TypeOK
INVARIANT IdsKeepTheirResource
INVARIANT EntryNameRoundTrip
