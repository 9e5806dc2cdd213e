SPECIFICATION Spec
CONSTANTS
    Docs = {d1, d2}
    Uploads = {u1, u2}
    Contents = {c1, c2}
    Folders = {f1}
    Entries = {f1}
    Requests = {r1, r2}
    NoDoc = NoDoc
    NoUpload = NoUpload
    NoContent = NoContent
    NoVersion = NoVersion
    NoFolder = NoFolder
    CountersAlone = TRUE
    FreeMoves = FALSE
    OneCompletion = TRUE
    Faults = TRUE
INVARIANTS CurrentIsLatest FilesIntact CountExact DeletedKbEmpty
PROPERTIES VersionsKept
CONSTRAINT Explored
SYMMETRY Symmetries
CHECK_DEADLOCK FALSE
