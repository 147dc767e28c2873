CONSTANTS
    Handler = {h1, h2}
    User = {u, m}
    Moderator = {m}
    MaxRevision = 1
    MaxDrafts = 4
    MaxRev = 4
SPECIFICATION Spec
INVARIANTS
    TypeOK
    RevisionBound
    LockStops
    HistoryKeeps
