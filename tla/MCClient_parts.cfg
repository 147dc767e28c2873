CONSTANTS
    NRequest = 3
    b1 = b1
    b2 = b2
    Batch = {b1, b2}
    MaxFiles = 2
    MaxMoves = 1
    Source <- MCSource
    IsScript <- MCIsScript
    MaxCalls = 2
    MaxImages = 3
    MaxLoads = 3
    i1 = i1
    i2 = i2
    i3 = i3
    e1 = e1
    e2 = e2
    Nobody = Nobody
    Instance = {i1, i2, i3}
    Element = {e1, e2}
    Textarea = {e1}
    ElementOf <- MCElementOf
    MaxEdits = 2
    Text <- MCText
SPECIFICATION ClientSpec
CHECK_DEADLOCK FALSE
INVARIANTS
    ClientTypeOK
    OnceAndInOrder
    InsertedInOrder
    SignMeansWork
    ReadyWhenCalled
    GalleryShowsIndex
    FocusIsSelected
    EditsAreKept
    DecodesBits
PROPERTIES
    EverybodyIsTold
    UploadsEnd
