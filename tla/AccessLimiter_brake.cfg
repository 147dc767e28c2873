CONSTANTS
    Request = {q1, q2}
    IP = {i1, i2}
    Nobody = Nobody
    Window = 2
    MaxTime = 6
SPECIFICATION FairSpec
INVARIANT TypeOK
PROPERTIES
    ThreeSpanTheWindow
    RefusalsAreFresh
    EveryRequestIsAnswered
    OldAddressesGo
