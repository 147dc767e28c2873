CONSTANTS
    Request = {q1, q2}
    Article = {a1, a2}
    Nothing = Nothing
    MaxHits = 2
SPECIFICATION FairSpec
CHECK_DEADLOCK FALSE
INVARIANTS
    TypeOK
    HitsAreConserved
PROPERTIES
    HitsArrive
    ReadersGoOn
