CONSTANTS
    k1 = k1
    k2 = k2
    k3 = k3
    v1 = v1
    v2 = v2
    p1 = p1
    NoValue = NoValue
    Key <- MCKey
    Value = {v1, v2}
    Pattern <- MCPattern
    MatchedBy <- MCMatchedBy
    TTL <- MCTTL
    MaxEntries = 2
    MaxTime = 3
    MaxUse = 5
SPECIFICATION FairSpec
INVARIANTS
    TypeOK
    ListMatchesMap
    Capacity
PROPERTIES
    EvictsLeastRecent
    ImplementsContract
    DeadEntriesGo
