CONSTANTS
    r1 = r1
    w1 = w1
    w2 = w2
    u0 = u0
    u1 = u1
    u2 = u2
    t1 = t1
    t2 = t2
    Anyone = u0
    Key <- FilteredKeys
    Reader = {r1}
    Writer = {w1}
    User = {u0, u1, u2}
    Tag = {t1, t2}
    MaxRevision = 1
    MaxArticles = 2
    MaxWrites = 2
SPECIFICATION MCSpec
INVARIANT
    FilteredListsSettle
