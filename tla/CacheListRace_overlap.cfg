CONSTANTS
    Getter = {g1, g2}
    Key = {k1, k2, k3, k4}
    Root = Root
    Nil = Nil
    MaxEntries = 3
SPECIFICATION Spec
INVARIANT Capacity
