SPECIFICATION FairSpec
CONSTANTS
    Goroutines = {g1, g2, g3}
    Conns = {k1, k2, k3, k4}
    Capacity = 2
    NoConn = nil
INVARIANTS TypeOK OnePlace NoLeak ClosedIsEmpty
PROPERTIES CloseDrains Refines
