SPECIFICATION Spec
CONSTANTS
    Contexts = {c1, c2, c3, c4}
    s1 = s1
    m1 = m1
    m2 = m2
    SubIds = {s1}
    MonIds = {m1, m2}
    ParentOf <- MCParentOf
    None = None
    MaxBatch = 2
    MaxRequests = 2
    MaxDepth = 5
    SyncInDataCallback = FALSE
    MoveAssigned = FALSE
SYMMETRY Symmetry
INVARIANTS Bookkeeping NativePointersAlive RunningContextsAlive StoredOrStale DeleteCallbackRan
PROPERTY NotifiedIsFound
