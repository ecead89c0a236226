SPECIFICATION Spec
CONSTANTS
    Threads = {t1, t2}
    Nodes = {n1}
    Contexts = {c1, c2, c3, c4}
    Objects = {o1, o2, o3, o4}
    None = None
    Rules <- AllRules
SYMMETRY Symmetry
INVARIANTS Bookkeeping NodePointersAlive CallbackReady RunningAlive
