SPECIFICATION Spec
CONSTANTS
    Wrappers = {w1, w2, w3}
    Handles = {h1, h2, h3}
    None = None
    AssignIdleOnly = TRUE
INVARIANTS Bookkeeping CallbacksFindContext ContextOutlivesPointers
PROPERTIES ShutDownBeforeDelete
CHECK_DEADLOCK FALSE
