SPECIFICATION Spec
CONSTANTS
    Threads = {t1, t2}
    Contexts = {c1, c2, c3}
    Nobody = Nobody
    None = None
    Rules <- AllRules
INVARIANTS NativePointersAlive RunningContextAlive ForgottenIsCollected
PROPERTIES NotifiedIsFound
