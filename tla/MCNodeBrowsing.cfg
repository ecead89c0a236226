SPECIFICATION FairBrowsingSpec
CONSTANTS
    Callers = {c1, c2}
    Queries = {q1}
    Targets = {a, b}
    Local = {a}
    Points = {p1, p2}
    None = None
    MaxReferences = 4
    Page = 1
    Faults = TRUE
    Kinds = {"references", "nodes", "parent"}
INVARIANTS AllReferences PointsReturned
PROPERTIES BrowsingEnds
