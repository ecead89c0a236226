SPECIFICATION BrowsingSpec
CONSTANTS
    Callers = {c1}
    Queries = {q1}
    Targets = {a, b}
    Local = {a}
    Points = {p1, p2}
    None = None
    MaxReferences = 2
    Page = 1
    Faults = FALSE
    Kinds = {"parent"}
INVARIANTS ParentFound
