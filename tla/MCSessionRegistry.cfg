SPECIFICATION Spec
CONSTANTS
    Ids = {i1, i2, i3}
    Contexts = {x, y}
    Absent = Absent
    a = a
    Texts = {NoText, a}
    NoText = NoText
    Plugins <- MCPlugins
    AnyTime = FALSE
SYMMETRY Symmetry
INVARIANTS SessionsAreActive Admitted CallsThePlugin
