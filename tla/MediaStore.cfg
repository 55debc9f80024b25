\* Two calls at a time on two items, one of them with its original kept.
CONSTANTS
    Ids = {m1, m2}
    Converted = {m1}
    Texts = {x, y}
    Callers = {c1, c2}
    None = None
SPECIFICATION Spec
SYMMETRY Symmetry
INVARIANTS ListedHaveFiles PromisesKept
