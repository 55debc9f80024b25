\* The comment above ReconcileBackground, read at rest.
CONSTANTS
    Ids = {p}
    Releases = {v1}
    Background = {p}
    Workers = {w1}
    Reloaders = {r1}
    Slots = {s1, s2}
    None = None
SPECIFICATION Spec
INVARIANT DisabledStopped
SYMMETRY Symmetry
