\* One plugin in two releases, two calls at a time, one reload at a time.
\* No symmetry: CallsReturn is a liveness property.
CONSTANTS
    Ids = {p}
    Releases = {v1, v2}
    Background = {p}
    Workers = {w1, w2}
    Reloaders = {r1}
    Slots = {s1, s2}
    None = None
SPECIFICATION FairSpec
INVARIANTS NoOrphanProcess SingleOwner OneRuntimeAtRest
PROPERTIES  CallsReturn
