\* One admin request at a time and a reader; bundles that may have packs in
\* common; requests fail, the program restarts.
CONSTANTS
    Fields = {f, g}
    Values = {u, w}
    Initial = u
    Bundles = {b, c}
    Themes = {retro}
    Plugins = {}
    Default = newspaper
    Kinds = {"edit", "apply", "install", "delete"}
    Admins = {r1}
    Viewers = {v}
    Empty = Empty
    Garbled = Garbled
    Contested = Contested
    None = None
SPECIFICATION MCSpec
SYMMETRY Symmetry
INVARIANTS EditsKept PagesWhole 
