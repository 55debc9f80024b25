\* Two admin requests at a time, a commenting visitor, crashes and restarts;
\* and one author who renames commented posts.
CONSTANTS
    Bases = {a, b}
    MaxSuffix = 2
    Texts = {t}
    Drafts = {FALSE}
    Kinds = {"save", "delete", "import", "reload"}
    Admins = {r1, r2}
    Visitors = {v}
    CommentIds = {c, d}
    InitialComments = {TRUE, FALSE}
    Title = a
    FirstComment = c
    Empty = Empty
    None = None
SPECIFICATION MCSpec
SYMMETRY Symmetry
INVARIANTS FreshAfterQuiet  RenameKeepsACopy
