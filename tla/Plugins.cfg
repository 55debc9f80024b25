\* Three files in two directories; up to two backups kept; two tokens.
CONSTANTS
    Directories <- MCDirectories
    DirectoryOf <- MCDirectoryOf
    Values = {u}
    Links = {k1, k2}
    TTL = 1
    Empty = Empty
    Names = {n1, n2, n3, n4, n5}
    Interval = 1
    Retentions = {1, 2}
    MaxFaults = 2
    Exports <- MCExports
    Tokens = {t1, t2}
    MaxMishaps = 2
    None = None
\* An import ends, and nothing follows it.
CHECK_DEADLOCK FALSE
SPECIFICATION Spec
INVARIANTS TypeOK  BackupsKept  PlaceholdersDiffer
PROPERTIES KeepsBackingUp ImportEnds
