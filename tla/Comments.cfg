\* Three handlers, two posts, two comments; failing writes and restarts.
CONSTANTS
    CommentIds = {c1, c2}
    Slugs = {a, b}
    Handlers = {h1, h2, h3}
    None = None
SPECIFICATION Spec
SYMMETRY Symmetry
PROPERTIES ImplementsBook  StaysRefused
