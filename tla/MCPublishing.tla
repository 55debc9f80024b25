---------------------------- MODULE MCPublishing ----------------------------
(* A small instance of Publishing for TLC, in three scenes: two requests at *)
(* a time over one title, and restarts; one request at a time and a visitor *)
(* who comments; and one author who edits and renames commented posts among *)
(* two titles. All together are too many states.                            *)
EXTENDS Publishing, TLC

CONSTANTS Title,       \* the one of the first two scenes
          FirstComment
ASSUME FirstAssumption == FirstComment \in CommentIds

VARIABLE scene

Symmetry == Permutations(Admins)

MCInit == Init /\ scene \in IF file = NoFiles THEN {"overlap", "visitors"} ELSE {"renames"}

OfTitle(o) ==
    /\ o.kind # "reload" /\ o.orig # None => o.orig[1] = Title
    /\ o.kind \in {"save", "import"} => o.base = Title

Overlap ==
    \/ \E a \in Admins : AdminStep(a)
    \/ \E a \in Admins, o \in {x \in Ops : OfTitle(x)} : Start(a, o)
    \/ Restart

Comment ==
    \/ \E a \in Admins : AdminStep(a)
    \/ \E a \in Admins, o \in {x \in Ops : OfTitle(x)} : AtRest /\ Start(a, o)
    \/ \E v \in Visitors, s \in Slugs : Visit(v, s)
    \/ \E v \in Visitors : Submit(v, FirstComment) \/ Leave(v)

Rename ==
    \/ \E a \in Admins : AdminStep(a)
    \/ \E a \in Admins, o \in {x \in Ops : x.kind = "save"} : AtRest /\ Start(a, o)

MCNext ==
    /\ \/ scene = "overlap" /\ Overlap
       \/ scene = "visitors" /\ Comment
       \/ scene = "renames" /\ Rename
    /\ UNCHANGED scene

MCSpec == MCInit /\ [][MCNext]_<<vars, scene>>

(* An author's renames take the comments along. A deletion leaves them, and *)
(* a visitor may comment on an address that is just being given up.         *)
CommentsFollow == scene = "renames" => CommentsReachable
=============================================================================
