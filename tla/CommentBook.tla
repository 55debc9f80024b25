---------------------------- MODULE CommentBook -----------------------------
(***************************************************************************)
(* What internal/site/comments.go promises its callers: one book of        *)
(* comments, changed by one whole request at a time.                       *)
(***************************************************************************)
CONSTANTS CommentIds, Slugs
VARIABLE book

Comment == [id : CommentIds, slug : Slugs, replied : BOOLEAN]

(* The requests: AddComment on a post, ReplyToComment, MoveComments when a *)
(* post gets a new slug, and CommentsForPost, which changes nothing.       *)
Requests ==
    [kind : {"add", "read"}, slug : Slugs]
        \cup [kind : {"reply"}, id : CommentIds]
        \cup [kind : {"move"}, slug : Slugs, to : Slugs]

RepliedIn(comments, id) ==
    {[c EXCEPT !.replied = @ \/ c.id = id] : c \in comments}

MovedIn(comments, from, to) ==
    {[c EXCEPT !.slug = IF @ = from THEN to ELSE @] : c \in comments}

(* The books a request may turn comments into.                             *)
Results(request, comments) ==
    CASE request.kind = "add" ->
           {comments \cup {[id |-> i, slug |-> request.slug, replied |-> FALSE]} :
               i \in CommentIds \ {c.id : c \in comments}}
      [] request.kind = "reply" -> {RepliedIn(comments, request.id)}
      [] request.kind = "move" -> {MovedIn(comments, request.slug, request.to)}
      [] request.kind = "read" -> {comments}

Init == book = {}
Next == \E request \in Requests : book' \in Results(request, book)
Spec == Init /\ [][Next]_book
=============================================================================
