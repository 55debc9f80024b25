----------------------------- MODULE Publishing -----------------------------
(***************************************************************************)
(* Writing posts: the files of content/posts, the comments that name them  *)
(* and the in-memory index the public pages are served from.               *)
(* internal/site/site.go does the file work without a lock, one system     *)
(* call after the other; internal/http/server.go then reloads the index.   *)
(* Pages take the same steps without the comments.                         *)
(*                                                                         *)
(* FillIgnoresError, MovesNothing and PublishesOld are not the code: they  *)
(* are mutants the properties must catch.                                  *)
(***************************************************************************)
EXTENDS Naturals, FiniteSets

CONSTANTS
    Bases,       \* what NormalizeSlug makes of a title
    MaxSuffix,   \* bounds the numeric suffixes tried
    Texts,       \* bodies
    Drafts,      \* the values of the draft flag
    Kinds,       \* the admin requests made: "save", "delete", "import", "reload"
    Admins,      \* goroutines of admin requests and plugin calls
    Visitors,    \* goroutines of submitComment
    CommentIds,  \* bounds the comments
    InitialComments,  \* whether a commented post is there to begin with:
                      \* TRUE, FALSE or both
    Empty,       \* a file truncated and not yet written
    None

ASSUME BoundAssumption == MaxSuffix \in Nat \ {0}
ASSUME DraftsAssumption == FALSE \in Drafts /\ Drafts \subseteq BOOLEAN /\ InitialComments \subseteq BOOLEAN

VARIABLES
    file,      \* content/posts/{slug}.md
    comments,  \* the slug each comment names (module Comments)
    store,     \* Server.store: AllPostsBySlug
    dirty,     \* why the index may lag behind the disk: "error", an error
               \* answered or an import made, "overlap", two requests at once;
               \* both until a request has run alone and published
    alone,     \* the request that no other has overlapped so far
    pc, op, n, open, todo, seen,   \* the locals of an admin request
    visit      \* the post a visitor comments on

files  == <<file, open>>
locals == <<pc, op, n, open, todo, seen>>
vars   == <<file, comments, store, dirty, alone, pc, op, n, open, todo, seen,
            visit>>

(* Slug <<b, 1>> stands for "b", <<b, k>> for "b-k".                       *)
Slugs   == Bases \X (1..MaxSuffix)
Content == [text : Texts, draft : Drafts]
Files   == [Slugs -> Content \cup {Empty, None}]
NoFiles == [s \in Slugs |-> None]

Ops == [kind : {"save"}, base : Bases, orig : Slugs \cup {None}, content : Content]
       \cup [kind : {"import"}, base : Bases, orig : {None}, content : Content]
       \cup [kind : {"delete"}, orig : Slugs]
       \cup [kind : {"reload"}]

ASSUME NoneAssumption == None \notin Content \cup {Empty} \cup Slugs \cup Ops
ASSUME EmptyAssumption == Empty \notin Content

PCs == {"idle", "probe", "truncate", "fill", "remove", "move", "delete",
        "list", "read"}

Target(a) == <<op[a].base, n[a]>>

TypeOK ==
    /\ file \in Files
    /\ comments \in [CommentIds -> Slugs \cup {None}]
    /\ store \in Files
    /\ dirty \subseteq {"error", "overlap"}
    /\ alone \subseteq Admins
    /\ pc \in [Admins -> PCs]
    /\ op \in [Admins -> Ops \cup {None}]
    /\ n \in [Admins -> 1..MaxSuffix]
    /\ open \in [Admins -> BOOLEAN]
    /\ todo \in [Admins -> SUBSET Slugs]
    /\ seen \in [Admins -> Files]
    /\ visit \in [Visitors -> Slugs \cup {None}]
    /\ \A a \in Admins : /\ pc[a] # "idle" => op[a] # None
                         /\ open[a] => pc[a] = "fill" /\ file[Target(a)] # None

Init ==
    /\ \E commented \in InitialComments, b \in Bases, t \in Texts :
          /\ file = IF commented
                    THEN [NoFiles EXCEPT ![<<b, 1>>] = [text |-> t, draft |-> FALSE]]
                    ELSE NoFiles
          /\ comments = [c \in CommentIds |-> IF commented THEN <<b, 1>> ELSE None]
    /\ store = file
    /\ dirty = {}
    /\ alone = {}
    /\ pc = [a \in Admins |-> "idle"]
    /\ op = [a \in Admins |-> None]
    /\ n = [a \in Admins |-> 1]
    /\ open = [a \in Admins |-> FALSE]
    /\ todo = [a \in Admins |-> {}]
    /\ seen = [a \in Admins |-> NoFiles]
    /\ visit = [v \in Visitors |-> None]

-----------------------------------------------------------------------------
(* The start and the end of an admin request.                              *)

FirstStep(kind) == CASE kind \in {"save", "import"} -> "probe"
                     [] kind = "delete" -> "delete"
                     [] kind = "reload" -> "list"

Start(a, o) ==
    /\ pc[a] = "idle"
    /\ o.kind \in Kinds
    /\ op' = [op EXCEPT ![a] = o]
    /\ pc' = [pc EXCEPT ![a] = FirstStep(o.kind)]
    /\ IF \A b \in Admins : pc[b] = "idle"
       THEN alone' = {a} /\ UNCHANGED dirty
       ELSE alone' = {} /\ dirty' = dirty \cup {"overlap"}
    /\ UNCHANGED <<file, comments, store, n, open, todo, seen, visit>>

(* The handler returns.                                                    *)
Return(a) ==
    /\ pc' = [pc EXCEPT ![a] = "idle"]
    /\ op' = [op EXCEPT ![a] = None]
    /\ n' = [n EXCEPT ![a] = 1]
    /\ open' = [open EXCEPT ![a] = FALSE]
    /\ todo' = [todo EXCEPT ![a] = {}]
    /\ seen' = [seen EXCEPT ![a] = NoFiles]
    /\ alone' = alone \ {a}

Goto(a, place) == pc' = [pc EXCEPT ![a] = place]

(* os.Remove: a goroutine writing the file keeps a nameless one.           *)
Remove(slug) ==
    /\ file' = [file EXCEPT ![slug] = None]
    /\ open' = [a \in Admins |-> open[a] /\ Target(a) # slug]

-----------------------------------------------------------------------------
(* SavePost and SaveImportedPost.                                          *)

(* uniqueContentSlug: the request's own old slug will do, or a name that   *)
(* no file has.                                                            *)
Takes(a) == Target(a) = op[a].orig \/ file[Target(a)] = None

Probe(a) ==
    /\ pc[a] = "probe"
    /\ \/ Takes(a) /\ Goto(a, "truncate") /\ UNCHANGED n
       \/ /\ ~Takes(a) /\ n[a] < MaxSuffix
          /\ n' = [n EXCEPT ![a] = @ + 1]
          /\ UNCHANGED pc
    /\ UNCHANGED <<file, comments, store, dirty, alone, op, open, todo, seen, visit>>

(* writeContentFile: os.WriteFile opens with O_TRUNC, then writes.         *)
Truncate(a) ==
    /\ pc[a] = "truncate"
    /\ file' = [file EXCEPT ![Target(a)] = Empty]
    /\ open' = [open EXCEPT ![a] = TRUE]
    /\ Goto(a, "fill")
    /\ UNCHANGED <<comments, store, dirty, alone, op, n, todo, seen, visit>>

Renames(a) == op[a].orig # None /\ op[a].orig # Target(a)

FillIgnoresError(a) ==
    /\ pc[a] = "fill"
    /\ op[a].kind = "save"
    /\ Goto(a, IF Renames(a) THEN "remove" ELSE "list")
    /\ UNCHANGED <<file, comments, store, dirty, alone, op, n, open, todo, seen, visit>>

Fill(a) ==
    /\ pc[a] = "fill"
    /\ op[a].kind = "save"
    /\ file' = IF open[a] THEN [file EXCEPT ![Target(a)] = op[a].content]
                          ELSE file
    /\ open' = [open EXCEPT ![a] = FALSE]
    /\ Goto(a, IF Renames(a) THEN "remove" ELSE "list")
    /\ UNCHANGED <<comments, store, dirty, alone, op, n, todo, seen, visit>>

(* An imported post is not indexed before the plugin asks for a reload.    *)
FillImported(a) ==
    /\ pc[a] = "fill"
    /\ op[a].kind = "import"
    /\ file' = IF open[a] THEN [file EXCEPT ![Target(a)] = op[a].content]
                          ELSE file
    /\ dirty' = dirty \cup {"error"}
    /\ Return(a)
    /\ UNCHANGED <<comments, store, visit>>

(* removeOldContentFile: a file already gone is no error.                  *)
RemoveOld(a) ==
    /\ pc[a] = "remove"
    /\ Remove(op[a].orig)
    /\ Goto(a, "move")
    /\ UNCHANGED <<comments, store, dirty, alone, op, n, todo, seen, visit>>

(* savePost, after SavePost: MoveComments under commentMu.                 *)
MovesNothing(a) == comments
Moved(a) == [c \in CommentIds |-> IF comments[c] = op[a].orig THEN Target(a)
                                                              ELSE comments[c]]

MoveComments(a) ==
    /\ pc[a] = "move"
    /\ comments' = Moved(a)
    /\ Goto(a, "list")
    /\ UNCHANGED <<file, store, dirty, alone, op, n, open, todo, seen, visit>>

(* The write, the removal or the reload fails; the request answers an      *)
(* error and leaves things as they are.  A failed move of comments is left *)
(* to module Comments.                                                     *)
Fails(a) ==
    /\ pc[a] \in {"probe", "truncate", "fill", "remove", "delete", "list", "read"}
    /\ dirty' = dirty \cup {"error"}
    /\ Return(a)
    /\ UNCHANGED <<file, comments, store, visit>>

-----------------------------------------------------------------------------
(* deleteContent.                                                          *)

Delete(a) ==
    /\ pc[a] = "delete"
    /\ file[op[a].orig] # None
    /\ Remove(op[a].orig)
    /\ Goto(a, "list")
    /\ UNCHANGED <<comments, store, dirty, alone, op, n, todo, seen, visit>>

DeleteMissing(a) ==
    /\ pc[a] = "delete"
    /\ file[op[a].orig] = None
    /\ Return(a)
    /\ UNCHANGED <<file, comments, store, dirty, visit>>

-----------------------------------------------------------------------------
(* reloadRuntime: site.Load walks the directory and reads file after file. *)

List(a) ==
    /\ pc[a] = "list"
    /\ todo' = [todo EXCEPT ![a] = {s \in Slugs : file[s] # None}]
    /\ Goto(a, "read")
    /\ UNCHANGED <<file, comments, store, dirty, alone, op, n, open, seen, visit>>

ReadFile(a, s) ==
    /\ pc[a] = "read"
    /\ s \in todo[a]
    /\ file[s] # None
    /\ seen' = [seen EXCEPT ![a][s] = file[s]]
    /\ todo' = [todo EXCEPT ![a] = @ \ {s}]
    /\ UNCHANGED <<file, comments, store, dirty, alone, pc, op, n, open, visit>>

(* A file that vanished after the listing fails the whole load.            *)
ReadVanished(a, s) ==
    /\ pc[a] = "read"
    /\ s \in todo[a]
    /\ file[s] = None
    /\ dirty' = dirty \cup {"error"}
    /\ Return(a)
    /\ UNCHANGED <<file, comments, store, visit>>

(* replaceRuntime, and the answer to the request.                          *)
PublishesOld(a) == [s \in Slugs |-> IF store[s] = None THEN seen[a][s] ELSE store[s]]
Published(a) == seen[a]

Publish(a) ==
    /\ pc[a] = "read"
    /\ todo[a] = {}
    /\ store' = Published(a)
    /\ dirty' = IF a \in alone THEN {} ELSE dirty
    /\ Return(a)
    /\ UNCHANGED <<file, comments, visit>>

(* The process dies, and starts again with what Load finds.                *)
Restart ==
    /\ \E a \in Admins : pc[a] # "idle"
    /\ store' = file
    /\ dirty' = {}
    /\ alone' = {}
    /\ pc' = [a \in Admins |-> "idle"]
    /\ op' = [a \in Admins |-> None]
    /\ n' = [a \in Admins |-> 1]
    /\ open' = [a \in Admins |-> FALSE]
    /\ todo' = [a \in Admins |-> {}]
    /\ seen' = [a \in Admins |-> NoFiles]
    /\ visit' = [v \in Visitors |-> None]
    /\ UNCHANGED <<file, comments>>

-----------------------------------------------------------------------------
(* submitComment.                                                          *)

(* An empty file has no front matter, and no draft flag.                   *)
Public(c) == c # None /\ (c # Empty => ~c.draft)

Visit(v, s) ==
    /\ visit[v] = None
    /\ Public(store[s])
    /\ visit' = [visit EXCEPT ![v] = s]
    /\ UNCHANGED <<file, comments, store, dirty, alone, locals>>

Submit(v, c) ==
    /\ visit[v] # None
    /\ comments[c] = None
    /\ comments' = [comments EXCEPT ![c] = visit[v]]
    /\ visit' = [visit EXCEPT ![v] = None]
    /\ UNCHANGED <<file, store, dirty, alone, locals>>

Leave(v) ==
    /\ visit[v] # None
    /\ visit' = [visit EXCEPT ![v] = None]
    /\ UNCHANGED <<file, comments, store, dirty, alone, locals>>

-----------------------------------------------------------------------------
AdminStep(a) ==
    \/ Probe(a) \/ Truncate(a) \/ Fill(a) \/ FillImported(a)
    \/ RemoveOld(a) \/ MoveComments(a) \/ Delete(a) \/ DeleteMissing(a)
    \/ List(a)
    \/ \E s \in Slugs : ReadFile(a, s) \/ ReadVanished(a, s)
    \/ Publish(a) \/ Fails(a)

Next ==
    \/ \E a \in Admins : AdminStep(a)
    \/ \E a \in Admins, o \in Ops : Start(a, o)
    \/ \E v \in Visitors, s \in Slugs : Visit(v, s)
    \/ \E v \in Visitors, c \in CommentIds : Submit(v, c)
    \/ \E v \in Visitors : Leave(v)

Spec        == Init /\ [][Next]_vars
RestartSpec == Init /\ [][Next \/ Restart]_vars

-----------------------------------------------------------------------------
AtRest == \A a \in Admins : pc[a] = "idle"

(* However requests overlapped and failed before, one that runs alone and  *)
(* is answered without an error leaves an index that is the disk.          *)
FreshAfterQuiet == AtRest /\ dirty = {} => store = file

(* A rename writes the new file before it removes the old one: a crash at  *)
(* any point leaves a whole copy. Two requests at once on one post do not  *)
(* promise that: one may remove what the other has written.                *)
Whole(s) == file[s] \notin {Empty, None}
RenameKeepsACopy ==
    \A a \in alone : pc[a] = "remove" /\ Whole(op[a].orig) => Whole(Target(a))

(* With every save answered, a comment belongs to a post that exists: the  *)
(* comments of a renamed post went with it.                                *)
CommentsReachable ==
    AtRest /\ dirty = {} =>
        \A c \in CommentIds : comments[c] # None => file[comments[c]] # None
=============================================================================
