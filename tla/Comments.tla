------------------------------ MODULE Comments ------------------------------
(***************************************************************************)
(* comments.json: read whole, changed and written whole by                 *)
(* internal/site/comments.go, under Server.commentMu (a sync.RWMutex) in   *)
(* internal/http/server.go.  os.WriteFile truncates the file before it     *)
(* writes, so a fault between the two leaves an empty file behind, which   *)
(* LoadComments refuses to parse.                                          *)
(***************************************************************************)
EXTENDS FiniteSets

CONSTANTS
    CommentIds,  \* bounds how many comments are ever added
    Slugs,
    Handlers,    \* request goroutines
    None

ASSUME NoneAssumption == None \notin Handlers

VARIABLES
    file,       \* the comments last written to comments.json
    state,      \* "whole", "open" (truncated, being written), or "left"
                \* empty by a fault
    writer,     \* the holder of commentMu.Lock
    readers,    \* the holders of commentMu.RLock
    pc, request, buffer   \* per handler: its place, request and comments

vars == <<file, state, writer, readers, pc, request, buffer>>

B == INSTANCE CommentBook WITH book <- file

TypeOK ==
    /\ file \subseteq B!Comment
    /\ state \in {"whole", "open", "left"}
    /\ writer \in Handlers \cup {None}
    /\ readers \subseteq Handlers
    /\ pc \in [Handlers -> {"idle", "lock", "load", "truncate", "write", "read"}]
    /\ request \in [Handlers -> B!Requests \cup {None}]
    /\ buffer \in [Handlers -> SUBSET B!Comment]
    /\ \A h \in Handlers :
          /\ pc[h] \in {"load", "truncate", "write"} <=> writer = h
          /\ pc[h] = "read" <=> h \in readers

Init ==
    /\ file = {}
    /\ state = "whole"
    /\ writer = None
    /\ readers = {}
    /\ pc = [h \in Handlers |-> "idle"]
    /\ request = [h \in Handlers |-> None]
    /\ buffer = [h \in Handlers |-> {}]

-----------------------------------------------------------------------------
(* submitComment, replyToComment, savePost after a change of slug, and the *)
(* pages that list comments.                                               *)
Arrive(h, r) ==
    /\ pc[h] = "idle"
    /\ pc' = [pc EXCEPT ![h] = "lock"]
    /\ request' = [request EXCEPT ![h] = r]
    /\ UNCHANGED <<file, state, writer, readers, buffer>>

(* commentMu.Lock *)
MayWriteAlways(h) == TRUE
MayWrite(h) == writer = None /\ readers = {}

Lock(h) ==
    /\ pc[h] = "lock"
    /\ request[h].kind # "read"
    /\ MayWrite(h)
    /\ writer' = h
    /\ pc' = [pc EXCEPT ![h] = "load"]
    /\ UNCHANGED <<file, state, readers, request, buffer>>

(* commentMu.RLock *)
RLock(h) ==
    /\ pc[h] = "lock"
    /\ request[h].kind = "read"
    /\ writer = None
    /\ readers' = readers \cup {h}
    /\ pc' = [pc EXCEPT ![h] = "read"]
    /\ UNCHANGED <<file, state, writer, request, buffer>>

Unlock(h) ==
    /\ writer' = IF writer = h THEN None ELSE writer
    /\ readers' = readers \ {h}
    /\ pc' = [pc EXCEPT ![h] = "idle"]
    /\ request' = [request EXCEPT ![h] = None]
    /\ buffer' = [buffer EXCEPT ![h] = {}]

(* CommentsForPost: LoadComments and a filter.                             *)
Read(h) ==
    /\ pc[h] = "read"
    /\ Unlock(h)
    /\ UNCHANGED <<file, state>>

(* A reply to an unknown comment, and a move without comments to move,     *)
(* leave the file alone.                                                   *)
Changes(r) ==
    CASE r.kind = "add" -> {c.id : c \in file} # CommentIds
      [] r.kind = "reply" -> \E c \in file : c.id = r.id
      [] r.kind = "move" -> r.slug # r.to /\ \E c \in file : c.slug = r.slug

LoadTakesEmpty(h) ==
    /\ pc[h] = "load"
    /\ Changes(request[h])
    /\ \E comments \in B!Results(request[h], IF state # "whole" THEN {} ELSE file) :
          buffer' = [buffer EXCEPT ![h] = comments]
    /\ pc' = [pc EXCEPT ![h] = "truncate"]
    /\ UNCHANGED <<file, state, writer, readers, request>>

(* LoadComments, then the request's change to the list.                    *)
Load(h) ==
    /\ pc[h] = "load"
    /\ state = "whole"
    /\ Changes(request[h])
    /\ \E comments \in B!Results(request[h], file) :
          buffer' = [buffer EXCEPT ![h] = comments]
    /\ pc' = [pc EXCEPT ![h] = "truncate"]
    /\ UNCHANGED <<file, state, writer, readers, request>>

LoadGivesUp(h) ==
    /\ pc[h] = "load"
    /\ state # "whole" \/ ~Changes(request[h])   \* an empty file does not parse
    /\ Unlock(h)
    /\ UNCHANGED <<file, state>>

(* SaveComments: os.WriteFile opens with O_TRUNC, or fails to open.        *)
Truncate(h) ==
    /\ pc[h] = "truncate"
    /\ state' = "open"
    /\ pc' = [pc EXCEPT ![h] = "write"]
    /\ UNCHANGED <<file, writer, readers, request, buffer>>

OpenFails(h) ==
    /\ pc[h] = "truncate"
    /\ Unlock(h)
    /\ UNCHANGED <<file, state>>

Write(h) ==
    /\ pc[h] = "write"
    /\ file' = buffer[h]
    /\ state' = "whole"
    /\ Unlock(h)

-----------------------------------------------------------------------------
(* Faults: the write fails after the truncation, or the process dies and   *)
(* starts again with the locks free.                                       *)
WriteFails(h) ==
    /\ pc[h] = "write"
    /\ state' = "left"
    /\ Unlock(h)
    /\ UNCHANGED file

Restart ==
    /\ \E h \in Handlers : pc[h] # "idle"
    /\ pc' = [h \in Handlers |-> "idle"]
    /\ writer' = None
    /\ readers' = {}
    /\ request' = [h \in Handlers |-> None]
    /\ buffer' = [h \in Handlers |-> {}]
    /\ state' = IF state = "open" THEN "left" ELSE state
    /\ UNCHANGED file

HandlerStep(h) ==
    \/ Lock(h) \/ RLock(h) \/ Read(h) \/ Load(h) \/ LoadGivesUp(h)
    \/ Truncate(h) \/ OpenFails(h) \/ Write(h)

Next ==
    \/ \E h \in Handlers : HandlerStep(h)
    \/ \E h \in Handlers, r \in B!Requests : Arrive(h, r)

Faults == Restart \/ \E h \in Handlers : WriteFails(h)

Spec == Init /\ [][Next \/ Faults]_vars

-----------------------------------------------------------------------------
(* Under commentMu the handlers write the file as the book promises: each  *)
(* write is one whole request applied to what the file held, none lost,    *)
(* none applied to a stale list, whatever fails and whenever the process   *)
(* dies.                                                                   *)
ImplementsBook == B!Spec

(* A page never lists comments from a file that is being written.          *)
ReadersSeeWhole == readers # {} => \A h \in Handlers : pc[h] # "write"

(* No comment and no reply is lost or taken back by another request.       *)
Keeps == \A c \in file : \E d \in file' :
            d.id = c.id /\ (c.replied => d.replied)
NothingLost == [][Keeps]_vars

(* A file left empty by a fault is refused, never taken for an empty list  *)
(* and written over.                                                       *)
StaysRefused ==
    [][state = "left" => state' = "left" /\ file' = file]_vars
=============================================================================
