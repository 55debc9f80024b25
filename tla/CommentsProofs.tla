--------------------------- MODULE CommentsProofs ---------------------------
(***************************************************************************)
(* comments.json under commentMu implements the comment book, for any      *)
(* number of handlers, posts and comments, through failing writes and      *)
(* restarts.                                                               *)
(***************************************************************************)
EXTENDS Comments, TLAPS

(* What a handler between Lock and Unlock knows: the file does not change  *)
(* under it, so what it is about to write is its request applied to the    *)
(* file as it is.                                                          *)
Locals ==
    /\ writer # None => readers = {}
    /\ \A h \in Handlers :
          /\ pc[h] # "idle" => request[h] \in B!Requests
          /\ pc[h] \in {"load", "truncate", "write"} => request[h].kind # "read"
          /\ pc[h] \in {"truncate", "write"} =>
                buffer[h] \in B!Results(request[h], file)
          /\ pc[h] = "truncate" => state = "whole"
          /\ pc[h] = "write" => state = "open"

IInv == TypeOK /\ Locals

(* A request turns a set of comments into a set of comments.               *)
LEMMA ResultsType ==
    ASSUME NEW r \in B!Requests, NEW comments \in SUBSET B!Comment,
           NEW result \in B!Results(r, comments), r.kind # "read"
    PROVE  result \in SUBSET B!Comment
<1>1. CASE r.kind = "add"
  <2>1. r.slug \in Slugs
    BY <1>1 DEF B!Requests
  <2>2. PICK i \in CommentIds :
           result = comments \cup {[id |-> i, slug |-> r.slug, replied |-> FALSE]}
    BY <1>1 DEF B!Results
  <2>3. [id |-> i, slug |-> r.slug, replied |-> FALSE] \in B!Comment
    BY <2>1 DEF B!Comment
  <2> QED
    BY <2>2, <2>3
<1>2. CASE r.kind = "reply"
  <2>1. result = {[c EXCEPT !.replied = @ \/ c.id = r.id] : c \in comments}
    BY <1>2 DEF B!Results, B!RepliedIn
  <2>2. ASSUME NEW c \in B!Comment
        PROVE  [c EXCEPT !.replied = @ \/ c.id = r.id] \in B!Comment
    BY DEF B!Comment
  <2> QED
    BY <2>1, <2>2
<1>3. CASE r.kind = "move"
  <2>1. r.slug \in Slugs /\ r.to \in Slugs
    BY <1>3 DEF B!Requests
  <2>2. result = {[c EXCEPT !.slug = IF @ = r.slug THEN r.to ELSE @] :
                     c \in comments}
    BY <1>3 DEF B!Results, B!MovedIn
  <2>3. ASSUME NEW c \in B!Comment
        PROVE  [c EXCEPT !.slug = IF @ = r.slug THEN r.to ELSE @] \in B!Comment
    BY <2>1 DEF B!Comment
  <2> QED
    BY <2>2, <2>3
<1> QED
  BY <1>1, <1>2, <1>3 DEF B!Requests

(* No request drops a comment or takes a reply back.                       *)
LEMMA ResultsKeep ==
    ASSUME NEW r \in B!Requests, NEW comments \in SUBSET B!Comment,
           NEW result \in B!Results(r, comments), r.kind # "read",
           NEW c \in comments
    PROVE  \E d \in result : d.id = c.id /\ (c.replied => d.replied)
<1>1. c.replied \in BOOLEAN /\ c \in B!Comment
  BY DEF B!Comment
<1>2. CASE r.kind = "add"
  <2>1. c \in result
    BY <1>2 DEF B!Results
  <2> QED
    BY <2>1
<1>3. CASE r.kind = "reply"
  <2>1. [c EXCEPT !.replied = @ \/ c.id = r.id] \in result
    BY <1>3 DEF B!Results, B!RepliedIn
  <2>2. [c EXCEPT !.replied = @ \/ c.id = r.id].id = c.id
    BY <1>1 DEF B!Comment
  <2>3. c.replied => [c EXCEPT !.replied = @ \/ c.id = r.id].replied
    BY <1>1 DEF B!Comment
  <2> QED
    BY <2>1, <2>2, <2>3
<1>4. CASE r.kind = "move"
  <2>1. [c EXCEPT !.slug = IF @ = r.slug THEN r.to ELSE @] \in result
    BY <1>4 DEF B!Results, B!MovedIn
  <2>2. /\ [c EXCEPT !.slug = IF @ = r.slug THEN r.to ELSE @].id = c.id
        /\ [c EXCEPT !.slug = IF @ = r.slug THEN r.to ELSE @].replied = c.replied
    BY <1>1 DEF B!Comment
  <2> QED
    BY <2>1, <2>2
<1> QED
  BY <1>2, <1>3, <1>4 DEF B!Requests

(* The book starts whole, with nobody in it.                               *)
LEMMA InitIInv == Init => IInv
BY NoneAssumption DEF Init, IInv, TypeOK, Locals

(* Handlers under commentMu, and faults: only the writer's buffer has to   *)
(* follow the file.                                                        *)
LEMMA StepIInv == IInv /\ [Next \/ Faults]_vars => IInv'
<1> SUFFICES ASSUME IInv, [Next \/ Faults]_vars PROVE IInv'
  OBVIOUS
<1> USE NoneAssumption DEF IInv, TypeOK, Locals
<1>1. ASSUME NEW h \in Handlers, NEW r \in B!Requests, Arrive(h, r)
      PROVE  IInv'
  BY <1>1 DEF Arrive
<1>2. ASSUME NEW h \in Handlers, Lock(h) PROVE IInv'
  BY <1>2 DEF Lock, MayWrite
<1>3. ASSUME NEW h \in Handlers, RLock(h) PROVE IInv'
  BY <1>3 DEF RLock
<1>4. ASSUME NEW h \in Handlers, Read(h) PROVE IInv'
  BY <1>4 DEF Read, Unlock
<1>5. ASSUME NEW h \in Handlers, Load(h) PROVE IInv'
  <2>1. request[h] \in B!Requests /\ request[h].kind # "read"
    BY <1>5 DEF Load, Changes
  <2>2. PICK comments \in B!Results(request[h], file) :
           buffer' = [buffer EXCEPT ![h] = comments]
    BY <1>5 DEF Load
  <2>3. comments \in SUBSET B!Comment
    BY <2>1, <2>2, ResultsType
  <2>4. pc' = [pc EXCEPT ![h] = "truncate"] /\ pc[h] = "load" /\ state = "whole"
        /\ UNCHANGED <<file, state, writer, readers, request>>
    BY <1>5 DEF Load
  <2>5. TypeOK'
    BY <2>2, <2>3, <2>4
  <2>6. Locals'
    BY <2>2, <2>4
  <2> QED
    BY <2>5, <2>6
<1>6. ASSUME NEW h \in Handlers, LoadGivesUp(h) PROVE IInv'
  BY <1>6 DEF LoadGivesUp, Unlock
<1>7. ASSUME NEW h \in Handlers, Truncate(h) PROVE IInv'
  BY <1>7 DEF Truncate
<1>8. ASSUME NEW h \in Handlers, OpenFails(h) PROVE IInv'
  BY <1>8 DEF OpenFails, Unlock
<1>9. ASSUME NEW h \in Handlers, Write(h) PROVE IInv'
  BY <1>9 DEF Write, Unlock
<1>10. ASSUME NEW h \in Handlers, WriteFails(h) PROVE IInv'
  BY <1>10 DEF WriteFails, Unlock
<1>11. CASE Restart
  BY <1>11 DEF Restart
<1>12. CASE UNCHANGED vars
  BY <1>12 DEF vars
<1> QED
  BY <1>1, <1>2, <1>3, <1>4, <1>5, <1>6, <1>7, <1>8, <1>9, <1>10, <1>11, <1>12
     DEF Next, HandlerStep, Faults

(* So it is in every behaviour.                                            *)
LEMMA Invariance == Spec => []IInv
BY InitIInv, StepIInv, PTL DEF Spec

(* Only Write changes what the file holds, and it writes its request       *)
(* applied to the file as it is.                                           *)
LEMMA FileStep ==
    ASSUME IInv, [Next \/ Faults]_vars, file' # file
    PROVE  \E h \in Handlers : Write(h) /\ request[h] \in B!Requests
              /\ request[h].kind # "read"
              /\ file' \in B!Results(request[h], file)
<1> USE NoneAssumption DEF IInv, TypeOK, Locals
<1>1. ASSUME NEW h \in Handlers, NEW r \in B!Requests, Arrive(h, r)
      PROVE  FALSE
  BY <1>1 DEF Arrive
<1>2. ASSUME NEW h \in Handlers, Lock(h) \/ RLock(h) \/ Load(h) \/ Truncate(h)
      PROVE  FALSE
  BY <1>2 DEF Lock, RLock, Load, Truncate
<1>3. ASSUME NEW h \in Handlers,
             Read(h) \/ LoadGivesUp(h) \/ OpenFails(h) \/ WriteFails(h)
      PROVE  FALSE
  BY <1>3 DEF Read, LoadGivesUp, OpenFails, WriteFails
<1>4. ~Restart /\ ~UNCHANGED vars
  BY DEF Restart, vars
<1>5. PICK h \in Handlers : Write(h)
  BY <1>1, <1>2, <1>3, <1>4 DEF Next, HandlerStep, Faults
<1>6. pc[h] = "write" /\ file' = buffer[h]
  BY <1>5 DEF Write
<1> QED
  BY <1>5, <1>6

(* Who holds commentMu, and where each handler is, fit together.           *)
THEOREM TypeCorrect == Spec => []TypeOK
BY Invariance, PTL DEF IInv

(* No reader of comments ever meets a half-written file.                   *)
THEOREM ReadersWhole == Spec => []ReadersSeeWhole
<1>1. IInv => ReadersSeeWhole
  BY NoneAssumption DEF IInv, TypeOK, Locals, ReadersSeeWhole
<1> QED
  BY <1>1, Invariance, PTL

(* The file implements the comment book: every write is one whole request  *)
(* on the book as it is.                                                   *)
THEOREM Implements == Spec => ImplementsBook
<1>1. Init => B!Init
  BY DEF Init, B!Init
<1>2. IInv /\ [Next \/ Faults]_vars => [B!Next]_file
  BY FileStep DEF B!Next
<1> QED
  BY <1>1, <1>2, Invariance, PTL DEF Spec, ImplementsBook, B!Spec

(* No comment and no reply is lost to another request.                     *)
THEOREM NoneLost == Spec => NothingLost
<1>1. IInv /\ [Next \/ Faults]_vars => [Keeps]_vars
  <2> SUFFICES ASSUME IInv, [Next \/ Faults]_vars, file' # file
               PROVE  Keeps
    <3>1. file' = file => Keeps
      BY DEF Keeps
    <3> QED
      BY <3>1
  <2>1. file \in SUBSET B!Comment
    BY DEF IInv, TypeOK
  <2>2. PICK h \in Handlers : /\ request[h] \in B!Requests
                              /\ request[h].kind # "read"
                              /\ file' \in B!Results(request[h], file)
    BY FileStep
  <2> QED
    BY <2>1, <2>2, ResultsKeep DEF Keeps
<1> QED
  BY <1>1, Invariance, PTL DEF Spec, NothingLost

(* A comments.json left empty by a fault is not written again.             *)
THEOREM Refused == Spec => StaysRefused
<1>1. IInv /\ [Next \/ Faults]_vars
        => [state = "left" => state' = "left" /\ file' = file]_vars
  <2> SUFFICES ASSUME IInv, [Next \/ Faults]_vars, state = "left"
               PROVE  state' = "left" /\ file' = file
    OBVIOUS
  <2> USE NoneAssumption DEF IInv, TypeOK, Locals
  <2>1. ASSUME NEW h \in Handlers PROVE pc[h] \notin {"truncate", "write"}
    OBVIOUS
  <2>2. ASSUME NEW h \in Handlers, HandlerStep(h) \/ WriteFails(h)
        PROVE  Lock(h) \/ RLock(h) \/ Read(h) \/ LoadGivesUp(h)
    BY <2>1, <2>2 DEF HandlerStep, Load, Truncate, OpenFails, Write, WriteFails
  <2>3. ASSUME NEW h \in Handlers, Lock(h) \/ RLock(h) \/ Read(h) \/ LoadGivesUp(h)
        PROVE  UNCHANGED <<file, state>>
    BY <2>3 DEF Lock, RLock, Read, LoadGivesUp
  <2>4. ASSUME NEW h \in Handlers, NEW r \in B!Requests, Arrive(h, r)
        PROVE  UNCHANGED <<file, state>>
    BY <2>4 DEF Arrive
  <2> QED
    BY <2>2, <2>3, <2>4 DEF Next, Faults, Restart, vars
<1> QED
  BY <1>1, Invariance, PTL DEF Spec, StaysRefused
=============================================================================
