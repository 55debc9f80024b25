-------------------------- MODULE MediaStoreProofs --------------------------
(***************************************************************************)
(* For any number of media files and concurrent calls: what is listed has  *)
(* its files, and what was answered stays true.                            *)
(***************************************************************************)
EXTENDS MediaStore, TLAPS

HasFiles(i) == main[i] = "whole" /\ (i \in Converted => original[i] = "whole")

(* Also while index.json is being written, and while it is unreadable.     *)
Filed == \A i \in Ids : items[i] # None \/ index[i] # None => HasFiles(i)

(* An upload works alone on an id that nobody has listed or been promised. *)
UploadAlone(c) ==
    /\ promised[id[c]] = Nothing
    /\ \A d \in Callers : d # c => ~(kind[d] = "upload" /\ id[d] = id[c])
    /\ pc[c] \notin Locked =>
          /\ items[id[c]] = None /\ index[id[c]] = None
          /\ \A d \in Callers : pc[d] \in Locked => id[d] # id[c]
    /\ pc[c] \in {"createOriginal", "fillOriginal"} => main[id[c]] = "whole"
    /\ pc[c] \in {"lock", "open", "write"} => HasFiles(id[c])

Uploads ==
    \A c \in Callers : kind[c] = "upload" /\ pc[c] # "idle" => UploadAlone(c)

(* The holder of the mutex writes the list as it is in memory.             *)
Holding ==
    \A c \in Callers :
        /\ pc[c] \in {"create", "fill", "createOriginal", "fillOriginal"} =>
              kind[c] = "upload"
        /\ pc[c] \in {"remove", "removeOriginal"} => kind[c] = "delete"
        /\ pc[c] # "idle" /\ kind[c] # "delete" => text[c] \in Texts
        /\ pc[c] \in {"open", "write"} =>
              /\ body[c] = items
              /\ items[id[c]] = IF kind[c] = "delete" THEN None ELSE text[c]
        /\ pc[c] = "write" => readable = "empty"
        /\ pc[c] \in Locked /\ kind[c] = "delete" =>
              promised[id[c]] = Nothing /\ items[id[c]] = None
        /\ pc[c] \in {"remove", "removeOriginal"} => index[id[c]] = None

IInv == TypeOK /\ Filed /\ Uploads /\ Holding /\ PromisesKept

(* An empty library promises nothing.                                      *)
LEMMA InitIInv == Init => IInv
BY NoneAssumption DEF Init, IInv, TypeOK, Filed, Uploads, Holding, PromisesKept,
   Holds, Items, NoItems, States, Promises, Nothing, PCs, Locked

-----------------------------------------------------------------------------
USE DEF Items, States, Nothing, PCs, Locked, Goto, Promise, files, disk

(* What a call leaves behind when it returns.                              *)
LEMMA Returned ==
  ASSUME TypeOK, NEW c \in Callers, Return(c)
  PROVE  /\ pc' \in [Callers -> PCs]
         /\ kind' \in [Callers -> {"upload", "update", "delete"}]
         /\ id' \in [Callers -> Ids \cup {None}]
         /\ text' \in [Callers -> Texts \cup {None}]
         /\ body' \in [Callers -> Items]
         /\ holder' \in Callers \cup {None}
         /\ pc'[c] = "idle" /\ id'[c] = None /\ holder' # c
         /\ \A d \in Callers : d # c =>
               /\ pc'[d] = pc[d] /\ kind'[d] = kind[d] /\ id'[d] = id[d]
               /\ text'[d] = text[d] /\ body'[d] = body[d]
               /\ holder' = d <=> holder = d
BY NoneAssumption DEF TypeOK, Return, NoItems

(* An answer clears the locals of the call.                                *)
LEMMA ReturnTypes ==
  ASSUME TypeOK, NEW c \in Callers, Return(c),
         main' \in [Ids -> States], original' \in [Ids -> States], index' \in Items,
         readable' \in {"whole", "empty", "part"}, items' \in Items,
         promised' \in [Ids -> Promises]
  PROVE  TypeOK'
<1>1. \A d \in Callers : /\ pc'[d] = "idle" <=> id'[d] = None
                         /\ pc'[d] \in Locked <=> holder' = d
  BY Returned, NoneAssumption DEF TypeOK
<1> QED
  BY <1>1, Returned DEF TypeOK

(* Types, action by action.                                                *)
LEMMA TypeStep == TypeOK /\ Holding /\ [Next]_vars => TypeOK'
<1> SUFFICES ASSUME TypeOK, Holding, [Next]_vars PROVE TypeOK'
  OBVIOUS
<1> USE NoneAssumption DEF TypeOK
<1>1. ASSUME NEW c \in Callers, NEW i \in Ids, NEW t \in Texts \cup {None},
             NEW k \in {"upload", "update", "delete"}, Call(c, k, i, t)
      PROVE  TypeOK'
  BY <1>1 DEF Call
<1>2. ASSUME NEW c \in Callers,
             \/ Create(c) \/ Fill(c) \/ CreateOriginal(c) \/ FillOriginal(c)
      PROVE  TypeOK'
  <2>1. CASE Create(c)
    BY <2>1 DEF Create
  <2>2. CASE Fill(c)
    BY <2>2 DEF Fill
  <2>3. CASE CreateOriginal(c)
    BY <2>3 DEF CreateOriginal
  <2>4. CASE FillOriginal(c)
    BY <2>4 DEF FillOriginal
  <2> QED
    BY <1>2, <2>1, <2>2, <2>3, <2>4
<1>3. ASSUME NEW c \in Callers, UploadFails(c) \/ NotFound(c) PROVE TypeOK'
  <2>1. CASE UploadFails(c)
    BY <2>1, ReturnTypes DEF UploadFails
  <2>2. CASE NotFound(c)
    BY <2>2, ReturnTypes DEF NotFound
  <2> QED
    BY <1>3, <2>1, <2>2
<1>4. ASSUME NEW c \in Callers, Apply(c) PROVE TypeOK'
  <2>1. Changed(c) \in Items
    BY <1>4 DEF Changed, Apply
  <2>2. Weakened(kind[c], promised[id[c]]) \in Promises
    BY <1>4 DEF Weakened, Apply, Promises
  <2>3. /\ items' \in Items /\ body' \in [Callers -> Items]
        /\ promised' \in [Ids -> Promises]
    BY <1>4, <2>1, <2>2 DEF Apply
  <2>4. /\ pc' \in [Callers -> PCs] /\ holder' \in Callers
        /\ \A d \in Callers : pc'[d] = "idle" <=> id'[d] = None
    BY <1>4 DEF Apply
  <2>5. \A d \in Callers : pc'[d] \in Locked <=> holder' = d
    BY <1>4 DEF Apply, MayLock
  <2>6. UNCHANGED <<main, original, index, readable, kind, id, text>>
    BY <1>4 DEF Apply
  <2> QED
    BY <2>3, <2>4, <2>5, <2>6
<1>5. ASSUME NEW c \in Callers, OpenIndex(c) PROVE TypeOK'
  BY <1>5 DEF OpenIndex
<1>6. ASSUME NEW c \in Callers, WriteIndex(c) PROVE TypeOK'
  <2>1. CASE kind[c] = "delete"
    BY <1>6, <2>1 DEF WriteIndex
  <2>2. CASE kind[c] # "delete"
    <3>1. [what |-> "text", text |-> text[c]] \in Promises
      BY <1>6, <2>2 DEF WriteIndex, Holding, Promises
    <3> QED
      <4>1. promised' \in [Ids -> Promises]
        BY <1>6, <2>2, <3>1 DEF WriteIndex
      <4> QED
        BY <1>6, <2>2, <4>1, ReturnTypes DEF WriteIndex
  <2> QED
    BY <2>1, <2>2
<1>7. ASSUME NEW c \in Callers, SaveFails(c) PROVE TypeOK'
  <2>1. /\ readable' \in {"whole", "empty", "part"} /\ Return(c)
        /\ UNCHANGED <<main, original, index, items, promised>>
    BY <1>7 DEF SaveFails
  <2> QED
    BY <2>1, ReturnTypes
<1>8. ASSUME NEW c \in Callers, Remove(c) PROVE TypeOK'
  <2>1. /\ main' \in [Ids -> States] /\ pc' \in [Callers -> PCs]
        /\ UNCHANGED <<original, index, readable, items, holder, kind, id, text, body, promised>>
    BY <1>8 DEF Remove
  <2>2. \A d \in Callers : /\ pc'[d] = "idle" <=> id'[d] = None
                           /\ pc'[d] \in Locked <=> holder' = d
    BY <1>8 DEF Remove
  <2> QED
    BY <2>1, <2>2
<1>9. ASSUME NEW c \in Callers, RemoveOriginal(c) PROVE TypeOK'
  <2>1. [what |-> "gone"] \in Promises
    BY DEF Promises
  <2>2. /\ original' \in [Ids -> States] /\ promised' \in [Ids -> Promises]
        /\ Return(c) /\ UNCHANGED <<main, index, readable, items>>
    BY <1>9, <2>1 DEF RemoveOriginal
  <2> QED
    BY <2>2, ReturnTypes
<1>10. CASE Restart
  <2>1. Nothing \in Promises
    BY DEF Promises
  <2>2. items' \in Items
    BY <1>10 DEF Restart, Loaded, NoItems
  <2>3. promised' \in [Ids -> Promises]
    BY <1>10, <2>1 DEF Restart
  <2>4. body' \in [Callers -> Items]
    BY <1>10 DEF Restart, NoItems
  <2> QED
    BY <1>10, <2>2, <2>3, <2>4 DEF Restart
<1>11. CASE UNCHANGED vars
  BY <1>11 DEF vars
<1> QED
  BY <1>1, <1>2, <1>3, <1>4, <1>5, <1>6, <1>7, <1>8, <1>9, <1>10, <1>11
     DEF Next, Step

-----------------------------------------------------------------------------
(* Each part of the invariant, over the steps of one caller, restarts and  *)
(* stuttering.                                                             *)
LEMMA FiledStep == IInv /\ [Next]_vars => Filed'
<1> SUFFICES ASSUME IInv, [Next]_vars PROVE Filed'
  OBVIOUS
<1> USE NoneAssumption DEF IInv, TypeOK, Filed
<1>1. ASSUME NEW c \in Callers, NEW i \in Ids, NEW t \in Texts \cup {None},
             NEW k \in {"upload", "update", "delete"}, Call(c, k, i, t),
             k # "delete" => t \in Texts
      PROVE  Filed'
  BY <1>1 DEF Call, HasFiles
<1>2. ASSUME NEW c \in Callers, Create(c) PROVE Filed'
  BY <1>2 DEF Create, Uploads, UploadAlone, HasFiles, Holding
<1>3. ASSUME NEW c \in Callers, Fill(c) PROVE Filed'
  BY <1>3 DEF Fill, Uploads, UploadAlone, HasFiles, Holding
<1>4. ASSUME NEW c \in Callers, CreateOriginal(c) PROVE Filed'
  BY <1>4 DEF CreateOriginal, Uploads, UploadAlone, HasFiles, Holding
<1>5. ASSUME NEW c \in Callers, FillOriginal(c) PROVE Filed'
  BY <1>5 DEF FillOriginal, Uploads, UploadAlone, HasFiles, Holding
<1>6. ASSUME NEW c \in Callers, UploadFails(c) PROVE Filed'
  BY <1>6 DEF UploadFails, Uploads, UploadAlone, HasFiles, Holding
<1>7. ASSUME NEW c \in Callers, Apply(c) PROVE Filed'
  BY <1>7 DEF Apply, Changed, Uploads, UploadAlone, HasFiles
<1>8. ASSUME NEW c \in Callers, NotFound(c) PROVE Filed'
  BY <1>8 DEF NotFound, Uploads, UploadAlone, HasFiles, Holding
<1>9. ASSUME NEW c \in Callers, OpenIndex(c) PROVE Filed'
  BY <1>9 DEF OpenIndex, Uploads, UploadAlone, HasFiles, Holding
<1>10. ASSUME NEW c \in Callers, WriteIndex(c) PROVE Filed'
  BY <1>10 DEF WriteIndex, Holding, HasFiles
<1>11. ASSUME NEW c \in Callers, SaveFails(c) PROVE Filed'
  BY <1>11 DEF SaveFails, Uploads, UploadAlone, HasFiles, Holding
<1>12. ASSUME NEW c \in Callers, Remove(c) PROVE Filed'
  BY <1>12 DEF Remove, Uploads, UploadAlone, HasFiles, Holding
<1>13. ASSUME NEW c \in Callers, RemoveOriginal(c) PROVE Filed'
  BY <1>13 DEF RemoveOriginal, Uploads, UploadAlone, HasFiles, Holding
<1>14. CASE Restart
  BY <1>14 DEF Restart, Loaded, NoItems, HasFiles
<1>15. CASE UNCHANGED vars
  BY <1>15 DEF vars, HasFiles
<1> QED
  BY <1>1, <1>2, <1>3, <1>4, <1>5, <1>6, <1>7, <1>8, <1>9, <1>10, <1>11, <1>12,
     <1>13, <1>14, <1>15 DEF Next, Step

(* What the return of c leaves of another upload d.                        *)
OtherUpload(c, d) ==
    /\ UploadAlone(d) /\ id[d] \in Ids
    /\ pc'[d] = pc[d] /\ id'[d] = id[d]
    /\ \A e \in Callers : e # d => ~(kind'[e] = "upload" /\ id'[e] = id'[d])
    /\ pc'[d] \notin Locked => \A e \in Callers : pc'[e] \in Locked => id'[e] # id'[d]
    /\ id[c] # id[d] \/ kind[c] # "upload"
    /\ pc[c] \in Locked => pc[d] \notin Locked /\ id[c] # id[d]

(* An answer leaves the uploads of other calls alone on their ids.         *)
LEMMA OtherUploads ==
  ASSUME IInv, NEW c \in Callers, Return(c),
         NEW d \in Callers, kind'[d] = "upload", pc'[d] # "idle"
  PROVE  OtherUpload(c, d)
<1> USE NoneAssumption DEF IInv, TypeOK, Uploads
<1>1. \A e \in Callers : e # c => pc'[e] = pc[e] /\ kind'[e] = kind[e] /\ id'[e] = id[e]
  BY Returned
<1>2. pc'[c] = "idle" /\ id'[c] = None
  BY Returned
<1>3. d # c /\ id[d] \in Ids /\ UploadAlone(d)
  BY <1>1, <1>2
<1>4. \A e \in Callers : e # d => ~(kind'[e] = "upload" /\ id'[e] = id'[d])
  BY <1>1, <1>2, <1>3 DEF UploadAlone
<1>5. pc'[d] \notin Locked => \A e \in Callers : pc'[e] \in Locked => id'[e] # id'[d]
  BY <1>1, <1>2, <1>3 DEF UploadAlone
<1>6. /\ id[c] # id[d] \/ kind[c] # "upload"
      /\ pc[c] \in Locked => pc[d] \notin Locked /\ id[c] # id[d]
  BY <1>3 DEF UploadAlone
<1> QED
  BY <1>1, <1>3, <1>4, <1>5, <1>6 DEF OtherUpload

(* Nobody can list, promise or change an id before its upload takes the    *)
(* mutex.                                                                  *)
LEMMA UploadsStep == IInv /\ [Next]_vars => Uploads'
<1> SUFFICES ASSUME IInv, [Next]_vars PROVE Uploads'
  OBVIOUS
<1> USE NoneAssumption DEF IInv, TypeOK, Uploads
<1>1. ASSUME NEW c \in Callers, NEW i \in Ids, NEW t \in Texts \cup {None},
             NEW k \in {"upload", "update", "delete"}, Call(c, k, i, t),
             k # "delete" => t \in Texts
      PROVE  Uploads'
  BY <1>1 DEF Call, Unused, UploadAlone, HasFiles
<1>2. ASSUME NEW c \in Callers, Create(c) PROVE Uploads'
  BY <1>2 DEF Create, UploadAlone, HasFiles, Holding
<1>3. ASSUME NEW c \in Callers, Fill(c) PROVE Uploads'
  BY <1>3 DEF Fill, UploadAlone, HasFiles, Holding
<1>4. ASSUME NEW c \in Callers, CreateOriginal(c) PROVE Uploads'
  BY <1>4 DEF CreateOriginal, UploadAlone, HasFiles, Holding
<1>5. ASSUME NEW c \in Callers, FillOriginal(c) PROVE Uploads'
  BY <1>5 DEF FillOriginal, UploadAlone, HasFiles, Holding
<1>6. ASSUME NEW c \in Callers, UploadFails(c) PROVE Uploads'
  <2> SUFFICES ASSUME NEW d \in Callers, kind'[d] = "upload", pc'[d] # "idle"
               PROVE  UploadAlone(d)'
    OBVIOUS
  <2>1. OtherUpload(c, d)
    BY <1>6, OtherUploads DEF UploadFails
  <2>2. promised'[id'[d]] = Nothing
    BY <1>6, <2>1 DEF UploadFails, OtherUpload, UploadAlone
  <2>3. pc'[d] \notin Locked => items'[id'[d]] = None /\ index'[id'[d]] = None
    BY <1>6, <2>1 DEF UploadFails, OtherUpload, UploadAlone, Holding
  <2>4. /\ pc'[d] \in {"createOriginal", "fillOriginal"} => main'[id'[d]] = "whole"
        /\ pc'[d] \in {"lock", "open", "write"} => HasFiles(id[d])'
    BY <1>6, <2>1 DEF UploadFails, OtherUpload, UploadAlone, HasFiles, Holding
  <2> QED
    BY <2>1, <2>2, <2>3, <2>4 DEF OtherUpload, UploadAlone
<1>7. ASSUME NEW c \in Callers, Apply(c) PROVE Uploads'
  BY <1>7 DEF Apply, MayLock, Changed, Weakened, UploadAlone, HasFiles, Holding
<1>8. ASSUME NEW c \in Callers, NotFound(c) PROVE Uploads'
  <2> SUFFICES ASSUME NEW d \in Callers, kind'[d] = "upload", pc'[d] # "idle"
               PROVE  UploadAlone(d)'
    OBVIOUS
  <2>1. OtherUpload(c, d)
    BY <1>8, OtherUploads DEF NotFound
  <2>2. promised'[id'[d]] = Nothing
    BY <1>8, <2>1 DEF NotFound, OtherUpload, UploadAlone
  <2>3. pc'[d] \notin Locked => items'[id'[d]] = None /\ index'[id'[d]] = None
    BY <1>8, <2>1 DEF NotFound, OtherUpload, UploadAlone, Holding
  <2>4. /\ pc'[d] \in {"createOriginal", "fillOriginal"} => main'[id'[d]] = "whole"
        /\ pc'[d] \in {"lock", "open", "write"} => HasFiles(id[d])'
    BY <1>8, <2>1 DEF NotFound, OtherUpload, UploadAlone, HasFiles, Holding
  <2> QED
    BY <2>1, <2>2, <2>3, <2>4 DEF OtherUpload, UploadAlone
<1>9. ASSUME NEW c \in Callers, OpenIndex(c) PROVE Uploads'
  BY <1>9 DEF OpenIndex, UploadAlone, HasFiles, Holding
<1>10. ASSUME NEW c \in Callers, WriteIndex(c) PROVE Uploads'
  <2>0. CASE kind[c] = "delete"
    BY <1>10, <2>0 DEF WriteIndex, UploadAlone, HasFiles, Holding
  <2> SUFFICES ASSUME kind[c] # "delete" PROVE Uploads'
    BY <2>0
  <2> SUFFICES ASSUME NEW d \in Callers, kind'[d] = "upload", pc'[d] # "idle"
               PROVE  UploadAlone(d)'
    OBVIOUS
  <2>1. OtherUpload(c, d)
    BY <1>10, OtherUploads DEF WriteIndex
  <2>2. promised'[id'[d]] = Nothing
    BY <1>10, <2>1 DEF WriteIndex, OtherUpload, UploadAlone
  <2>3. pc'[d] \notin Locked => items'[id'[d]] = None /\ index'[id'[d]] = None
    BY <1>10, <2>1 DEF WriteIndex, OtherUpload, UploadAlone, Holding
  <2>4. /\ pc'[d] \in {"createOriginal", "fillOriginal"} => main'[id'[d]] = "whole"
        /\ pc'[d] \in {"lock", "open", "write"} => HasFiles(id[d])'
    BY <1>10, <2>1 DEF WriteIndex, OtherUpload, UploadAlone, HasFiles, Holding
  <2> QED
    BY <2>1, <2>2, <2>3, <2>4 DEF OtherUpload, UploadAlone
<1>11. ASSUME NEW c \in Callers, SaveFails(c) PROVE Uploads'
  <2> SUFFICES ASSUME NEW d \in Callers, kind'[d] = "upload", pc'[d] # "idle"
               PROVE  UploadAlone(d)'
    OBVIOUS
  <2>1. OtherUpload(c, d)
    BY <1>11, OtherUploads DEF SaveFails
  <2>2. promised'[id'[d]] = Nothing
    BY <1>11, <2>1 DEF SaveFails, OtherUpload, UploadAlone
  <2>3. pc'[d] \notin Locked => items'[id'[d]] = None /\ index'[id'[d]] = None
    BY <1>11, <2>1 DEF SaveFails, OtherUpload, UploadAlone, Holding
  <2>4. /\ pc'[d] \in {"createOriginal", "fillOriginal"} => main'[id'[d]] = "whole"
        /\ pc'[d] \in {"lock", "open", "write"} => HasFiles(id[d])'
    BY <1>11, <2>1 DEF SaveFails, OtherUpload, UploadAlone, HasFiles, Holding
  <2> QED
    BY <2>1, <2>2, <2>3, <2>4 DEF OtherUpload, UploadAlone
<1>12. ASSUME NEW c \in Callers, Remove(c) PROVE Uploads'
  BY <1>12 DEF Remove, UploadAlone, HasFiles, Holding
<1>13. ASSUME NEW c \in Callers, RemoveOriginal(c) PROVE Uploads'
  <2> SUFFICES ASSUME NEW d \in Callers, kind'[d] = "upload", pc'[d] # "idle"
               PROVE  UploadAlone(d)'
    OBVIOUS
  <2>1. OtherUpload(c, d)
    BY <1>13, OtherUploads DEF RemoveOriginal
  <2>2. promised'[id'[d]] = Nothing
    BY <1>13, <2>1 DEF RemoveOriginal, OtherUpload, UploadAlone
  <2>3. pc'[d] \notin Locked => items'[id'[d]] = None /\ index'[id'[d]] = None
    BY <1>13, <2>1 DEF RemoveOriginal, OtherUpload, UploadAlone, Holding
  <2>4. /\ pc'[d] \in {"createOriginal", "fillOriginal"} => main'[id'[d]] = "whole"
        /\ pc'[d] \in {"lock", "open", "write"} => HasFiles(id[d])'
    BY <1>13, <2>1 DEF RemoveOriginal, OtherUpload, UploadAlone, HasFiles, Holding
  <2> QED
    BY <2>1, <2>2, <2>3, <2>4 DEF OtherUpload, UploadAlone
<1>14. CASE Restart
  BY <1>14 DEF Restart
<1>15. CASE UNCHANGED vars
  BY <1>15 DEF vars, UploadAlone, HasFiles
<1> QED
  BY <1>1, <1>2, <1>3, <1>4, <1>5, <1>6, <1>7, <1>8, <1>9, <1>10, <1>11, <1>12,
     <1>13, <1>14, <1>15 DEF Next, Step

(* Items change only under the mutex, so its holder writes them as they    *)
(* are.                                                                    *)
LEMMA HoldingStep == IInv /\ [Next]_vars => Holding'
<1> SUFFICES ASSUME IInv, [Next]_vars PROVE Holding'
  OBVIOUS
<1> USE NoneAssumption DEF IInv, TypeOK, Holding
<1>1. ASSUME NEW c \in Callers, NEW i \in Ids, NEW t \in Texts \cup {None},
             NEW k \in {"upload", "update", "delete"}, Call(c, k, i, t),
             k # "delete" => t \in Texts
      PROVE  Holding'
  BY <1>1 DEF Call, Unused
<1>2. ASSUME NEW c \in Callers, Create(c) PROVE Holding'
  BY <1>2 DEF Create
<1>3. ASSUME NEW c \in Callers, Fill(c) PROVE Holding'
  BY <1>3 DEF Fill
<1>4. ASSUME NEW c \in Callers, CreateOriginal(c) PROVE Holding'
  BY <1>4 DEF CreateOriginal
<1>5. ASSUME NEW c \in Callers, FillOriginal(c) PROVE Holding'
  BY <1>5 DEF FillOriginal
<1>6. ASSUME NEW c \in Callers, UploadFails(c) PROVE Holding'
  BY <1>6, Returned DEF UploadFails
<1>7. ASSUME NEW c \in Callers, Apply(c) PROVE Holding'
  BY <1>7 DEF Apply, MayLock, Changed, Weakened
<1>8. ASSUME NEW c \in Callers, NotFound(c) PROVE Holding'
  BY <1>8, Returned DEF NotFound
<1>9. ASSUME NEW c \in Callers, OpenIndex(c) PROVE Holding'
  BY <1>9 DEF OpenIndex
<1>10. ASSUME NEW c \in Callers, WriteIndex(c) PROVE Holding'
  BY <1>10, Returned DEF WriteIndex
<1>11. ASSUME NEW c \in Callers, SaveFails(c) PROVE Holding'
  BY <1>11, Returned DEF SaveFails
<1>12. ASSUME NEW c \in Callers, Remove(c) PROVE Holding'
  BY <1>12 DEF Remove
<1>13. ASSUME NEW c \in Callers, RemoveOriginal(c) PROVE Holding'
  <2>1. \A d \in Callers : d # c =>
           /\ pc'[d] = pc[d] /\ kind'[d] = kind[d] /\ id'[d] = id[d]
           /\ text'[d] = text[d] /\ body'[d] = body[d] /\ pc[d] \notin Locked
    BY <1>13, Returned DEF RemoveOriginal
  <2>2. pc'[c] = "idle"
    BY <1>13, Returned DEF RemoveOriginal
  <2> QED
    BY <1>13, <2>1, <2>2 DEF RemoveOriginal
<1>14. CASE Restart
  BY <1>14 DEF Restart
<1>15. CASE UNCHANGED vars
  BY <1>15 DEF vars
<1> QED
  BY <1>1, <1>2, <1>3, <1>4, <1>5, <1>6, <1>7, <1>8, <1>9, <1>10, <1>11, <1>12,
     <1>13, <1>14, <1>15 DEF Next, Step

(* A promise is weakened before what it is about changes, and renewed by   *)
(* the answer.                                                             *)
LEMMA PromisesStep == IInv /\ [Next]_vars => PromisesKept'
<1> SUFFICES ASSUME IInv, [Next]_vars PROVE PromisesKept'
  OBVIOUS
<1> USE NoneAssumption DEF IInv, TypeOK, PromisesKept
<1>1. ASSUME NEW c \in Callers, NEW i \in Ids, NEW t \in Texts \cup {None},
             NEW k \in {"upload", "update", "delete"}, Call(c, k, i, t),
             k # "delete" => t \in Texts
      PROVE  PromisesKept'
  BY <1>1 DEF Call, Holds
<1>2. ASSUME NEW c \in Callers, Create(c) PROVE PromisesKept'
  BY <1>2 DEF Create, Holds
<1>3. ASSUME NEW c \in Callers, Fill(c) PROVE PromisesKept'
  BY <1>3 DEF Fill, Holds
<1>4. ASSUME NEW c \in Callers, CreateOriginal(c) PROVE PromisesKept'
  BY <1>4 DEF CreateOriginal, Holds
<1>5. ASSUME NEW c \in Callers, FillOriginal(c) PROVE PromisesKept'
  BY <1>5 DEF FillOriginal, Holds
<1>6. ASSUME NEW c \in Callers, UploadFails(c) PROVE PromisesKept'
  BY <1>6 DEF UploadFails, Holds
<1>7. ASSUME NEW c \in Callers, Apply(c) PROVE PromisesKept'
  BY <1>7 DEF Apply, Changed, Weakened, Holds, Uploads, UploadAlone, Holding,
              Promises
<1>8. ASSUME NEW c \in Callers, NotFound(c) PROVE PromisesKept'
  BY <1>8 DEF NotFound, Holds
<1>9. ASSUME NEW c \in Callers, OpenIndex(c) PROVE PromisesKept'
  BY <1>9 DEF OpenIndex, Holds
<1>10. ASSUME NEW c \in Callers, WriteIndex(c) PROVE PromisesKept'
  BY <1>10 DEF WriteIndex, Holds, Holding
<1>11. ASSUME NEW c \in Callers, SaveFails(c) PROVE PromisesKept'
  BY <1>11 DEF SaveFails, Holds
<1>12. ASSUME NEW c \in Callers, Remove(c) PROVE PromisesKept'
  BY <1>12 DEF Remove, Holds
<1>13. ASSUME NEW c \in Callers, RemoveOriginal(c) PROVE PromisesKept'
  BY <1>13 DEF RemoveOriginal, Holds, Holding
<1>14. CASE Restart
  BY <1>14 DEF Restart, Loaded, NoItems, Holds
<1>15. CASE UNCHANGED vars
  BY <1>15 DEF vars, Holds
<1> QED
  BY <1>1, <1>2, <1>3, <1>4, <1>5, <1>6, <1>7, <1>8, <1>9, <1>10, <1>11, <1>12,
     <1>13, <1>14, <1>15 DEF Next, Step

-----------------------------------------------------------------------------
(* Every reachable state satisfies the inductive invariant.                *)
THEOREM Inductive == Spec => []IInv
<1>1. IInv /\ [Next]_vars => IInv'
  BY TypeStep, FiledStep, UploadsStep, HoldingStep, PromisesStep DEF IInv
<1> QED
  BY <1>1, InitIInv, PTL DEF Spec

(* Type correctness of the media store.                                    *)
THEOREM TypeCorrect == Spec => []TypeOK
<1>1. IInv => TypeOK
  BY DEF IInv
<1> QED
  BY <1>1, Inductive, PTL

(* Whatever uploads, updates, deletions, failures and restarts there are,  *)
(* every item in memory and in a readable index.json has all its files.    *)
THEOREM FilesThere == Spec => []ListedHaveFiles
<1>1. IInv => ListedHaveFiles
  BY DEF IInv, Filed, HasFiles, ListedHaveFiles, Listed
<1> QED
  BY <1>1, Inductive, PTL

(* No call and no restart takes back what the store has answered.          *)
THEOREM AnswersStand == Spec => []PromisesKept
<1>1. IInv => PromisesKept
  BY DEF IInv
<1> QED
  BY <1>1, Inductive, PTL
=============================================================================
