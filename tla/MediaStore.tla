----------------------------- MODULE MediaStore -----------------------------
(***************************************************************************)
(* The media library, internal/media/store.go: the files under public/,    *)
(* the list of items in memory and index.json.  An upload writes its files *)
(* before it takes Store.mu; under the mutex the list changes first and    *)
(* saveLocked then writes all of it.  os.WriteFile creates or truncates,   *)
(* then writes, and may fail at either.                                    *)
(*                                                                         *)
(* LocksAlways, SaveErrorIgnored and RemovesFirst are not the code: they   *)
(* are mutants the properties must catch.                                  *)
(***************************************************************************)
EXTENDS FiniteSets

CONSTANTS
    Ids,        \* what randomID returns: never twice the same
    Converted,  \* the ids of converted images whose original is kept
    Texts,      \* alt texts
    Callers,    \* request goroutines and plugin calls
    None

ASSUME ConvertedAssumption == Converted \subseteq Ids
ASSUME NoneAssumption == None \notin Texts \cup Ids \cup Callers

VARIABLES
    main,      \* public/{year}/{month}/{id}: "none", "part" or "whole"
    original,  \* public/originals/...
    index,     \* the items last written to index.json
    readable,  \* "whole", or truncated to "empty", or "part" of a write
    items,     \* Store.items
    holder,    \* the holder of Store.mu.Lock
    pc, kind, id, text, body,   \* the locals of a call
    promised   \* what the answers so far promise of an id: nothing, an alt
               \* text, that it is there, or that it is gone

files  == <<main, original>>
disk   == <<index, readable>>
locals == <<pc, kind, id, text, body>>
vars   == <<main, original, index, readable, items, holder,
            pc, kind, id, text, body, promised>>

Items   == [Ids -> Texts \cup {None}]
NoItems == [i \in Ids |-> None]
States  == {"none", "part", "whole"}
Nothing  == [what |-> "nothing"]
Promises == [what : {"nothing", "there", "gone"}]
            \cup [what : {"text"}, text : Texts]

PCs == {"idle", "create", "fill", "createOriginal", "fillOriginal", "lock",
        "open", "write", "remove", "removeOriginal"}
Locked == {"open", "write", "remove", "removeOriginal"}

TypeOK ==
    /\ main \in [Ids -> States]
    /\ original \in [Ids -> States]
    /\ index \in Items
    /\ readable \in {"whole", "empty", "part"}
    /\ items \in Items
    /\ holder \in Callers \cup {None}
    /\ pc \in [Callers -> PCs]
    /\ kind \in [Callers -> {"upload", "update", "delete"}]
    /\ id \in [Callers -> Ids \cup {None}]
    /\ text \in [Callers -> Texts \cup {None}]
    /\ body \in [Callers -> Items]
    /\ promised \in [Ids -> Promises]
    /\ \A c \in Callers :
          /\ pc[c] = "idle" <=> id[c] = None
          /\ pc[c] \in Locked <=> holder = c

(* An empty library: Open found no index.json.                             *)
Init ==
    /\ main = [i \in Ids |-> "none"]
    /\ original = [i \in Ids |-> "none"]
    /\ index = NoItems
    /\ readable = "whole"
    /\ items = NoItems
    /\ holder = None
    /\ pc = [c \in Callers |-> "idle"]
    /\ kind = [c \in Callers |-> "upload"]
    /\ id = [c \in Callers |-> None]
    /\ text = [c \in Callers |-> None]
    /\ body = [c \in Callers |-> NoItems]
    /\ promised = [i \in Ids |-> Nothing]

-----------------------------------------------------------------------------
Goto(c, place) == pc' = [pc EXCEPT ![c] = place]

(* The call returns and its deferred Unlock runs.  Locals are reset so     *)
(* that they tell no two states apart.                                     *)
Return(c) ==
    /\ Goto(c, "idle")
    /\ holder' = IF holder = c THEN None ELSE holder
    /\ kind' = [kind EXCEPT ![c] = "upload"]
    /\ id' = [id EXCEPT ![c] = None]
    /\ text' = [text EXCEPT ![c] = None]
    /\ body' = [body EXCEPT ![c] = NoItems]

Promise(i, p) == promised' = [promised EXCEPT ![i] = p]

(* randomID *)
Unused(i) ==
    /\ main[i] = "none" /\ original[i] = "none"
    /\ items[i] = None /\ index[i] = None
    /\ promised[i] = Nothing
    /\ \A c \in Callers : id[c] # i

(* An update and a deletion may name any id.                               *)
Call(c, k, i, t) ==
    /\ pc[c] = "idle"
    /\ k = "upload" => Unused(i)
    /\ Goto(c, IF k = "upload" THEN "create" ELSE "lock")
    /\ kind' = [kind EXCEPT ![c] = k]
    /\ id' = [id EXCEPT ![c] = i]
    /\ text' = [text EXCEPT ![c] = t]
    /\ UNCHANGED <<files, disk, items, holder, body, promised>>

-----------------------------------------------------------------------------
(* SaveUploadWithOptions, before the mutex.                                *)

Create(c) ==
    /\ pc[c] = "create"
    /\ main' = [main EXCEPT ![id[c]] = "part"]
    /\ Goto(c, "fill")
    /\ UNCHANGED <<original, disk, items, holder, kind, id, text, body, promised>>

Fill(c) ==
    /\ pc[c] = "fill"
    /\ main' = [main EXCEPT ![id[c]] = "whole"]
    /\ Goto(c, IF id[c] \in Converted THEN "createOriginal" ELSE "lock")
    /\ UNCHANGED <<original, disk, items, holder, kind, id, text, body, promised>>

CreateOriginal(c) ==
    /\ pc[c] = "createOriginal"
    /\ original' = [original EXCEPT ![id[c]] = "part"]
    /\ Goto(c, "fillOriginal")
    /\ UNCHANGED <<main, disk, items, holder, kind, id, text, body, promised>>

FillOriginal(c) ==
    /\ pc[c] = "fillOriginal"
    /\ original' = [original EXCEPT ![id[c]] = "whole"]
    /\ Goto(c, "lock")
    /\ UNCHANGED <<main, disk, items, holder, kind, id, text, body, promised>>

(* A file cannot be created or written: what there is of it stays, but for *)
(* the main file when the original fails, which is removed again.          *)
UploadFails(c) ==
    /\ pc[c] \in {"create", "fill", "createOriginal", "fillOriginal"}
    /\ main' = IF pc[c] \in {"createOriginal", "fillOriginal"}
               THEN [main EXCEPT ![id[c]] = "none"] ELSE main
    /\ Return(c)
    /\ UNCHANGED <<original, disk, items, promised>>

-----------------------------------------------------------------------------
(* Under the mutex: the list changes, and saveLocked starts.               *)
LocksAlways(c) == TRUE
MayLock(c) == holder = None

Changed(c) ==
    [items EXCEPT ![id[c]] = IF kind[c] = "delete" THEN None ELSE text[c]]

(* Until a call is answered, an update leaves it open what the alt text    *)
(* is, and a deletion whether the item is there.                           *)
Weakened(k, p) ==
    IF k = "delete" THEN Nothing
    ELSE IF p.what = "text" THEN [what |-> "there"] ELSE p

RemovesFirst(c) ==
    /\ pc[c] = "lock"
    /\ MayLock(c)
    /\ kind[c] # "upload" => items[id[c]] # None
    /\ holder' = c
    /\ items' = Changed(c)
    /\ body' = [body EXCEPT ![c] = Changed(c)]
    /\ Promise(id[c], Weakened(kind[c], promised[id[c]]))
    /\ Goto(c, "open")
    /\ main' = IF kind[c] = "delete" THEN [main EXCEPT ![id[c]] = "none"] ELSE main
    /\ UNCHANGED <<original, disk, kind, id, text>>

Apply(c) ==
    /\ pc[c] = "lock"
    /\ MayLock(c)
    /\ kind[c] # "upload" => items[id[c]] # None
    /\ holder' = c
    /\ items' = Changed(c)
    /\ body' = [body EXCEPT ![c] = Changed(c)]
    /\ Promise(id[c], Weakened(kind[c], promised[id[c]]))
    /\ Goto(c, "open")
    /\ UNCHANGED <<files, disk, kind, id, text>>

(* Update and Delete of an id that is not in the list.                     *)
NotFound(c) ==
    /\ pc[c] = "lock"
    /\ MayLock(c)
    /\ kind[c] # "upload"
    /\ items[id[c]] = None
    /\ Return(c)
    /\ UNCHANGED <<files, disk, items, promised>>

-----------------------------------------------------------------------------
(* saveLocked, and what follows it.                                        *)

OpenIndex(c) ==
    /\ pc[c] = "open"
    /\ readable' = "empty"
    /\ Goto(c, "write")
    /\ UNCHANGED <<files, index, items, holder, kind, id, text, body, promised>>

WriteIndex(c) ==
    /\ pc[c] = "write"
    /\ index' = body[c]
    /\ readable' = "whole"
    /\ IF kind[c] = "delete"
       THEN /\ Goto(c, "remove")
            /\ UNCHANGED <<holder, kind, id, text, body, promised>>
       ELSE /\ Promise(id[c], [what |-> "text", text |-> text[c]])
            /\ Return(c)
    /\ UNCHANGED <<files, items>>

SaveErrorIgnored(c) ==
    /\ pc[c] \in {"open", "write"}
    /\ Promise(id[c], IF kind[c] = "delete" THEN [what |-> "gone"]
                      ELSE [what |-> "text", text |-> text[c]])
    /\ Return(c)
    /\ UNCHANGED <<files, disk, items>>

(* The error is answered; the list in memory stays changed.                *)
SaveFails(c) ==
    /\ pc[c] \in {"open", "write"}
    /\ \/ UNCHANGED readable
       \/ pc[c] = "write" /\ readable' = "part"
    /\ Return(c)
    /\ UNCHANGED <<files, index, items, promised>>

(* Delete removes the files once the index is written; errors of os.Remove *)
(* are ignored.                                                            *)
Remove(c) ==
    /\ pc[c] = "remove"
    /\ \E left \in {main[id[c]], "none"} : main' = [main EXCEPT ![id[c]] = left]
    /\ Goto(c, "removeOriginal")
    /\ UNCHANGED <<original, disk, items, holder, kind, id, text, body, promised>>

RemoveOriginal(c) ==
    /\ pc[c] = "removeOriginal"
    /\ \E left \in {original[id[c]], "none"} :
          original' = [original EXCEPT ![id[c]] = left]
    /\ Promise(id[c], [what |-> "gone"])
    /\ Return(c)
    /\ UNCHANGED <<main, disk, items>>

-----------------------------------------------------------------------------
(* The process dies and starts again.  load takes an empty index.json for  *)
(* an empty library, whatever was promised, and refuses half of one.       *)
Loaded == IF readable = "empty" THEN NoItems ELSE index

Restart ==
    /\ \E c \in Callers : pc[c] # "idle"
    /\ readable # "part"
    /\ items' = Loaded
    /\ promised' = IF readable = "empty"
                   THEN [i \in Ids |-> IF promised[i].what = "gone" THEN promised[i]
                                       ELSE Nothing]
                   ELSE promised
    /\ holder' = None
    /\ pc' = [c \in Callers |-> "idle"]
    /\ kind' = [c \in Callers |-> "upload"]
    /\ id' = [c \in Callers |-> None]
    /\ text' = [c \in Callers |-> None]
    /\ body' = [c \in Callers |-> NoItems]
    /\ UNCHANGED <<files, disk>>

Step(c) ==
    \/ Create(c) \/ Fill(c) \/ CreateOriginal(c) \/ FillOriginal(c)
    \/ UploadFails(c) \/ Apply(c) \/ NotFound(c)
    \/ OpenIndex(c) \/ WriteIndex(c) \/ SaveFails(c)
    \/ Remove(c) \/ RemoveOriginal(c)

Next ==
    \/ \E c \in Callers : Step(c)
    \/ \E c \in Callers, i \in Ids, t \in Texts, k \in {"upload", "update"} :
          Call(c, k, i, t)
    \/ \E c \in Callers, i \in Ids : Call(c, "delete", i, None)
    \/ Restart

Spec == Init /\ [][Next]_vars

-----------------------------------------------------------------------------
(* Every item that is listed, or would be after a restart, has its files:  *)
(* uploads write them before they list it, and Delete removes them only    *)
(* after the index without it is written.                                  *)
Listed(i) == items[i] # None \/ (readable = "whole" /\ index[i] # None)
ListedHaveFiles ==
    \A i \in Ids : Listed(i) =>
        main[i] = "whole" /\ (i \in Converted => original[i] = "whole")

(* What was answered stays true, in memory and in a readable index.json:   *)
(* neither other calls, nor their failures, nor a restart take back an     *)
(* acknowledged upload, alt text or deletion.  (The exception is part of   *)
(* Restart: an index.json left empty is taken for an empty library.)       *)
Holds(p, listed) ==
    /\ p.what = "there" => listed # None
    /\ p.what = "text" => listed = p.text
    /\ p.what = "gone" => listed = None

PromisesKept ==
    \A i \in Ids : /\ Holds(promised[i], items[i])
                   /\ readable = "whole" => Holds(promised[i], index[i])
=============================================================================
